------------------------------ MODULE MCMessage ------------------------------
(***************************************************************************)
(* Statements of two parameters that between them have every column type.  *)
(* The first column is offered every C++ type, the second a few.           *)
(***************************************************************************)
EXTENDS Message

MCLimit == [INT16 |-> 2 ^ 4, INT32 |-> 2 ^ 6, INT64 |-> 2 ^ 8, INT128 |-> 2 ^ 10]
MCPrecision == [FLOAT |-> 6, DOUBLE |-> 8]
MCMaxExponent10 == [FLOAT |-> 0, DOUBLE |-> 2]
MCDateBeyond == [y |-> 3, m |-> 1, d |-> 1]
MCZones == [UTC |-> 0, East |-> 400]

D(type, scale, length) == [type |-> type, scale |-> scale, length |-> length]
MCPrepared ==
    {<<D("INT16", 0, 2), D("TEXT", 0, 2)>>, <<D("INT16", -1, 2), D("INT32", -1, 4)>>,
     <<D("INT32", -1, 4), D("VARYING", 0, 1)>>, <<D("INT64", -1, 8), D("INT16", 0, 2)>>,
     <<D("INT128", -2, 16), D("BOOLEAN", 0, 1)>>, <<D("FLOAT", 0, 4), D("INT32", 0, 4)>>,
     <<D("DOUBLE", 0, 8), D("DATE", 0, 4)>>, <<D("BOOLEAN", 0, 1), D("DOUBLE", 0, 8)>>,
     <<D("TEXT", 0, 3), D("INT64", 0, 8)>>, <<D("DATE", 0, 4), D("TEXT", 0, 1)>>,
     <<D("TIME", 0, 4), D("DATE", 0, 4)>>, <<D("TIMESTAMP", 0, 8), D("INT16", -1, 2)>>,
     <<D("TIME_TZ_EX", 0, 8), D("DATE", 0, 4)>>, <<D("TIMESTAMP_TZ_EX", 0, 12), D("INT16", 0, 2)>>,
     <<D("BLOB", 0, 8), D("BOOLEAN", 0, 1)>>, <<D("DECFLOAT16", 0, 8), D("INT16", 0, 2)>>,
     <<D("DECFLOAT34", 0, 16)>>}

Numbers ==
    {Value("int16", -5, 0), Value("int16", 9, 0), Value("int32", 15, 0), Value("int64", -16, 0), Value("int64", 127, 0),
     Value("BoostInt128", 2, 0), Value("ScaledInt16", 15, -1), Value("ScaledInt16", 2, 1), Value("ScaledInt32", -25, -2),
     Value("ScaledInt64", 63, -1), Value("ScaledBoostInt128", -9, -1),
     Value("float", 48, 0), Value("double", -40, 0), Value("double", 32 * 200, 0), Value("double", NotFinite, 0),
     Value("ScaledOpaqueInt128", 77, 0), Value("OpaqueDecFloat16", 3, 0), Value("OpaqueDecFloat34", 3, 0),
     Value("bool", TRUE, 0), Value("bool", FALSE, 0), Value("BlobId", 1, 0)}

D1 == [y |-> 1, m |-> 2, d |-> 1]
Local == [matches |-> TRUE, date |-> D1, time |-> [h |-> 2, m |-> 0, s |-> 1, fraction |-> <<7>>], zone |-> "East"]
Calendars ==
    {Value("Date", D1, 0), Value("Date", [D1 EXCEPT !.y = -1], 0), Value("Date", [D1 EXCEPT !.m = 0], 0), Value("OpaqueDate", 5, 0),
     Value("Time", 202, 0), Value("Time", 203, 0), Value("Time", -202, 0), Value("Time", 2404, 0), Value("OpaqueTime", 300, 0),
     Value("Timestamp", [date |-> D1, time |-> 202], 0), Value("Timestamp", [date |-> D1, time |-> 203], 0),
     Value("OpaqueTimestamp", [date |-> 5, time |-> 300], 0),
     Value("TimeTz", [utc |-> 202, zone |-> "East"], 0), Value("TimeTz", [utc |-> 202, zone |-> "nowhere"], 0),
     Value("OpaqueTimeTz", [utc |-> 300, zone |-> "UTC"], 0),
     Value("TimestampTz", [utc |-> [date |-> D1, time |-> 202], zone |-> "East"], 0),
     Value("OpaqueTimestampTz", [utc |-> [date |-> 5, time |-> 300], zone |-> "UTC"], 0)}

S(text) == Value("string", text, 0)
Strings ==
    {S(NumberText(<<"-", "1", ".", "5">>)), S(NumberText(<<"7">>)), S(NumberText(<<"0", ".", "0", "6">>)),
     S(NumberText(<<"x">>)), S(NumberText(<<>>)), S(NumberText(NotFiniteText)), S(Text("BOOLEAN", TRUE)),
     S(Text("DATE", Local)), S(Text("TIME", Local)), S(Text("TIMESTAMP", Local)),
     S(Text("TIME_TZ", Local)), S(Text("TIMESTAMP_TZ", Local))}

Few == {Null, Value("int32", 15, 0), Value("ScaledInt32", -25, -2), S(NumberText(<<"7">>)), Value("bool", TRUE, 0)}
MCOffered == <<{Null} \union Numbers \union Calendars \union Strings, Few \union {Value("OpaqueDate", 5, 0)}>>
MCStructs == {<<x>> : x \in Few} \union {<<x, y>> : x, y \in Few}

MCVariants ==
    {<<"int32", "string">>, <<"string", "int32", "ScaledInt64", "monostate">>, <<"monostate", "int16", "ScaledInt16", "double">>,
     <<"monostate", "Date", "OpaqueDate", "float">>, <<"OpaqueTime", "OpaqueTimestamp">>, <<"monostate", "BlobId", "bool">>,
     <<"Time", "Timestamp", "TimeTz", "TimestampTz", "ScaledOpaqueInt128", "OpaqueDecFloat16">>}

Member(kind, type) == [kind |-> kind, type |-> type]
MCMembers ==
    {<<Member("optional", "string")>>,
     <<Member("plain", "int32"), Member("optional", "string")>>, <<Member("optional", "string"), Member("plain", "bool")>>,
     <<Member("plain", "double"), Member("plain", "int16")>>, <<Member("optional", "Date"), Member("optional", "ScaledInt32")>>,
     <<Member("variant", <<"monostate", "string">>), Member("plain", "OpaqueDate")>>}
=============================================================================

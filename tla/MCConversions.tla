--------------------------- MODULE MCConversions ---------------------------
(***************************************************************************)
(* Small widths with the shape of the real ones: the double's significand  *)
(* (7 bits) holds INT16 and INT32 and not INT64, so INT64's limit rounds   *)
(* up as it does with 53.  A float has two bits less.  A day has 2*2*3     *)
(* seconds of 100 ticks, and years are tried before the first of the       *)
(* client library's calendar and after the last that text can write.       *)
(***************************************************************************)
EXTENDS Conversions

MCLimit == [INT16 |-> 2 ^ 4, INT32 |-> 2 ^ 5, INT64 |-> 2 ^ 8, INT128 |-> 2 ^ 9]
MCPrecision == [FLOAT |-> 5, DOUBLE |-> 7]
MCMaxExponent10 == [FLOAT |-> 1, DOUBLE |-> 2]
MCScales == -2 .. 1

(* Every double of magnitude up to 2^8: 7-bit significands times powers of two, in units of 2^-12. *)
MCFloats == {s * m * 2 ^ e : s \in {-1, 1}, m \in 0 .. 127, e \in 0 .. 15}

Letters == {"-", ".", "0", "4", "5", "9"}
MCTexts == UNION {[1 .. n -> Letters] : n \in 0 .. 4}

MCZones == [UTC |-> 0, East |-> 400, West |-> -600, Odd |-> 30]
MCYears == -1 .. 3
MCDayBeyond == -5                              \* a day before the first, read as no date at all
MCDateBeyond == [y |-> 3, m |-> 0, d |-> 1]
MCTextTimes ==
    [h : {0, HoursPerDay - 1, HoursPerDay}, m : {0, MinutesPerHour - 1, MinutesPerHour},
     s : {0, SecondsPerMinute - 1, SecondsPerMinute}, fraction : {<<>>, <<7>>, <<0, 3>>}]
MCInstants == {-2, -1, 0, 1, 2, 1199, 1200, 2397, 2398, 2399, 2400, 2402}

(* Every kind of argument, two texts, and one whose count cuts it short. *)
MCTextArgs == {<<<<"arg", kind>>, <<"text", t>>>> : kind \in {"string", "interpreted", "sql_state"}, t \in {<<"a">>, <<"b", "c">>}}
MCArguments == MCTextArgs \union
    {<<<<"arg", "gds">>, <<"number", 1>>>>, <<<<"arg", "gds">>, <<"number", 2>>>>,
     <<<<"arg", "number">>, <<"number", 3>>>>, <<<<"arg", "unix">>, <<"number", 4>>>>,
     <<<<"arg", "cstring">>, <<"number", 1>>, <<"text", <<"b", "c">>>>>>}
=============================================================================

-------------------------------- MODULE Fields --------------------------------
(***************************************************************************)
(* One field of a message buffer, written by the typed setters of          *)
(* Statement and read by the typed getters of Row, as functions of the     *)
(* field's descriptor.                                                     *)
(*                                                                         *)
(* A C++ value is [cpp, held, scale]: its type, what it holds, and its     *)
(* scale if the type has one.  A field is NullField or                     *)
(* [null |-> FALSE, data].                                                 *)
(* What a setter or a getter may answer is a set of outcomes, because      *)
(* FloatToInt may be undefined.  A text is [chars, pattern, fields]: its   *)
(* characters, and the numbers it holds if it matches a pattern.           *)
(*                                                                         *)
(* The configuration is the default one, with Boost.Multiprecision.        *)
(* Numbers and texts are not exchanged with DECFLOAT columns here.         *)
(***************************************************************************)
EXTENDS Numeric, Calendar, FiniteSets, FiniteSetsExt

Value(cpp, held, scale) == [cpp |-> cpp, held |-> held, scale |-> scale]
Null == Value("null", 0, 0)
IsNull(x) == x.cpp = "null"
Text(pattern, fields) == [chars |-> <<pattern>>, pattern |-> pattern, fields |-> fields]
NumberText(chars) == [chars |-> chars, pattern |-> "none", fields |-> 0]

IntTypeOf ==
    [int16 |-> "INT16", int32 |-> "INT32", int64 |-> "INT64", BoostInt128 |-> "INT128",
     ScaledInt16 |-> "INT16", ScaledInt32 |-> "INT32", ScaledInt64 |-> "INT64", ScaledBoostInt128 |-> "INT128"]
PlainIntegers == {"int16", "int32", "int64", "BoostInt128"}
ScaledIntegers == DOMAIN IntTypeOf \ PlainIntegers
FloatTypeOf == [float |-> "FLOAT", double |-> "DOUBLE"]

(* The types that hold Firebird's own representation of one column type.   *)
(* isOpaqueTypeV holds for them: a variant never falls back to one.        *)
OpaqueTypeOf ==
    [ScaledOpaqueInt128 |-> "INT128", OpaqueDecFloat16 |-> "DECFLOAT16", OpaqueDecFloat34 |-> "DECFLOAT34",
     OpaqueDate |-> "DATE", OpaqueTime |-> "TIME", OpaqueTimestamp |-> "TIMESTAMP",
     OpaqueTimeTz |-> "TIME_TZ", OpaqueTimestampTz |-> "TIMESTAMP_TZ"]

throwInvalidType == Throw("invalid_type")

(* A switch with one case: the column's type, or throwInvalidType. *)
Require(d, type, outcome) == IF d.type = type THEN outcome ELSE throwInvalidType

-----------------------------------------------------------------------------
(* Setters: what ends up in a field of descriptor d. *)

setBool(d, x) == Require(d, "BOOLEAN", Ok(x.held))

(* convertNumber: a number of one type and scale as another type. *)
convertNumber(v, type, scale, toType, toScale) ==
    CASE type \in IntTypes -> {IF toType \in IntTypes THEN IntToInt(v, type, scale, toType, toScale)
                               ELSE IntToFloat(v, scale, toType)}
      [] type \in FloatTypes -> IF toType \in IntTypes THEN FloatToInt(v, toType, toScale)
                                ELSE {FloatToFloat(v, toType)}
      [] OTHER -> {throwInvalidType}

setNumber(d, type, v, scale) ==
    IF d.type \in IntTypes \union FloatTypes THEN convertNumber(v, type, scale, d.type, d.scale)
    ELSE {throwInvalidType}

(* Mistaken: an integer column takes the number as it is. *)
setIntegerUnchecked(d, x) ==
    IF d.type \in IntTypes THEN {Ok(x.held)} ELSE setNumber(d, IntTypeOf[x.cpp], x.held, x.scale)

setInteger(d, x) == setNumber(d, IntTypeOf[x.cpp], x.held, x.scale)
setBoostInteger(d, x) == setNumber(d, "INT128", x.held, x.scale)
setFloating(d, x) == setNumber(d, FloatTypeOf[x.cpp], x.held, 0)

setOpaqueInt128(d, x) == Require(d, "INT128", Ok(x.held))
setOpaqueDecFloat16(d, x) == Require(d, "DECFLOAT16", Ok(x.held))
setOpaqueDecFloat34(d, x) == Require(d, "DECFLOAT34", Ok(x.held))

setDate(d, x) == Require(d, "DATE", dateToOpaqueDate(x.held))
setOpaqueDate(d, x) == Require(d, "DATE", Ok(x.held))
setTime(d, x) == Require(d, "TIME", timeToOpaqueTime(x.held))
setOpaqueTime(d, x) == Require(d, "TIME", Ok(x.held))
setTimestamp(d, x) == Require(d, "TIMESTAMP", timestampToOpaqueTimestamp(x.held))
setOpaqueTimestamp(d, x) == Require(d, "TIMESTAMP", Ok(x.held))
setTimeTz(d, x) == Require(d, "TIME_TZ", timeTzToOpaqueTimeTz(x.held))
setOpaqueTimeTz(d, x) == Require(d, "TIME_TZ", Ok(x.held))
setTimestampTz(d, x) == Require(d, "TIMESTAMP_TZ", timestampTzToOpaqueTimestampTz(x.held))
setOpaqueTimestampTz(d, x) == Require(d, "TIMESTAMP_TZ", Ok(x.held))
setBlobId(d, x) == Require(d, "BLOB", Ok(x.held))

stringToBoolean(s) == IF s.pattern = "BOOLEAN" THEN Ok(s.fields) ELSE Throw("convert_error")

(* The client library's reading of a decimal. *)
Int128FromString(s, scale) ==
    LET parsed == FromChars(WithoutDot(s.chars), "INT128")
    IN  IF parsed.ok THEN IntToInt(parsed.value, "INT128", ScaleOfText(s.chars), "INT128", scale) ELSE parsed

TextOf(kind, s) == IF s.pattern = kind THEN s.fields ELSE NoMatch

setString(d, s) ==
    CASE d.type = "BOOLEAN" -> {stringToBoolean(s)}
      [] d.type \in {"INT16", "INT32", "INT64"} -> {StringToInt(s.chars, d.type, d.scale)}
      [] d.type = "INT128" -> {Int128FromString(s, d.scale)}
      [] d.type \in FloatTypes -> LET x == DoubleFromChars(s.chars)
                                  IN  IF x.ok THEN setNumber(d, "DOUBLE", x.value, 0) ELSE {x}
      [] d.type = "DATE" -> {stringToOpaqueDate(TextOf("DATE", s))}
      [] d.type = "TIME" -> {stringToOpaqueTime(TextOf("TIME", s))}
      [] d.type = "TIMESTAMP" -> {stringToOpaqueTimestamp(TextOf("TIMESTAMP", s))}
      [] d.type = "TIME_TZ" -> {stringToOpaqueTimeTz(TextOf("TIME_TZ", s))}
      [] d.type = "TIMESTAMP_TZ" -> {stringToOpaqueTimestampTz(TextOf("TIMESTAMP_TZ", s))}
      [] d.type = "STRING" -> {IF Len(s.chars) > d.length THEN Throw("string_truncation") ELSE Ok(s)}
      [] OTHER -> {throwInvalidType}

(* The overloads of set, by the type of the argument. *)
SetterOfNumber(d, x) ==
    CASE x.cpp = "bool" -> {setBool(d, x)}
      [] x.cpp \in {"BoostInt128", "ScaledBoostInt128"} -> setBoostInteger(d, x)
      [] x.cpp \in DOMAIN IntTypeOf \ {"BoostInt128", "ScaledBoostInt128"} -> setInteger(d, x)
      [] x.cpp \in DOMAIN FloatTypeOf -> setFloating(d, x)
      [] x.cpp = "ScaledOpaqueInt128" -> {setOpaqueInt128(d, x)}
      [] x.cpp = "OpaqueDecFloat16" -> {setOpaqueDecFloat16(d, x)}
      [] x.cpp = "OpaqueDecFloat34" -> {setOpaqueDecFloat34(d, x)}
      [] x.cpp = "BlobId" -> {setBlobId(d, x)}
SetterOfCalendar(d, x) ==
    {CASE x.cpp = "Date" -> setDate(d, x)
       [] x.cpp = "OpaqueDate" -> setOpaqueDate(d, x)
       [] x.cpp = "Time" -> setTime(d, x)
       [] x.cpp = "OpaqueTime" -> setOpaqueTime(d, x)
       [] x.cpp = "Timestamp" -> setTimestamp(d, x)
       [] x.cpp = "OpaqueTimestamp" -> setOpaqueTimestamp(d, x)
       [] x.cpp = "TimeTz" -> setTimeTz(d, x)
       [] x.cpp = "OpaqueTimeTz" -> setOpaqueTimeTz(d, x)
       [] x.cpp = "TimestampTz" -> setTimestampTz(d, x)
       [] x.cpp = "OpaqueTimestampTz" -> setOpaqueTimestampTz(d, x)}

CalendarTypes ==
    {"Date", "OpaqueDate", "Time", "OpaqueTime", "Timestamp", "OpaqueTimestamp",
     "TimeTz", "OpaqueTimeTz", "TimestampTz", "OpaqueTimestampTz"}
NumberTypes ==
    DOMAIN IntTypeOf \union DOMAIN FloatTypeOf \union
    {"bool", "ScaledOpaqueInt128", "OpaqueDecFloat16", "OpaqueDecFloat34", "BlobId"}
CppTypes == NumberTypes \union CalendarTypes \union {"string"}

(* One answer of each: the sequences os with os[i] \in answers[i]. *)
EachAnswered(answers) ==
    LET upTo[n \in 0 .. Len(answers)] ==
            IF n = 0 THEN {<<>>} ELSE {Append(os, o) : os \in upTo[n - 1], o \in answers[n]}
    IN  upTo[Len(answers)]

NullField == [null |-> TRUE]
Field(data) == [null |-> FALSE, data |-> data]

(* The fields that x may leave behind, or the errors instead. *)
Written(d, x) ==
    IF IsNull(x) THEN {Ok(NullField)}
    ELSE {IF o.ok THEN Ok(Field(o.value)) ELSE o :
             o \in IF x.cpp = "string" THEN setString(d, x.held)
                   ELSE IF x.cpp \in CalendarTypes THEN SetterOfCalendar(d, x) ELSE SetterOfNumber(d, x)}

-----------------------------------------------------------------------------
(* Getters: what is read from the data of a column of descriptor d. *)

getBool(d, data) == Require(d, "BOOLEAN", Ok(data))

getNumber(d, data, type, toScale) == convertNumber(data, d.type, d.scale, type, toScale)

(* Mistaken: brings the number to scale 0 and reports the column's scale. *)
getScaledAsPlain(d, data, type) ==
    IF d.type \in FloatTypes THEN {throwInvalidType} ELSE getNumber(d, data, type, 0)

(* Without a scale of its own, the number keeps the column's. *)
getScaled(d, data, type) ==
    IF d.type \in FloatTypes THEN {throwInvalidType} ELSE getNumber(d, data, type, d.scale)

getInteger(d, data, cpp) == getNumber(d, data, IntTypeOf[cpp], 0)
getFloating(d, data, cpp) == getNumber(d, data, FloatTypeOf[cpp], 0)
getScaledOpaqueInt128(d, data) == Require(d, "INT128", Ok(data))
getOpaqueDecFloat16(d, data) == Require(d, "DECFLOAT16", Ok(data))
getOpaqueDecFloat34(d, data) == Require(d, "DECFLOAT34", Ok(data))

getDate(d, data) == Require(d, "DATE", opaqueDateToDate(data))
getOpaqueDate(d, data) == Require(d, "DATE", Ok(data))
getTime(d, data) == Require(d, "TIME", opaqueTimeToTime(data))
getOpaqueTime(d, data) == Require(d, "TIME", Ok(data))
getTimestamp(d, data) == Require(d, "TIMESTAMP", opaqueTimestampToTimestamp(data))
getOpaqueTimestamp(d, data) == Require(d, "TIMESTAMP", Ok(data))
getTimeTz(d, data) == Require(d, "TIME_TZ", opaqueTimeTzToTimeTz(data))
getOpaqueTimeTz(d, data) == Require(d, "TIME_TZ", Ok(data))
getTimestampTz(d, data) == Require(d, "TIMESTAMP_TZ", opaqueTimestampTzToTimestampTz(data))
getOpaqueTimestampTz(d, data) == Require(d, "TIMESTAMP_TZ", Ok(data))
getBlobId(d, data) == Require(d, "BLOB", Ok(data))

(* Mistaken: the point is left out. *)
getStringUnscaled(d, data) ==
    IF d.type \in IntTypes THEN Ok(NumberText(NumberToString(data, 0)))
    ELSE IF d.type = "STRING" THEN Ok(data) ELSE throwInvalidType

getString(d, data) ==
    CASE d.type = "BOOLEAN" -> Ok(Text("BOOLEAN", data))
      [] d.type \in IntTypes -> Ok(NumberText(NumberToString(data, d.scale)))
      [] d.type \in FloatTypes -> Ok(NumberText(FloatToString(data)))
      [] d.type = "DATE" -> Ok(Text("DATE", opaqueDateToString(data)))
      [] d.type = "TIME" -> Ok(Text("TIME", opaqueTimeToString(data)))
      [] d.type = "TIMESTAMP" -> Ok(Text("TIMESTAMP", opaqueTimestampToString(data)))
      [] d.type = "TIME_TZ" -> Ok(Text("TIME_TZ", opaqueTimeTzToString(data)))
      [] d.type = "TIMESTAMP_TZ" -> Ok(Text("TIMESTAMP_TZ", opaqueTimestampTzToString(data)))
      [] d.type = "STRING" -> Ok(data)
      [] OTHER -> throwInvalidType

(* The specialisations of get<optional<T>>. *)
GetterOfNumber(d, data, cpp) ==
    CASE cpp = "bool" -> {getBool(d, data)}
      [] cpp \in PlainIntegers -> getInteger(d, data, cpp)
      [] cpp \in ScaledIntegers -> getScaled(d, data, IntTypeOf[cpp])
      [] cpp \in DOMAIN FloatTypeOf -> getFloating(d, data, cpp)
      [] cpp = "ScaledOpaqueInt128" -> {getScaledOpaqueInt128(d, data)}
      [] cpp = "OpaqueDecFloat16" -> {getOpaqueDecFloat16(d, data)}
      [] cpp = "OpaqueDecFloat34" -> {getOpaqueDecFloat34(d, data)}
      [] cpp = "BlobId" -> {getBlobId(d, data)}
GetterOfCalendar(d, data, cpp) ==
    {CASE cpp = "Date" -> getDate(d, data)
       [] cpp = "OpaqueDate" -> getOpaqueDate(d, data)
       [] cpp = "Time" -> getTime(d, data)
       [] cpp = "OpaqueTime" -> getOpaqueTime(d, data)
       [] cpp = "Timestamp" -> getTimestamp(d, data)
       [] cpp = "OpaqueTimestamp" -> getOpaqueTimestamp(d, data)
       [] cpp = "TimeTz" -> getTimeTz(d, data)
       [] cpp = "OpaqueTimeTz" -> getOpaqueTimeTz(d, data)
       [] cpp = "TimestampTz" -> getTimestampTz(d, data)
       [] cpp = "OpaqueTimestampTz" -> getOpaqueTimestampTz(d, data)}

HasScale(cpp) == cpp \in ScaledIntegers \union {"ScaledOpaqueInt128"}

Read(d, field, cpp) ==
    IF field.null THEN {Ok(Null)}
    ELSE {IF o.ok THEN Ok(Value(cpp, o.value, IF HasScale(cpp) THEN d.scale ELSE 0)) ELSE o :
             o \in IF cpp = "string" THEN {getString(d, field.data)}
                   ELSE IF cpp \in CalendarTypes THEN GetterOfCalendar(d, field.data, cpp)
                   ELSE GetterOfNumber(d, field.data, cpp)}

-----------------------------------------------------------------------------
(* Variants: a sequence of alternatives. *)

VariantContains(V, cpp) == \E i \in 1 .. Len(V) : V[i] = cpp

(* The alternatives that getVariantValue looks for, in order. *)
Preferred(d) ==
    CASE d.type = "BOOLEAN" -> <<"bool">>
      [] d.type = "INT16" -> IF d.scale = 0 THEN <<"int16">>
                             ELSE <<"ScaledInt16", "ScaledInt32", "ScaledInt64", "ScaledBoostInt128", "int16">>
      [] d.type = "INT32" -> IF d.scale = 0 THEN <<"int32">>
                             ELSE <<"ScaledInt32", "ScaledInt64", "ScaledBoostInt128", "int32">>
      [] d.type = "INT64" -> IF d.scale = 0 THEN <<"int64">> ELSE <<"ScaledInt64", "ScaledBoostInt128", "int64">>
      [] d.type = "INT128" -> <<"ScaledOpaqueInt128", IF d.scale = 0 THEN "BoostInt128" ELSE "ScaledBoostInt128">>
      [] d.type = "FLOAT" -> <<"float">>
      [] d.type = "DOUBLE" -> <<"double">>
      [] d.type = "DECFLOAT16" -> <<"OpaqueDecFloat16">>
      [] d.type = "DECFLOAT34" -> <<"OpaqueDecFloat34">>
      [] d.type = "STRING" -> <<"string">>
      [] d.type = "DATE" -> <<"OpaqueDate", "Date">>
      [] d.type = "TIME" -> <<"OpaqueTime", "Time">>
      [] d.type = "TIMESTAMP" -> <<"OpaqueTimestamp", "Timestamp">>
      [] d.type = "TIME_TZ" -> <<"OpaqueTimeTz", "TimeTz">>
      [] d.type = "TIMESTAMP_TZ" -> <<"OpaqueTimestampTz", "TimestampTz">>
      [] d.type = "BLOB" -> <<"BlobId">>

tryVariantAlternatives(d, field, V) ==
    LET tried == {i \in 1 .. Len(V) : V[i] # "monostate" /\ V[i] \notin DOMAIN OpaqueTypeOf}
    IN  IF tried = {} THEN {Throw("no_alternative")} ELSE Read(d, field, V[Min(tried)])

(* Mistaken: the variant's own order decides. *)
getVariantValueInOrder(d, field, V) == tryVariantAlternatives(d, field, V)

getVariantValue(d, field, V) ==
    LET wanted == {i \in 1 .. Len(Preferred(d)) : VariantContains(V, Preferred(d)[i])}
    IN  IF wanted = {} THEN tryVariantAlternatives(d, field, V) ELSE Read(d, field, Preferred(d)[Min(wanted)])

ReadVariant(d, field, V) ==
    IF ~field.null THEN getVariantValue(d, field, V)
    ELSE {IF VariantContains(V, "monostate") THEN Ok(Null) ELSE Throw("null_without_monostate")}

-----------------------------------------------------------------------------
(* Structs: a sequence of members, [kind, type]. *)

(* Mistaken: a plain member is read like an optional one. *)
getStructFieldUnchecked(d, field, member) ==
    IF member.kind = "variant" THEN ReadVariant(d, field, member.type) ELSE Read(d, field, member.type)

getStructField(d, field, member) ==
    CASE member.kind = "variant" -> ReadVariant(d, field, member.type)
      [] member.kind = "optional" -> Read(d, field, member.type)
      [] OTHER -> IF field.null THEN {Throw("null_for_non_optional")} ELSE Read(d, field, member.type)

(* The members are read from left to right, and the first error is thrown. *)
getStruct(ds, fields, members) ==
    IF Len(members) # Len(ds) THEN {Throw("field_count")}
    ELSE LET answers == [i \in 1 .. Len(ds) |-> getStructField(ds[i], fields[i], members[i])]
             failed(os) == {i \in 1 .. Len(ds) : ~os[i].ok}
             struct(os) == IF failed(os) = {} THEN Ok([i \in 1 .. Len(ds) |-> os[i].value])
                           ELSE os[Min(failed(os))]
         IN  {struct(os) : os \in EachAnswered(answers)}
=============================================================================

---------------------------- MODULE MessageProofs ----------------------------
(***************************************************************************)
(* Message keeps its types and its nulls, a value bound is the value read, *)
(* a text read can be bound again, a variant keeps its value, a setter     *)
(* that throws changes nothing and a struct stops at the member refused:   *)
(* for any columns, arguments, structs and variants.                       *)
(*                                                                         *)
(* The argument goes from the operators to the steps.  What the numeric    *)
(* conversions answer fits its type (ConverterProofs); so what a setter    *)
(* stores fits its column (WrittenMeans), and what a getter reads fits the *)
(* type asked for and is null when the column is (ReadMeans, VariantMeans, *)
(* StructMeans).  A variant with an alternative without loss takes one     *)
(* (LosslessFirst, VariantKeeps), each getter takes back what its setter   *)
(* did (BoundReadsBack), and setString what getString printed              *)
(* (TextBoundAgain).  MessageInv is inductive: the answer given describes  *)
(* the row it was read from, and only a call that reads or forgets touches *)
(* either.                                                                 *)
(***************************************************************************)
EXTENDS Message, ConverterProofs

LEMMA Int128FromStringFits ==
  ASSUME NEW s, s.chars \in Seq(STRING), NEW scale \in Int
  PROVE  LET r == Int128FromString(s, scale)
         IN  /\ r.ok \in BOOLEAN
             /\ r.ok => r = Ok(r.value) /\ r.value \in Int /\ Fits(r.value, "INT128")
<1> DEFINE parsed == FromChars(WithoutDot(s.chars), "INT128")
           r == IF parsed.ok THEN IntToInt(parsed.value, "INT128", ScaleOfText(s.chars), "INT128", scale) ELSE parsed
<1>1. "INT128" \in IntTypes /\ WithoutDot(s.chars) \in Seq(STRING) /\ ScaleOfText(s.chars) \in Int
  BY WithoutDotMeans, ScaleOfTextType DEF IntTypes
<1>2. parsed.ok \in BOOLEAN /\ (parsed.ok => parsed.value \in Int)
  BY <1>1, FromCharsFits
<1> HIDE DEF parsed
<1>3. r.ok \in BOOLEAN /\ (r.ok => r = Ok(r.value) /\ r.value \in Int /\ Fits(r.value, "INT128"))
  BY <1>1, <1>2, IntToIntFits
<1>4. Int128FromString(s, scale) = r
  BY DEF Int128FromString, r, parsed
<1> HIDE DEF r
<1> QED BY <1>3, <1>4

-----------------------------------------------------------------------------
(* What a column of descriptor d can hold. *)
FieldFits(d, data) ==
    /\ d.type \in IntTypes => Fits(data, d.type)
    /\ d.type = "STRING" => data.chars \in Seq(STRING) /\ Len(data.chars) <= d.length
    /\ d.type = "BOOLEAN" => data \in BOOLEAN

(* The answers of a setter: either all of them fail, or all of them are    *)
(* data that the column holds.                                             *)
Sound(answers, d) ==
    \/ \A o \in answers : ~o.ok
    \/ \A o \in answers : o.ok /\ FieldFits(d, o.value)

LEMMA SoundOne ==
  ASSUME NEW d, NEW o, o.ok => FieldFits(d, o.value)
  PROVE  Sound({o}, d)
BY DEF Sound

LEMMA Answers ==
  /\ \A v : Ok(v).ok = TRUE /\ Ok(v).value = v
  /\ \A e : Throw(e).ok = FALSE
  /\ throwInvalidType.ok = FALSE
BY DEF Ok, Throw, throwInvalidType

LEMMA SoundRequire ==
  ASSUME NEW d, NEW type, NEW o, d.type = type /\ o.ok => FieldFits(d, o.value)
  PROVE  Sound({Require(d, type, o)}, d)
<1>1. Require(d, type, o).ok => FieldFits(d, Require(d, type, o).value)
  BY Answers DEF Require
<1> QED BY <1>1, SoundOne

(* For the columns of which FieldFits says nothing. *)
OpaqueTypes == {"DECFLOAT16", "DECFLOAT34", "DATE", "TIME", "TIMESTAMP", "TIME_TZ", "TIMESTAMP_TZ", "BLOB"}

LEMMA SoundOpaque ==
  ASSUME NEW d, NEW type \in OpaqueTypes, NEW o
  PROVE  Sound({Require(d, type, o)}, d)
<1>1. d.type = type => FieldFits(d, o.value)
  BY DEF FieldFits, OpaqueTypes, IntTypes
<1> QED BY <1>1, SoundRequire

LEMMA SoundFloatToInt ==
  ASSUME NEW d \in Descriptors(ColumnTypes), d.type \in IntTypes, NEW x, NEW toScale
  PROVE  Sound(FloatToInt(x, d.type, toScale), d)
<1> DEFINE min == MinOf(d.type)
           max == MaxOf(d.type)
           scaled == IF toScale > 0 THEN NearestQuotient(x, PowerOfTen(toScale), "DOUBLE")
                     ELSE IF toScale < 0 THEN Nearest(x * PowerOfTen(-toScale), "DOUBLE") ELSE x
           value == Nearest(AwayFromZero(scaled), "DOUBLE")
           minLimit == Nearest(min * One, "DOUBLE")
           maxLimit == Nearest(max * One, "DOUBLE")
           whole == Quot(value, One)
           justBelow == value > Nearest(minLimit - One, "DOUBLE")
           justAbove == value < Nearest(maxLimit + One, "DOUBLE")
           error == Throw("numeric_out_of_range")
<1>1. FloatToInt(x, d.type, toScale) =
        CASE x = NotFinite -> {error}
          [] value < minLimit -> {IF justBelow THEN Ok(min) ELSE error}
          [] value > maxLimit -> {IF justAbove THEN Ok(max) ELSE error}
          [] OTHER -> IF Fits(whole, d.type) THEN {Ok(whole)} ELSE {Ok(v) : v \in min .. max}
  BY DEF FloatToInt
<1>2. min \in min .. max /\ max \in min .. max
  BY LimitsKept
<1>3. \A v : v \in min .. max => FieldFits(d, v)
  BY DEF FieldFits, Fits, IntTypes
<1>4. error.ok = FALSE
  BY Answers
<1> HIDE DEF error
<1>5. Sound({IF justBelow THEN Ok(min) ELSE error}, d)
  <2> HIDE DEF justBelow, min
  <2> QED BY <1>2, <1>3, <1>4, Answers DEF Sound
<1>6. Sound({IF justAbove THEN Ok(max) ELSE error}, d)
  <2> HIDE DEF justAbove, max
  <2> QED BY <1>2, <1>3, <1>4, Answers DEF Sound
<1>7. Fits(whole, d.type) => Sound({Ok(whole)}, d)
  <2> HIDE DEF whole
  <2> QED BY <1>3, Answers DEF Sound, Fits
<1>8. Sound({Ok(v) : v \in min .. max}, d)
  <2> HIDE DEF min, max
  <2> QED BY <1>3, Answers DEF Sound
<1>9. Sound({error}, d)
  BY <1>4, SoundOne
<1> HIDE DEF min, max, value, minLimit, maxLimit, whole, justBelow, justAbove
<1> QED BY <1>1, <1>5, <1>6, <1>7, <1>8, <1>9

LEMMA FitsIsInt ==
  ASSUME NEW type \in IntTypes, NEW v, Fits(v, type)
  PROVE  v \in Int
BY LimitsKept DEF Fits

LEMMA SoundNumber ==
  ASSUME NEW d \in Descriptors(ColumnTypes), NEW type \in IntTypes \union FloatTypes,
         NEW v, NEW scale \in Int, type \in IntTypes => v \in Int
  PROVE  Sound(setNumber(d, type, v, scale), d)
<1>1. d.type \in ColumnTypes /\ d.scale \in Int
  BY DEF Descriptors
<1>2. IntTypes \intersect FloatTypes = {}
  BY DEF IntTypes, FloatTypes
<1>3. CASE d.type \notin IntTypes \union FloatTypes
  BY <1>3, Answers DEF setNumber, Sound
<1>4. CASE d.type \in IntTypes /\ type \in IntTypes
  <2> DEFINE r == IntToInt(v, type, scale, d.type, d.scale)
  <2>1. r.ok => Fits(r.value, d.type)
    BY <1>1, <1>4, IntToIntFits
  <2>2. r.ok => FieldFits(d, r.value)
    BY <1>4, <2>1 DEF FieldFits, IntTypes
  <2>3. setNumber(d, type, v, scale) = {r}
    BY <1>2, <1>4 DEF setNumber, convertNumber
  <2> HIDE DEF r
  <2> QED BY <2>2, <2>3, SoundOne
<1>5. CASE d.type \in IntTypes /\ type \in FloatTypes
  <2>1. setNumber(d, type, v, scale) = FloatToInt(v, d.type, d.scale)
    BY <1>2, <1>5 DEF setNumber, convertNumber
  <2> QED BY <1>5, <2>1, SoundFloatToInt
<1>6. CASE d.type \in FloatTypes
  <2>1. \A o : FieldFits(d, o)
    BY <1>6 DEF FieldFits, FloatTypes, IntTypes
  <2>2. CASE type \in IntTypes
    <3>1. setNumber(d, type, v, scale) = {IntToFloat(v, scale, d.type)}
      BY <1>2, <1>6, <2>2 DEF setNumber, convertNumber
    <3> QED BY <2>1, <3>1, SoundOne
  <2>3. CASE type \in FloatTypes
    <3>1. setNumber(d, type, v, scale) = {FloatToFloat(v, d.type)}
      BY <1>2, <1>6, <2>3 DEF setNumber, convertNumber
    <3> QED BY <2>1, <3>1, SoundOne
  <2> QED BY <2>2, <2>3
<1> QED BY <1>3, <1>4, <1>5, <1>6

LEMMA SoundString ==
  ASSUME NEW d \in Descriptors(ColumnTypes), NEW s,
         s.chars \in Seq(STRING), s.pattern = "BOOLEAN" => s.fields \in BOOLEAN
  PROVE  Sound(setString(d, s), d)
<1>1. d.type \in ColumnTypes /\ d.scale \in Int /\ d.length \in Nat /\ Len(s.chars) \in Nat
  BY LenProperties DEF Descriptors
<1>2. CASE d.type = "BOOLEAN"
  <2> DEFINE r == stringToBoolean(s)
  <2>1. r.ok => FieldFits(d, r.value)
    BY <1>2, Answers DEF stringToBoolean, FieldFits, IntTypes
  <2>2. setString(d, s) = {r}
    BY <1>2 DEF setString, FloatTypes
  <2> HIDE DEF r
  <2> QED BY <2>1, <2>2, SoundOne
<1>3. CASE d.type \in {"INT16", "INT32", "INT64"}
  <2> DEFINE r == StringToInt(s.chars, d.type, d.scale)
  <2>1. d.type \in IntTypes
    BY <1>3 DEF IntTypes
  <2>2. r.ok => Fits(r.value, d.type)
    BY <1>1, <2>1, StringToIntFits
  <2>3. r.ok => FieldFits(d, r.value)
    BY <1>3, <2>2 DEF FieldFits
  <2>4. setString(d, s) = {r}
    BY <1>3 DEF setString, FloatTypes
  <2> HIDE DEF r
  <2> QED BY <2>3, <2>4, SoundOne
<1>4. CASE d.type = "INT128"
  <2> DEFINE r == Int128FromString(s, d.scale)
  <2>1. r.ok => Fits(r.value, "INT128")
    BY <1>1, Int128FromStringFits
  <2>2. r.ok => FieldFits(d, r.value)
    BY <1>4, <2>1 DEF FieldFits
  <2>3. setString(d, s) = {r}
    BY <1>4 DEF setString, FloatTypes
  <2> HIDE DEF r
  <2> QED BY <2>2, <2>3, SoundOne
<1>5. CASE d.type \in FloatTypes
  <2> DEFINE x == DoubleFromChars(s.chars)
             z == 0
  <2>1. setString(d, s) = IF x.ok THEN setNumber(d, "DOUBLE", x.value, z) ELSE {x}
    BY <1>5 DEF setString, FloatTypes
  <2>2. "DOUBLE" \in IntTypes \union FloatTypes /\ "DOUBLE" \notin IntTypes /\ z \in Int
    BY DEF FloatTypes, IntTypes
  <2> HIDE DEF x, z
  <2>3. Sound(setNumber(d, "DOUBLE", x.value, z), d)
    BY <2>2, SoundNumber
  <2>4. ~x.ok => Sound({x}, d)
    BY SoundOne
  <2> QED BY <2>1, <2>3, <2>4
<1>6. CASE d.type \in {"DATE", "TIME", "TIMESTAMP", "TIME_TZ", "TIMESTAMP_TZ"}
  <2>1. \A o : FieldFits(d, o)
    BY <1>6 DEF FieldFits, IntTypes
  <2>2. \E r : setString(d, s) = {r}
    BY <1>6 DEF setString, FloatTypes
  <2> QED BY <2>1, <2>2, SoundOne
<1>7. CASE d.type = "STRING"
  <2> DEFINE r == IF Len(s.chars) > d.length THEN Throw("string_truncation") ELSE Ok(s)
  <2>1. r.ok => r = Ok(s) /\ Len(s.chars) <= d.length
    BY <1>1, Answers
  <2>2. r.ok => FieldFits(d, r.value)
    BY <1>7, <2>1, Answers DEF FieldFits, IntTypes
  <2>3. setString(d, s) = {r}
    BY <1>7 DEF setString, FloatTypes
  <2> HIDE DEF r
  <2> QED BY <2>2, <2>3, SoundOne
<1>8. CASE d.type \in {"DECFLOAT16", "DECFLOAT34", "BLOB"}
  <2>1. setString(d, s) = {throwInvalidType}
    BY <1>8 DEF setString, FloatTypes
  <2> QED BY <2>1, Answers, SoundOne
<1> QED BY <1>1, <1>2, <1>3, <1>4, <1>5, <1>6, <1>7, <1>8 DEF ColumnTypes, IntTypes

LEMMA SoundSetterOfNumber ==
  ASSUME NEW d \in Descriptors(ColumnTypes), NEW x, Typed(x), x.cpp \in NumberTypes
  PROVE  Sound(SetterOfNumber(d, x), d)
<1> DEFINE boost == {"BoostInt128", "ScaledBoostInt128"}
<1>1. DOMAIN IntTypeOf = {"int16", "int32", "int64", "BoostInt128", "ScaledInt16", "ScaledInt32", "ScaledInt64", "ScaledBoostInt128"}
      /\ DOMAIN FloatTypeOf = {"float", "double"}
  BY DEF IntTypeOf, FloatTypeOf
<1>2. ASSUME x.cpp \in DOMAIN IntTypeOf
      PROVE  IntTypeOf[x.cpp] \in IntTypes /\ x.held \in Int /\ x.scale \in Int
  <2>1. IntTypeOf[x.cpp] \in IntTypes
    BY <1>2 DEF IntTypeOf, IntTypes
  <2>2. Fits(x.held, IntTypeOf[x.cpp]) /\ x.scale \in Int
    BY <1>2 DEF Typed
  <2> QED BY <2>1, <2>2, FitsIsInt
<1>3. CASE x.cpp = "bool"
  <2>1. d.type = "BOOLEAN" => FieldFits(d, x.held)
    BY <1>3 DEF Typed, FieldFits, IntTypes
  <2>2. Sound({setBool(d, x)}, d)
    BY <2>1, Answers, SoundRequire DEF setBool
  <2>3. SetterOfNumber(d, x) = {setBool(d, x)}
    BY <1>1, <1>3 DEF SetterOfNumber
  <2> QED BY <2>2, <2>3
<1>4. CASE x.cpp \in boost
  <2>1. SetterOfNumber(d, x) = setNumber(d, "INT128", x.held, x.scale)
    BY <1>1, <1>4 DEF SetterOfNumber, setBoostInteger
  <2>2. x.held \in Int /\ x.scale \in Int /\ "INT128" \in IntTypes
    BY <1>1, <1>2, <1>4 DEF IntTypes
  <2> QED BY <2>1, <2>2, SoundNumber
<1>5. CASE x.cpp \in DOMAIN IntTypeOf \ boost
  <2>1. SetterOfNumber(d, x) = setNumber(d, IntTypeOf[x.cpp], x.held, x.scale)
    BY <1>1, <1>5 DEF SetterOfNumber, setInteger
  <2>2. x.held \in Int /\ x.scale \in Int /\ IntTypeOf[x.cpp] \in IntTypes
    BY <1>2, <1>5
  <2> QED BY <2>1, <2>2, SoundNumber
<1>6. CASE x.cpp \in DOMAIN FloatTypeOf
  <2> DEFINE z == 0
  <2>1. SetterOfNumber(d, x) = setNumber(d, FloatTypeOf[x.cpp], x.held, z)
    BY <1>1, <1>6 DEF SetterOfNumber, setFloating
  <2>2. FloatTypeOf[x.cpp] \in FloatTypes /\ FloatTypeOf[x.cpp] \notin IntTypes /\ z \in Int
    BY <1>6 DEF FloatTypeOf, FloatTypes, IntTypes
  <2> HIDE DEF z
  <2> QED BY <2>1, <2>2, SoundNumber
<1>7. CASE x.cpp = "ScaledOpaqueInt128"
  <2>1. d.type = "INT128" => FieldFits(d, x.held)
    BY <1>7 DEF Typed, FieldFits
  <2>2. Sound({setOpaqueInt128(d, x)}, d)
    BY <2>1, Answers, SoundRequire DEF setOpaqueInt128
  <2>3. SetterOfNumber(d, x) = {setOpaqueInt128(d, x)}
    BY <1>1, <1>7 DEF SetterOfNumber
  <2> QED BY <2>2, <2>3
<1>8. CASE x.cpp = "OpaqueDecFloat16"
  <2>1. SetterOfNumber(d, x) = {Require(d, "DECFLOAT16", Ok(x.held))}
    BY <1>1, <1>8 DEF SetterOfNumber, setOpaqueDecFloat16
  <2> QED BY <2>1, SoundOpaque DEF OpaqueTypes
<1>9. CASE x.cpp = "OpaqueDecFloat34"
  <2>1. SetterOfNumber(d, x) = {Require(d, "DECFLOAT34", Ok(x.held))}
    BY <1>1, <1>9 DEF SetterOfNumber, setOpaqueDecFloat34
  <2> QED BY <2>1, SoundOpaque DEF OpaqueTypes
<1>10. CASE x.cpp = "BlobId"
  <2>1. SetterOfNumber(d, x) = {Require(d, "BLOB", Ok(x.held))}
    BY <1>1, <1>10 DEF SetterOfNumber, setBlobId
  <2> QED BY <2>1, SoundOpaque DEF OpaqueTypes
<1>11. x.cpp \in DOMAIN IntTypeOf \union DOMAIN FloatTypeOf \union
                {"bool", "ScaledOpaqueInt128", "OpaqueDecFloat16", "OpaqueDecFloat34", "BlobId"}
  BY DEF NumberTypes
<1> HIDE DEF boost
<1> QED BY <1>3, <1>4, <1>5, <1>6, <1>7, <1>8, <1>9, <1>10, <1>11

LEMMA SoundSetterOfCalendar ==
  ASSUME NEW d, NEW x, x.cpp \in CalendarTypes
  PROVE  Sound(SetterOfCalendar(d, x), d)
<1>1. \E type \in OpaqueTypes : \E o : SetterOfCalendar(d, x) = {Require(d, type, o)}
  <2>1. CASE x.cpp \in {"Date", "OpaqueDate"}
    <3>1. "DATE" \in OpaqueTypes
      BY DEF OpaqueTypes
    <3> QED BY <2>1, <3>1 DEF SetterOfCalendar, setDate, setOpaqueDate
  <2>2. CASE x.cpp \in {"Time", "OpaqueTime"}
    <3>1. "TIME" \in OpaqueTypes
      BY DEF OpaqueTypes
    <3> QED BY <2>2, <3>1 DEF SetterOfCalendar, setTime, setOpaqueTime
  <2>3. CASE x.cpp \in {"Timestamp", "OpaqueTimestamp"}
    <3>1. "TIMESTAMP" \in OpaqueTypes
      BY DEF OpaqueTypes
    <3> QED BY <2>3, <3>1 DEF SetterOfCalendar, setTimestamp, setOpaqueTimestamp
  <2>4. CASE x.cpp \in {"TimeTz", "OpaqueTimeTz"}
    <3>1. "TIME_TZ" \in OpaqueTypes
      BY DEF OpaqueTypes
    <3> QED BY <2>4, <3>1 DEF SetterOfCalendar, setTimeTz, setOpaqueTimeTz
  <2>5. CASE x.cpp \in {"TimestampTz", "OpaqueTimestampTz"}
    <3>1. "TIMESTAMP_TZ" \in OpaqueTypes
      BY DEF OpaqueTypes
    <3> QED BY <2>5, <3>1 DEF SetterOfCalendar, setTimestampTz, setOpaqueTimestampTz
  <2> QED BY <2>1, <2>2, <2>3, <2>4, <2>5 DEF CalendarTypes
<1> QED BY <1>1, SoundOpaque

(* Written: null is stored for null; else all answers fail or all are      *)
(* fields that hold data of the column's type.                             *)
StoredOk(d, o) == o = Ok(Field(o.value.data)) /\ FieldFits(d, o.value.data)

LEMMA FieldMeans ==
  /\ NullField.null = TRUE
  /\ \A data : Field(data).null = FALSE /\ Field(data).data = data
BY DEF NullField, Field

LEMMA WrittenMeans ==
  ASSUME NEW d \in Descriptors(ColumnTypes), NEW x, Typed(x)
  PROVE  /\ IsNull(x) => Written(d, x) = {Ok(NullField)}
         /\ ~IsNull(x) => \/ \A o \in Written(d, x) : ~o.ok
                          \/ \A o \in Written(d, x) : o.ok /\ StoredOk(d, o)
<1> SUFFICES ASSUME ~IsNull(x)
             PROVE  \/ \A o \in Written(d, x) : ~o.ok
                    \/ \A o \in Written(d, x) : o.ok /\ StoredOk(d, o)
  BY DEF Written
<1> DEFINE answers == IF x.cpp = "string" THEN setString(d, x.held)
                      ELSE IF x.cpp \in CalendarTypes THEN SetterOfCalendar(d, x) ELSE SetterOfNumber(d, x)
<1>1. x.cpp \in NumberTypes \union CalendarTypes \union {"string"}
  BY DEF Typed, IsNull, CppTypes
<1>2. Sound(answers, d)
  <2>1. CASE x.cpp = "string"
    <3>1. x.held.chars \in Seq(STRING) /\ (x.held.pattern = "BOOLEAN" => x.held.fields \in BOOLEAN)
      BY <2>1 DEF Typed
    <3>2. Sound(setString(d, x.held), d)
      BY <3>1, SoundString
    <3> QED BY <2>1, <3>2
  <2>2. CASE x.cpp # "string" /\ x.cpp \in CalendarTypes
    BY <2>2, SoundSetterOfCalendar
  <2>3. CASE x.cpp # "string" /\ x.cpp \notin CalendarTypes
    <3>1. x.cpp \in NumberTypes
      BY <1>1, <2>3
    <3> QED BY <2>3, <3>1, SoundSetterOfNumber
  <2> QED BY <2>1, <2>2, <2>3
<1>3. Written(d, x) = {IF o.ok THEN Ok(Field(o.value)) ELSE o : o \in answers}
  BY DEF Written
<1> HIDE DEF answers
<1>4. CASE \A o \in answers : ~o.ok
  BY <1>3, <1>4
<1>5. CASE \A o \in answers : o.ok /\ FieldFits(d, o.value)
  <2>1. ASSUME NEW o \in Written(d, x) PROVE o.ok /\ StoredOk(d, o)
    <3>1. PICK a \in answers : o = Ok(Field(a.value)) /\ FieldFits(d, a.value)
      BY <1>3, <1>5
    <3>2. o.value.data = a.value /\ o.ok
      BY <3>1, Answers, FieldMeans
    <3> QED BY <3>1, <3>2 DEF StoredOk
  <2> QED BY <2>1
<1> QED BY <1>2, <1>4, <1>5 DEF Sound

-----------------------------------------------------------------------------
(* Getters: null is read as null, and nothing else is.                     *)
LEMMA NullIsNoType == "null" \notin CppTypes \union {"monostate"}
BY DEF CppTypes, NumberTypes, CalendarTypes, IntTypeOf, FloatTypeOf

LEMMA ValueMeans ==
  /\ \A cpp, held, scale : LET x == Value(cpp, held, scale) IN x.cpp = cpp /\ x.held = held /\ x.scale = scale
  /\ IsNull(Null)
BY DEF Value, IsNull, Null

LEMMA ReadMeans ==
  ASSUME NEW d, NEW field, NEW cpp
  PROVE  /\ field.null => Read(d, field, cpp) = {Ok(Null)}
         /\ ~field.null => \A o \in Read(d, field, cpp) : o.ok => o.value.cpp = cpp
<1> SUFFICES ASSUME ~field.null, NEW o \in Read(d, field, cpp), o.ok PROVE o.value.cpp = cpp
  BY DEF Read
<1> DEFINE answers == IF cpp = "string" THEN {getString(d, field.data)}
                      ELSE IF cpp \in CalendarTypes THEN GetterOfCalendar(d, field.data, cpp)
                      ELSE GetterOfNumber(d, field.data, cpp)
           scale == IF HasScale(cpp) THEN d.scale ELSE 0
<1>1. Read(d, field, cpp) = {IF a.ok THEN Ok(Value(cpp, a.value, scale)) ELSE a : a \in answers}
  BY DEF Read
<1> HIDE DEF answers, scale
<1>2. PICK a \in answers : o = IF a.ok THEN Ok(Value(cpp, a.value, scale)) ELSE a
  BY <1>1
<1>3. o = Ok(Value(cpp, a.value, scale))
  BY <1>2
<1> QED BY <1>3, Answers, ValueMeans

Alternatives == CppTypes \union {"monostate"}

LEMMA PreferredType ==
  ASSUME NEW d \in Descriptors(ColumnTypes)
  PROVE  Preferred(d) \in Seq(CppTypes)
<1>1. d.type \in ColumnTypes
  BY DEF Descriptors
<1>2. {"bool", "ScaledInt16", "ScaledInt32", "ScaledInt64", "ScaledBoostInt128", "int16", "int32", "int64", "BoostInt128",
       "ScaledOpaqueInt128", "float", "double", "OpaqueDecFloat16", "OpaqueDecFloat34", "string",
       "OpaqueDate", "Date", "OpaqueTime", "Time", "OpaqueTimestamp", "Timestamp", "OpaqueTimeTz", "TimeTz",
       "OpaqueTimestampTz", "TimestampTz", "BlobId"} \subseteq CppTypes
  BY DEF CppTypes, NumberTypes, CalendarTypes, IntTypeOf, FloatTypeOf
<1> QED BY <1>1, <1>2 DEF Preferred, ColumnTypes, IntTypes, FloatTypes

(* getVariantValue reads one of the variant's alternatives, or throws.     *)
LEMMA VariantReads ==
  ASSUME NEW d \in Descriptors(ColumnTypes), NEW field, NEW V \in Seq(Alternatives),
         NEW o \in getVariantValue(d, field, V), o.ok
  PROVE  \E k \in 1 .. Len(V) : o \in Read(d, field, V[k])
<1> DEFINE preferred == Preferred(d)
           wanted == {i \in 1 .. Len(preferred) : VariantContains(V, preferred[i])}
           tried == {i \in 1 .. Len(V) : V[i] # "monostate" /\ V[i] \notin DOMAIN OpaqueTypeOf}
<1>1. Len(preferred) \in Nat /\ Len(V) \in Nat
  BY PreferredType, LenProperties
<1>2. wanted \in SUBSET Nat /\ tried \in SUBSET Nat
  BY <1>1
<1>3. CASE wanted # {}
  <2>1. Min(wanted) \in wanted
    <3> HIDE DEF wanted
    <3> QED BY <1>2, <1>3, SmallestIn
  <2>2. VariantContains(V, preferred[Min(wanted)])
    BY <2>1
  <2>3. o \in Read(d, field, preferred[Min(wanted)])
    BY <1>3 DEF getVariantValue
  <2> HIDE DEF wanted, preferred
  <2> QED BY <2>2, <2>3 DEF VariantContains
<1>4. CASE wanted = {}
  <2>1. o \in tryVariantAlternatives(d, field, V)
    BY <1>4 DEF getVariantValue
  <2>2. CASE tried # {}
    <3>1. Min(tried) \in tried
      <4> HIDE DEF tried
      <4> QED BY <1>2, <2>2, SmallestIn
    <3>2. Min(tried) \in 1 .. Len(V) /\ o \in Read(d, field, V[Min(tried)])
      BY <2>1, <2>2, <3>1 DEF tryVariantAlternatives
    <3> HIDE DEF tried
    <3> QED BY <3>2
  <2>3. CASE tried = {}
    <3>1. tryVariantAlternatives(d, field, V) = {Throw("no_alternative")}
      BY <2>3 DEF tryVariantAlternatives
    <3>2. o = Throw("no_alternative")
      BY <2>1, <3>1
    <3> QED BY <3>2, Answers
  <2> QED BY <2>2, <2>3
<1> QED BY <1>3, <1>4

(* A variant holds null if and only if the field is null. *)
LEMMA VariantMeans ==
  ASSUME NEW d \in Descriptors(ColumnTypes), NEW field, NEW V \in Seq(Alternatives),
         NEW o \in ReadVariant(d, field, V), o.ok
  PROVE  field.null <=> IsNull(o.value)
<1>1. CASE field.null
  <2>1. o = IF VariantContains(V, "monostate") THEN Ok(Null) ELSE Throw("null_without_monostate")
    BY <1>1 DEF ReadVariant
  <2>2. o = Ok(Null)
    BY <2>1, Answers
  <2> QED BY <1>1, <2>2, Answers, ValueMeans
<1>2. CASE ~field.null
  <2>1. o \in getVariantValue(d, field, V)
    BY <1>2 DEF ReadVariant
  <2>2. PICK k \in 1 .. Len(V) : o \in Read(d, field, V[k])
    BY <2>1, VariantReads
  <2>3. o.value.cpp = V[k]
    BY <1>2, <2>2, ReadMeans
  <2>4. V[k] \in Alternatives
    BY ElementOfSeq
  <2>5. ~IsNull(o.value)
    BY <2>3, <2>4, NullIsNoType DEF IsNull, Alternatives
  <2> QED BY <1>2, <2>5
<1> QED BY <1>1, <1>2

(* The members of Members, as they are read. *)
MemberOk(member) ==
    IF member.kind = "variant" THEN member.type \in Seq(Alternatives) ELSE member.type \in CppTypes

LEMMA MemberMeans ==
  ASSUME NEW d \in Descriptors(ColumnTypes), NEW field, NEW member, MemberOk(member),
         NEW o \in getStructField(d, field, member), o.ok
  PROVE  /\ field.null <=> IsNull(o.value)
         /\ field.null => member.kind # "plain"
<1>1. CASE member.kind = "variant"
  <2>1. o \in ReadVariant(d, field, member.type) /\ member.type \in Seq(Alternatives)
    BY <1>1 DEF getStructField, MemberOk
  <2> QED BY <1>1, <2>1, VariantMeans
<1>2. CASE member.kind # "variant"
  <2>1. field.null => member.kind = "optional"
    BY <1>2, Answers DEF getStructField
  <2>2. o \in Read(d, field, member.type) /\ member.type \in CppTypes
    BY <1>2, <2>1 DEF getStructField, MemberOk
  <2>3. CASE field.null
    <3>1. o = Ok(Null)
      BY <2>2, <2>3, ReadMeans
    <3> QED BY <2>1, <2>3, <3>1, Answers, ValueMeans
  <2>4. CASE ~field.null
    <3>1. o.value.cpp = member.type
      BY <2>2, <2>4, ReadMeans
    <3> QED BY <2>2, <2>4, <3>1, NullIsNoType DEF IsNull
  <2> QED BY <2>3, <2>4
<1> QED BY <1>1, <1>2

-----------------------------------------------------------------------------
(* EachAnswered: one answer of each, in the order of the members.          *)
LEMMA EachAnsweredMeans ==
  ASSUME NEW n \in Nat, NEW A, NEW os \in EachAnswered([i \in 1 .. n |-> A[i]])
  PROVE  /\ os = [i \in 1 .. n |-> os[i]]
         /\ \A i \in 1 .. n : os[i] \in A[i]
<1> DEFINE answers == [i \in 1 .. n |-> A[i]]
           O == UNION {A[i] : i \in 1 .. n}
           V == SUBSET Seq(O)
           Extend(set, i) == {Append(t, o) : t \in set, o \in answers[i]}
           base == {<<>>}
           Loop(g) == [i \in 0 .. n |-> IF i = 0 THEN base ELSE Extend(g[i - 1], i)]
           upTo == CHOOSE g : g = Loop(g)
           step == [p \in (Nat \ {0}) \X V |-> IF p[1] \in 1 .. n THEN Extend(p[2], p[1]) ELSE {}]
<1>1. Len(answers) = n
  <2>1. answers = [i \in 1 .. n |-> answers[i]]
    OBVIOUS
  <2> HIDE DEF answers
  <2> QED BY <2>1, LengthOfFunction
<1>2. \A i \in 1 .. n : answers[i] = A[i] /\ A[i] \subseteq O
  OBVIOUS
<1> HIDE DEF answers, O
<1>3. ASSUME NEW set \in V, NEW i \in 1 .. n PROVE Extend(set, i) \in V
  <2>1. ASSUME NEW t \in set, NEW o \in answers[i] PROVE Append(t, o) \in Seq(O)
    <3>1. t \in Seq(O) /\ o \in O
      BY <1>2
    <3> QED BY <3>1, AppendProperties
  <2> QED BY <2>1
<1>4. base \in V
  BY EmptySeq
<1>5. \A i \in Nat \ {0}, v \in V : step[<<i, v>>] = IF i \in 1 .. n THEN Extend(v, i) ELSE {}
  <2> HIDE DEF Extend, V
  <2> QED OBVIOUS
<1>6. StepsWithin(V, step)
  <2> HIDE DEF step, Extend
  <2>1. {} \in V
    OBVIOUS
  <2> HIDE DEF V
  <2> QED BY <1>3, <1>5, <2>1 DEF StepsWithin
<1>7. PICK f \in [0 .. n -> V] : Unfolds(f, base, step, n)
  <2> HIDE DEF step, V, base
  <2> QED BY <1>4, <1>6, RecursionExists
<1>8. f[0] = base /\ \A i \in 1 .. n : f[i] = Extend(f[i - 1], i)
  <2> HIDE DEF step, V, base, Extend
  <2>1. ASSUME NEW i \in 1 .. n PROVE f[i] = Extend(f[i - 1], i)
    <3>1. i \in Nat \ {0} /\ i - 1 \in 0 .. n
      OBVIOUS
    <3>2. f[i - 1] \in V /\ f[i] = step[<<i, f[i - 1]>>]
      BY <1>7, <3>1 DEF Unfolds
    <3> QED BY <1>5, <3>1, <3>2
  <2> QED BY <1>7, <2>1 DEF Unfolds
<1>9. f = Loop(f)
  <2> HIDE DEF step, V, base, Extend
  <2> QED BY <1>7, <1>8
<1>10. upTo = Loop(upTo)
  <2> HIDE DEF Loop
  <2> QED BY <1>9
<1> HIDE DEF upTo, V, step
<1>11. upTo[0] = base /\ \A i \in 1 .. n : upTo[i] = Extend(upTo[i - 1], i)
  <2>1. 0 \in 0 .. n /\ \A i \in 1 .. n : i \in 0 .. n /\ i # 0
    OBVIOUS
  <2> HIDE DEF base, Extend
  <2> QED BY <1>10, <2>1
<1> DEFINE Good(m) == \A t \in f[m] : /\ t \in Seq(O) /\ Len(t) = m
                                      /\ \A i \in 1 .. m : t[i] \in A[i]
           S == {m \in Nat : m \in 0 .. n => Good(m)}
<1>12. 0 \in S
  <2>1. \A t \in f[0] : t = <<>>
    BY <1>8
  <2>2. <<>> \in Seq(O) /\ Len(<<>>) = 0
    BY EmptySeq
  <2> QED BY <2>1, <2>2
<1>13. ASSUME NEW m \in Nat, m \in S PROVE m + 1 \in S
  <2> SUFFICES ASSUME m + 1 \in 0 .. n PROVE Good(m + 1)
    OBVIOUS
  <2>1. Good(m) /\ m + 1 \in 1 .. n /\ (m + 1) - 1 = m
    BY <1>13
  <2>2. f[m + 1] = Extend(f[m], m + 1)
    <3> HIDE DEF Extend, Good, S
    <3> QED BY <1>8, <2>1
  <2>3. ASSUME NEW t \in f[m], NEW o \in answers[m + 1]
        PROVE  /\ Append(t, o) \in Seq(O) /\ Len(Append(t, o)) = m + 1
               /\ \A i \in 1 .. m + 1 : Append(t, o)[i] \in A[i]
    <3>1. t \in Seq(O) /\ Len(t) = m /\ (\A i \in 1 .. m : t[i] \in A[i]) /\ o \in O /\ o \in A[m + 1]
      BY <1>2, <2>1
    <3>2. /\ Append(t, o) \in Seq(O) /\ Len(Append(t, o)) = m + 1
          /\ \A i \in 1 .. m : Append(t, o)[i] = t[i]
          /\ Append(t, o)[m + 1] = o
      BY <3>1, AppendProperties
    <3> QED BY <3>1, <3>2
  <2>4. ASSUME NEW u \in f[m + 1]
        PROVE  u \in Seq(O) /\ Len(u) = m + 1 /\ \A i \in 1 .. m + 1 : u[i] \in A[i]
    <3>1. PICK t \in f[m], o \in answers[m + 1] : u = Append(t, o)
      BY <2>2
    <3> QED BY <2>3, <3>1
  <2> QED BY <2>4
<1>14. Nat \subseteq S
  <2> HIDE DEF S
  <2> QED BY <1>12, <1>13, SetInduction
<1>15. Good(n)
  BY <1>14
<1>16. GoTogether(upTo, f, n)
  <2> HIDE DEF Extend
  <2> QED BY <1>8, <1>11 DEF GoTogether
<1>17. upTo[n] = f[n]
  BY <1>16, RecursionAgrees
<1>18. EachAnswered(answers) = upTo[n]
  BY <1>1 DEF EachAnswered, upTo, Loop
<1>19. os \in f[n]
  BY <1>17, <1>18 DEF answers
<1>20. os \in Seq(O) /\ Len(os) = n /\ \A i \in 1 .. n : os[i] \in A[i]
  BY <1>15, <1>19
<1>21. os \in [1 .. n -> O]
  BY <1>20, LenProperties
<1> QED BY <1>20, <1>21

(* A struct that is returned holds null exactly where the row does, and    *)
(* not in a plain member.                                                  *)
LEMMA StructMeans ==
  ASSUME NEW ds \in Seq(Descriptors(ColumnTypes)), NEW fields, NEW members,
         \A i \in 1 .. Len(members) : MemberOk(members[i]),
         NEW o \in getStruct(ds, fields, members), o.ok
  PROVE  \A i \in 1 .. Len(ds) : /\ fields[i].null <=> IsNull(o.value[i])
                                 /\ fields[i].null => members[i].kind # "plain"
<1> DEFINE n == Len(ds)
           A == [i \in 1 .. n |-> getStructField(ds[i], fields[i], members[i])]
           failed(os) == {i \in 1 .. n : ~os[i].ok}
           struct(os) == IF failed(os) = {} THEN Ok([i \in 1 .. n |-> os[i].value]) ELSE os[Min(failed(os))]
<1>1. n \in Nat
  BY LenProperties
<1>2. Len(members) = n
  BY Answers DEF getStruct
<1>3. PICK os \in EachAnswered(A) : o = struct(os)
  BY <1>2 DEF getStruct
<1>4. \A i \in 1 .. n : os[i] \in A[i]
  <2>1. A = [i \in 1 .. n |-> A[i]]
    OBVIOUS
  <2> HIDE DEF A, n
  <2> QED BY <1>1, <1>3, <2>1, EachAnsweredMeans
<1>5. failed(os) = {}
  <2> SUFFICES ASSUME failed(os) # {} PROVE FALSE
    OBVIOUS
  <2>1. Min(failed(os)) \in failed(os)
    <3> DEFINE set == failed(os)
    <3>1. set \in SUBSET Nat /\ set # {}
      BY <1>1
    <3> HIDE DEF set
    <3>2. Min(set) \in set
      BY <3>1, SmallestIn
    <3> QED BY <3>2 DEF set
  <2>2. ~os[Min(failed(os))].ok
    BY <2>1
  <2> QED BY <1>3, <2>2
<1>6. o.value = [i \in 1 .. n |-> os[i].value]
  BY <1>3, <1>5, Answers
<1>7. ASSUME NEW i \in 1 .. n
      PROVE  (fields[i].null <=> IsNull(o.value[i])) /\ (fields[i].null => members[i].kind # "plain")
  <2>1. ds[i] \in Descriptors(ColumnTypes)
    BY ElementOfSeq
  <2>2. os[i] \in getStructField(ds[i], fields[i], members[i])
    BY <1>4
  <2>3. os[i].ok /\ o.value[i] = os[i].value
    BY <1>5, <1>6
  <2>4. MemberOk(members[i])
    BY <1>2
  <2> QED BY <2>1, <2>2, <2>3, <2>4, MemberMeans
<1> QED BY <1>7

-----------------------------------------------------------------------------
(* Variants that hold the value of a column. *)

(* Of the types in the sequence P, c is the first but for others in L.     *)
ComesFirst(c, P, L) == \E j \in 1 .. Len(P) : P[j] = c /\ \A i \in 1 .. j : P[i] \in L

(* An alternative without loss is preferred, and only such are before it.  *)
LEMMA LosslessFirst ==
  ASSUME NEW d \in Descriptors(ColumnTypes), NEW c \in Lossless(d)
  PROVE  \E j \in 1 .. Len(Preferred(d)) :
            Preferred(d)[j] = c /\ \A i \in 1 .. j : Preferred(d)[i] \in Lossless(d)
<1> DEFINE P == Preferred(d)
           L == Lossless(d)
<1> SUFFICES ComesFirst(c, P, L)
  BY DEF ComesFirst
<1>1. d.type \in ColumnTypes /\ c \in L
  BY DEF Descriptors
<1>2. CASE d.type = "INT16"
  <2>1. CASE d.scale # 0
    <3>1. P = <<"ScaledInt16", "ScaledInt32", "ScaledInt64", "ScaledBoostInt128", "int16">>
      BY <1>2, <2>1 DEF Preferred
    <3>2. L = {"ScaledInt16", "ScaledInt32", "ScaledInt64"}
      BY <1>2, <2>1 DEF Lossless, IntTypeOf, PlainIntegers, FloatTypeOf, OpaqueTypeOf, IntTypes, NumberTypePriority
    <3> HIDE DEF P, L
    <3> QED BY <1>1, <3>1, <3>2 DEF ComesFirst
  <2>2. CASE d.scale = 0
    <3>1. P = <<"int16">>
      BY <1>2, <2>2 DEF Preferred
    <3>2. L = {"int16"}
      BY <1>2, <2>2 DEF Lossless, IntTypeOf, PlainIntegers, FloatTypeOf, OpaqueTypeOf, IntTypes, NumberTypePriority
    <3> HIDE DEF P, L
    <3> QED BY <1>1, <3>1, <3>2 DEF ComesFirst
  <2> QED BY <2>1, <2>2
<1>3. CASE d.type = "INT32"
  <2>1. CASE d.scale # 0
    <3>1. P = <<"ScaledInt32", "ScaledInt64", "ScaledBoostInt128", "int32">>
      BY <1>3, <2>1 DEF Preferred
    <3>2. L = {"ScaledInt32", "ScaledInt64"}
      BY <1>3, <2>1 DEF Lossless, IntTypeOf, PlainIntegers, FloatTypeOf, OpaqueTypeOf, IntTypes, NumberTypePriority
    <3> HIDE DEF P, L
    <3> QED BY <1>1, <3>1, <3>2 DEF ComesFirst
  <2>2. CASE d.scale = 0
    <3>1. P = <<"int32">>
      BY <1>3, <2>2 DEF Preferred
    <3>2. L = {"int32"}
      BY <1>3, <2>2 DEF Lossless, IntTypeOf, PlainIntegers, FloatTypeOf, OpaqueTypeOf, IntTypes, NumberTypePriority
    <3> HIDE DEF P, L
    <3> QED BY <1>1, <3>1, <3>2 DEF ComesFirst
  <2> QED BY <2>1, <2>2
<1>4. CASE d.type = "INT64"
  <2>1. CASE d.scale # 0
    <3>1. P = <<"ScaledInt64", "ScaledBoostInt128", "int64">>
      BY <1>4, <2>1 DEF Preferred
    <3>2. L = {"ScaledInt64"}
      BY <1>4, <2>1 DEF Lossless, IntTypeOf, PlainIntegers, FloatTypeOf, OpaqueTypeOf, IntTypes, NumberTypePriority
    <3> HIDE DEF P, L
    <3> QED BY <1>1, <3>1, <3>2 DEF ComesFirst
  <2>2. CASE d.scale = 0
    <3>1. P = <<"int64">>
      BY <1>4, <2>2 DEF Preferred
    <3>2. L = {"int64"}
      BY <1>4, <2>2 DEF Lossless, IntTypeOf, PlainIntegers, FloatTypeOf, OpaqueTypeOf, IntTypes, NumberTypePriority
    <3> HIDE DEF P, L
    <3> QED BY <1>1, <3>1, <3>2 DEF ComesFirst
  <2> QED BY <2>1, <2>2
<1>5. CASE d.type = "INT128"
  <2>1. P = <<"ScaledOpaqueInt128", IF d.scale = 0 THEN "BoostInt128" ELSE "ScaledBoostInt128">>
    BY <1>5 DEF Preferred
  <2>2. L = {"ScaledOpaqueInt128"} \union (IF d.scale = 0 THEN {"BoostInt128"} ELSE {})
    BY <1>5 DEF Lossless, IntTypeOf, PlainIntegers, FloatTypeOf, OpaqueTypeOf, IntTypes, NumberTypePriority
  <2> HIDE DEF P, L
  <2>3. CASE d.scale = 0
    BY <1>1, <2>1, <2>2, <2>3 DEF ComesFirst
  <2>4. CASE d.scale # 0
    BY <1>1, <2>1, <2>2, <2>4 DEF ComesFirst
  <2> QED BY <2>3, <2>4
<1>6. CASE d.type = "FLOAT"
  <2>1. P = <<"float">>
    BY <1>6 DEF Preferred
  <2>2. L = {"float"}
    BY <1>6 DEF Lossless, IntTypeOf, PlainIntegers, FloatTypeOf, OpaqueTypeOf, IntTypes, NumberTypePriority
  <2> HIDE DEF P, L
  <2> QED BY <1>1, <2>1, <2>2 DEF ComesFirst
<1>7. CASE d.type = "DOUBLE"
  <2>1. P = <<"double">>
    BY <1>7 DEF Preferred
  <2>2. L = {"double"}
    BY <1>7 DEF Lossless, IntTypeOf, PlainIntegers, FloatTypeOf, OpaqueTypeOf, IntTypes, NumberTypePriority
  <2> HIDE DEF P, L
  <2> QED BY <1>1, <2>1, <2>2 DEF ComesFirst
<1>8. CASE d.type = "BOOLEAN"
  <2>1. P = <<"bool">>
    BY <1>8 DEF Preferred
  <2>2. L = {"bool"}
    BY <1>8 DEF Lossless, IntTypeOf, PlainIntegers, FloatTypeOf, OpaqueTypeOf, IntTypes, NumberTypePriority
  <2> HIDE DEF P, L
  <2> QED BY <1>1, <2>1, <2>2 DEF ComesFirst
<1>9. CASE d.type = "STRING"
  <2>1. P = <<"string">>
    BY <1>9 DEF Preferred
  <2>2. L = {"string"}
    BY <1>9 DEF Lossless, IntTypeOf, PlainIntegers, FloatTypeOf, OpaqueTypeOf, IntTypes, NumberTypePriority
  <2> HIDE DEF P, L
  <2> QED BY <1>1, <2>1, <2>2 DEF ComesFirst
<1>10. CASE d.type = "DECFLOAT16"
  <2>1. P = <<"OpaqueDecFloat16">>
    BY <1>10 DEF Preferred
  <2>2. L = {"OpaqueDecFloat16"}
    BY <1>10 DEF Lossless, IntTypeOf, PlainIntegers, FloatTypeOf, OpaqueTypeOf, IntTypes, NumberTypePriority
  <2> HIDE DEF P, L
  <2> QED BY <1>1, <2>1, <2>2 DEF ComesFirst
<1>11. CASE d.type = "DECFLOAT34"
  <2>1. P = <<"OpaqueDecFloat34">>
    BY <1>11 DEF Preferred
  <2>2. L = {"OpaqueDecFloat34"}
    BY <1>11 DEF Lossless, IntTypeOf, PlainIntegers, FloatTypeOf, OpaqueTypeOf, IntTypes, NumberTypePriority
  <2> HIDE DEF P, L
  <2> QED BY <1>1, <2>1, <2>2 DEF ComesFirst
<1>12. CASE d.type = "DATE"
  <2>1. P = <<"OpaqueDate", "Date">>
    BY <1>12 DEF Preferred
  <2>2. L = {"OpaqueDate"}
    BY <1>12 DEF Lossless, IntTypeOf, PlainIntegers, FloatTypeOf, OpaqueTypeOf, IntTypes, NumberTypePriority
  <2> HIDE DEF P, L
  <2> QED BY <1>1, <2>1, <2>2 DEF ComesFirst
<1>13. CASE d.type = "TIME"
  <2>1. P = <<"OpaqueTime", "Time">>
    BY <1>13 DEF Preferred
  <2>2. L = {"OpaqueTime"}
    BY <1>13 DEF Lossless, IntTypeOf, PlainIntegers, FloatTypeOf, OpaqueTypeOf, IntTypes, NumberTypePriority
  <2> HIDE DEF P, L
  <2> QED BY <1>1, <2>1, <2>2 DEF ComesFirst
<1>14. CASE d.type = "TIMESTAMP"
  <2>1. P = <<"OpaqueTimestamp", "Timestamp">>
    BY <1>14 DEF Preferred
  <2>2. L = {"OpaqueTimestamp"}
    BY <1>14 DEF Lossless, IntTypeOf, PlainIntegers, FloatTypeOf, OpaqueTypeOf, IntTypes, NumberTypePriority
  <2> HIDE DEF P, L
  <2> QED BY <1>1, <2>1, <2>2 DEF ComesFirst
<1>15. CASE d.type = "TIME_TZ"
  <2>1. P = <<"OpaqueTimeTz", "TimeTz">>
    BY <1>15 DEF Preferred
  <2>2. L = {"OpaqueTimeTz"}
    BY <1>15 DEF Lossless, IntTypeOf, PlainIntegers, FloatTypeOf, OpaqueTypeOf, IntTypes, NumberTypePriority
  <2> HIDE DEF P, L
  <2> QED BY <1>1, <2>1, <2>2 DEF ComesFirst
<1>16. CASE d.type = "TIMESTAMP_TZ"
  <2>1. P = <<"OpaqueTimestampTz", "TimestampTz">>
    BY <1>16 DEF Preferred
  <2>2. L = {"OpaqueTimestampTz"}
    BY <1>16 DEF Lossless, IntTypeOf, PlainIntegers, FloatTypeOf, OpaqueTypeOf, IntTypes, NumberTypePriority
  <2> HIDE DEF P, L
  <2> QED BY <1>1, <2>1, <2>2 DEF ComesFirst
<1>17. CASE d.type = "BLOB"
  <2>1. L = {}
    BY <1>17 DEF Lossless, IntTypeOf, PlainIntegers, FloatTypeOf, OpaqueTypeOf, IntTypes, NumberTypePriority
  <2> QED BY <1>1, <2>1
<1> HIDE DEF P, L
<1> QED BY <1>1, <1>2, <1>3, <1>4, <1>5, <1>6, <1>7, <1>8, <1>9, <1>10, <1>11, <1>12, <1>13, <1>14, <1>15, <1>16, <1>17 DEF ColumnTypes, IntTypes, FloatTypes

LEMMA SameWidth ==
  ASSUME NEW from \in IntTypes, NEW to \in IntTypes, NEW v, Fits(v, from), NEW scale,
         NumberTypePriority[to] >= NumberTypePriority[from]
  PROVE  IntToInt(v, from, scale, to, scale) = Ok(v)
<1> DEFINE compute == GreaterNumberType(from, to)
           min == MinOf(to)
           max == MaxOf(to)
<1>1. compute = to
  BY DEF GreaterNumberType, NumberTypePriority, IntTypes
<1>2. /\ Cast(min, compute) = min /\ Cast(max, compute) = max /\ min \in Int /\ max \in Int
      /\ min <= MinOf(from) /\ MaxOf(from) <= max
  BY <1>1, LimitsKept
<1>3. MinOf(from) \in Int /\ MaxOf(from) \in Int
  BY LimitsKept
<1>4. v \in Int /\ ~(v < min \/ v > max)
  <2> HIDE DEF min, max
  <2> QED BY <1>2, <1>3 DEF Fits
<1> HIDE DEF min, max
<1>5. IntToInt(v, from, scale, to, scale)
        = IF Ok(v).ok /\ (Ok(v).value < min \/ Ok(v).value > max) THEN Throw("numeric_out_of_range") ELSE Ok(v)
  BY <1>2 DEF IntToInt, min, max, compute
<1> QED BY <1>4, <1>5, Answers

(* Read as an alternative without loss, a column gives its data and scale. *)
LEMMA LosslessRead ==
  ASSUME NEW d \in Descriptors(ColumnTypes), NEW c \in Lossless(d), NEW data, FieldFits(d, data)
  PROVE  \E held, scale :
            /\ Read(d, Field(data), c) = {Ok(Value(c, held, scale))}
            /\ d.type \in IntTypes => held = data /\ scale = d.scale
<1> DEFINE answers == IF c = "string" THEN {getString(d, data)}
                      ELSE IF c \in CalendarTypes THEN GetterOfCalendar(d, data, c) ELSE GetterOfNumber(d, data, c)
           scale == IF HasScale(c) THEN d.scale ELSE 0
<1>1. d.type \in ColumnTypes
  BY DEF Descriptors
<1>2. Read(d, Field(data), c) = {IF a.ok THEN Ok(Value(c, a.value, scale)) ELSE a : a \in answers}
  BY FieldMeans DEF Read
<1>3. ASSUME NEW held, answers = {Ok(held)}, d.type \in IntTypes => held = data /\ scale = d.scale
      PROVE  \E h, sc : /\ Read(d, Field(data), c) = {Ok(Value(c, h, sc))}
                        /\ d.type \in IntTypes => h = data /\ sc = d.scale
  <2> HIDE DEF answers, scale
  <2>1. Read(d, Field(data), c) = {Ok(Value(c, held, scale))}
    BY <1>2, <1>3, Answers
  <2> QED BY <1>3, <2>1
<1>4. IntTypes = {"INT16", "INT32", "INT64", "INT128"} /\ FloatTypes = {"FLOAT", "DOUBLE"}
  BY DEF IntTypes, FloatTypes
<1>5. DOMAIN IntTypeOf = {"int16", "int32", "int64", "BoostInt128", "ScaledInt16", "ScaledInt32", "ScaledInt64", "ScaledBoostInt128"}
      /\ PlainIntegers = {"int16", "int32", "int64", "BoostInt128"}
      /\ ScaledIntegers = {"ScaledInt16", "ScaledInt32", "ScaledInt64", "ScaledBoostInt128"}
      /\ DOMAIN FloatTypeOf = {"float", "double"}
      /\ DOMAIN OpaqueTypeOf = {"ScaledOpaqueInt128", "OpaqueDecFloat16", "OpaqueDecFloat34", "OpaqueDate", "OpaqueTime",
                               "OpaqueTimestamp", "OpaqueTimeTz", "OpaqueTimestampTz"}
  BY DEF IntTypeOf, PlainIntegers, ScaledIntegers, FloatTypeOf, OpaqueTypeOf
<1>6. /\ CalendarTypes \intersect (DOMAIN IntTypeOf \union DOMAIN FloatTypeOf) = {}
      /\ "string" \notin DOMAIN IntTypeOf \union DOMAIN FloatTypeOf \union CalendarTypes
  BY <1>5 DEF CalendarTypes
<1>7. CASE c \in {"ScaledInt16", "ScaledInt32", "ScaledInt64"} /\ d.type \in IntTypes
             /\ NumberTypePriority[IntTypeOf[c]] >= NumberTypePriority[d.type]
  <2>1. IntTypeOf[c] \in IntTypes /\ Fits(data, d.type)
    BY <1>7 DEF IntTypeOf, IntTypes, FieldFits
  <2>2. getScaled(d, data, IntTypeOf[c]) = {IntToInt(data, d.type, d.scale, IntTypeOf[c], d.scale)}
    BY <1>4, <1>7, <2>1 DEF getScaled, getNumber, convertNumber
  <2>3. GetterOfNumber(d, data, c) = getScaled(d, data, IntTypeOf[c])
    BY <1>5, <1>7 DEF GetterOfNumber
  <2>4. answers = GetterOfNumber(d, data, c)
    BY <1>5, <1>6, <1>7
  <2>5. scale = d.scale
    BY <1>5, <1>7 DEF HasScale
  <2>6. IntToInt(data, d.type, d.scale, IntTypeOf[c], d.scale) = Ok(data)
    BY <1>7, <2>1, SameWidth
  <2> HIDE DEF answers, scale
  <2>7. answers = {Ok(data)}
    BY <2>2, <2>3, <2>4, <2>6
  <2> QED BY <1>3, <2>5, <2>7
<1>8. CASE c \in PlainIntegers /\ d.type = IntTypeOf[c] /\ d.scale = 0
  <2>1. d.type \in IntTypes /\ Fits(data, d.type)
    BY <1>8 DEF IntTypeOf, IntTypes, FieldFits, PlainIntegers
  <2>2. getInteger(d, data, c) = {IntToInt(data, d.type, d.scale, d.type, d.scale)}
    BY <1>4, <1>8, <2>1 DEF getInteger, getNumber, convertNumber
  <2>3. GetterOfNumber(d, data, c) = getInteger(d, data, c)
    BY <1>5, <1>8 DEF GetterOfNumber
  <2>4. answers = GetterOfNumber(d, data, c)
    BY <1>5, <1>6, <1>8
  <2>5. scale = d.scale
    BY <1>5, <1>8 DEF HasScale
  <2>6. NumberTypePriority[d.type] >= NumberTypePriority[d.type]
    BY <2>1 DEF NumberTypePriority, IntTypes
  <2>7. IntToInt(data, d.type, d.scale, d.type, d.scale) = Ok(data)
    BY <2>1, <2>6, SameWidth
  <2> HIDE DEF answers, scale
  <2>8. answers = {Ok(data)}
    BY <2>2, <2>3, <2>4, <2>7
  <2> QED BY <1>3, <2>5, <2>8
<1>9. CASE c \in DOMAIN FloatTypeOf /\ d.type = FloatTypeOf[c]
  <2>1. d.type \in FloatTypes /\ d.type \notin IntTypes
    BY <1>9 DEF FloatTypeOf, IntTypes, FloatTypes
  <2>2. getFloating(d, data, c) = {FloatToFloat(data, d.type)}
    BY <1>4, <1>9, <2>1 DEF getFloating, getNumber, convertNumber
  <2>3. GetterOfNumber(d, data, c) = getFloating(d, data, c)
    BY <1>5, <1>9 DEF GetterOfNumber
  <2>4. answers = GetterOfNumber(d, data, c)
    BY <1>5, <1>6, <1>9
  <2>5. \E held : answers = {Ok(held)}
    BY <2>2, <2>3, <2>4 DEF FloatToFloat
  <2> HIDE DEF answers, scale
  <2> QED BY <1>3, <2>1, <2>5
<1>10. CASE c \in {"ScaledOpaqueInt128", "OpaqueDecFloat16", "OpaqueDecFloat34"} /\ d.type = OpaqueTypeOf[c]
  <2>1. answers = {Ok(data)}
    BY <1>5, <1>10 DEF OpaqueTypeOf, CalendarTypes, GetterOfNumber, getScaledOpaqueInt128, getOpaqueDecFloat16, getOpaqueDecFloat34, Require
  <2>2. d.type \in IntTypes => scale = d.scale
    BY <1>4, <1>10 DEF HasScale, OpaqueTypeOf
  <2> HIDE DEF answers, scale
  <2> QED BY <1>3, <2>1, <2>2
<1>11. CASE c \in {"OpaqueDate", "OpaqueTime", "OpaqueTimestamp", "OpaqueTimeTz", "OpaqueTimestampTz"}
            /\ d.type = OpaqueTypeOf[c]
  <2>1. answers = {Ok(data)}
    <3>1. GetterOfCalendar(d, data, c) = {Ok(data)}
      BY <1>11 DEF OpaqueTypeOf, GetterOfCalendar, getOpaqueDate, getOpaqueTime, getOpaqueTimestamp, getOpaqueTimeTz,
                   getOpaqueTimestampTz, Require
    <3>2. answers = GetterOfCalendar(d, data, c)
      BY <1>11 DEF CalendarTypes
    <3> QED BY <3>1, <3>2
  <2>2. d.type \notin IntTypes
    BY <1>4, <1>11 DEF OpaqueTypeOf
  <2> HIDE DEF answers, scale
  <2> QED BY <1>3, <2>1, <2>2
<1>12. CASE c = "string" /\ d.type = "STRING"
  <2>1. answers = {Ok(data)}
    BY <1>4, <1>12 DEF getString
  <2> HIDE DEF answers, scale
  <2> QED BY <1>3, <1>4, <1>12, <2>1
<1>13. CASE c = "bool" /\ d.type = "BOOLEAN"
  <2>1. answers = {Ok(data)}
    BY <1>5, <1>13 DEF CalendarTypes, GetterOfNumber, getBool, Require
  <2> HIDE DEF answers, scale
  <2> QED BY <1>3, <1>4, <1>13, <2>1
<1>14. \/ c \in {"ScaledInt16", "ScaledInt32", "ScaledInt64"} /\ d.type \in IntTypes
             /\ NumberTypePriority[IntTypeOf[c]] >= NumberTypePriority[d.type]
       \/ c \in PlainIntegers /\ d.type = IntTypeOf[c] /\ d.scale = 0
       \/ c \in DOMAIN FloatTypeOf /\ d.type = FloatTypeOf[c]
       \/ c \in DOMAIN OpaqueTypeOf /\ d.type = OpaqueTypeOf[c]
       \/ c = "string" /\ d.type = "STRING"
       \/ c = "bool" /\ d.type = "BOOLEAN"
  <2> DEFINE last == CASE d.type = "STRING" -> {"string"} [] d.type = "BOOLEAN" -> {"bool"} [] OTHER -> {}
  <2>1. c \in last => (c = "string" /\ d.type = "STRING") \/ (c = "bool" /\ d.type = "BOOLEAN")
    OBVIOUS
  <2> HIDE DEF last
  <2> QED BY <2>1 DEF Lossless, last
<1> HIDE DEF answers, scale
<1>15. c \in DOMAIN OpaqueTypeOf => c \in {"ScaledOpaqueInt128", "OpaqueDecFloat16", "OpaqueDecFloat34"} \union
          {"OpaqueDate", "OpaqueTime", "OpaqueTimestamp", "OpaqueTimeTz", "OpaqueTimestampTz"}
  BY <1>5
<1> QED BY <1>7, <1>8, <1>9, <1>10, <1>11, <1>12, <1>13, <1>14, <1>15

(* getVariantValue takes an alternative without loss if there is one. *)
LEMMA VariantKeeps ==
  ASSUME NEW d \in Descriptors(ColumnTypes), NEW data, FieldFits(d, data), NEW V,
         \E k \in 1 .. Len(V) : V[k] \in Lossless(d),
         NEW o \in getVariantValue(d, Field(data), V)
  PROVE  /\ o.ok
         /\ o.value.cpp \in Lossless(d)
         /\ d.type \in IntTypes => SameNumber(o.value, Value("column", data, d.scale))
<1> DEFINE P == Preferred(d)
           L == Lossless(d)
           wanted == {i \in 1 .. Len(P) : VariantContains(V, P[i])}
           c == P[Min(wanted)]
<1>1. PICK k \in 1 .. Len(V) : V[k] \in L
  OBVIOUS
<1>2. PICK j \in 1 .. Len(P) : P[j] = V[k] /\ \A i \in 1 .. j : P[i] \in L
  BY <1>1, LosslessFirst
<1>3. Len(P) \in Nat
  BY PreferredType, LenProperties
<1>4. j \in wanted /\ wanted \in SUBSET Nat
  BY <1>1, <1>2, <1>3 DEF VariantContains
<1>5. Min(wanted) \in wanted /\ Min(wanted) <= j
  <2> HIDE DEF wanted
  <2> QED BY <1>4, SmallestIn
<1>6. Min(wanted) \in 1 .. j
  BY <1>3, <1>5
<1>7. c \in L
  <2> HIDE DEF P, L, wanted
  <2> QED BY <1>2, <1>6
<1>8. o \in Read(d, Field(data), c)
  <2>1. wanted # {}
    BY <1>4
  <2> QED BY <2>1 DEF getVariantValue
<1> HIDE DEF c, L, P, wanted
<1>9. PICK held, scale : /\ Read(d, Field(data), c) = {Ok(Value(c, held, scale))}
                         /\ d.type \in IntTypes => held = data /\ scale = d.scale
  BY <1>7, LosslessRead DEF L
<1>10. o = Ok(Value(c, held, scale))
  BY <1>8, <1>9
<1>11. o.ok /\ o.value = Value(c, held, scale) /\ o.value.cpp = c
  BY <1>10, Answers, ValueMeans
<1>12. ASSUME d.type \in IntTypes PROVE SameNumber(o.value, Value("column", data, d.scale))
  <2>1. o.value.held = data /\ o.value.scale = d.scale
    BY <1>9, <1>11, <1>12, ValueMeans
  <2> QED BY <2>1, ValueMeans DEF SameNumber
<1> QED BY <1>7, <1>11, <1>12 DEF L

-----------------------------------------------------------------------------
(* What is bound and read with the same type.                              *)

SetAnswers(d, x) == IF x.cpp = "string" THEN setString(d, x.held)
                    ELSE IF x.cpp \in CalendarTypes THEN SetterOfCalendar(d, x) ELSE SetterOfNumber(d, x)
GetAnswers(d, data, cpp) == IF cpp = "string" THEN {getString(d, data)}
                            ELSE IF cpp \in CalendarTypes THEN GetterOfCalendar(d, data, cpp) ELSE GetterOfNumber(d, data, cpp)

(* x is bound to a column of descriptor d, which then holds data. *)
Bound(d, x, data) == ~IsNull(x) /\ Ok(Field(data)) \in Written(d, x)

LEMMA BoundMeans ==
  ASSUME NEW d, NEW x, NEW data, Bound(d, x, data)
  PROVE  \E a \in SetAnswers(d, x) : a.ok /\ a.value = data
<1>1. Written(d, x) = {IF a.ok THEN Ok(Field(a.value)) ELSE a : a \in SetAnswers(d, x)}
  BY DEF Bound, Written, SetAnswers
<1>2. PICK a \in SetAnswers(d, x) : Ok(Field(data)) = IF a.ok THEN Ok(Field(a.value)) ELSE a
  BY <1>1 DEF Bound
<1>3. a.ok
  BY <1>2, Answers
<1>4. Ok(Field(data)).value.data = data /\ Ok(Field(a.value)).value.data = a.value
  BY Answers, FieldMeans
<1>5. a.value = data
  BY <1>2, <1>3, <1>4
<1> QED BY <1>3, <1>5

LEMMA ReadFrom ==
  ASSUME NEW d, NEW data, NEW cpp, NEW o \in Read(d, Field(data), cpp)
  PROVE  \E b \in GetAnswers(d, data, cpp) :
            o = IF b.ok THEN Ok(Value(cpp, b.value, IF HasScale(cpp) THEN d.scale ELSE 0)) ELSE b
BY FieldMeans DEF Read, GetAnswers

(* A setter and a getter that take one type of column only. *)
LEMMA SwitchOfOne ==
  ASSUME NEW d, NEW x, NEW data, Bound(d, x, data), NEW o \in Read(d, Field(data), x.cpp),
         NEW type, NEW s, NEW g,
         SetAnswers(d, x) = {Require(d, type, s)}, GetAnswers(d, data, x.cpp) = {Require(d, type, g)}
  PROVE  s.ok /\ s.value = data /\ (g.ok => o.ok /\ o.value.held = g.value)
<1>1. d.type = type /\ s.ok /\ s.value = data
  BY BoundMeans, Answers DEF Require
<1>2. GetAnswers(d, data, x.cpp) = {g}
  BY <1>1 DEF Require
<1>3. ASSUME g.ok PROVE o.ok /\ o.value.held = g.value
  <2>1. o = Ok(Value(x.cpp, g.value, IF HasScale(x.cpp) THEN d.scale ELSE 0))
    BY <1>2, <1>3, ReadFrom
  <2> QED BY <2>1, Answers, ValueMeans
<1> QED BY <1>1, <1>3

Opaques == DOMAIN OpaqueTypeOf \union {"bool", "BlobId"}

LEMMA OpaqueReadsBack ==
  ASSUME NEW d, NEW x, NEW data, Bound(d, x, data), NEW o \in Read(d, Field(data), x.cpp), x.cpp \in Opaques
  PROVE  o.ok /\ o.value.held = x.held
<1>1. /\ DOMAIN OpaqueTypeOf = {"ScaledOpaqueInt128", "OpaqueDecFloat16", "OpaqueDecFloat34", "OpaqueDate", "OpaqueTime",
                               "OpaqueTimestamp", "OpaqueTimeTz", "OpaqueTimestampTz"}
      /\ DOMAIN IntTypeOf = {"int16", "int32", "int64", "BoostInt128", "ScaledInt16", "ScaledInt32", "ScaledInt64", "ScaledBoostInt128"}
      /\ DOMAIN FloatTypeOf = {"float", "double"}
      /\ PlainIntegers = {"int16", "int32", "int64", "BoostInt128"}
      /\ ScaledIntegers = {"ScaledInt16", "ScaledInt32", "ScaledInt64", "ScaledBoostInt128"}
  BY DEF OpaqueTypeOf, IntTypeOf, FloatTypeOf, PlainIntegers, ScaledIntegers
<1>2. \E type : /\ SetAnswers(d, x) = {Require(d, type, Ok(x.held))}
                /\ GetAnswers(d, data, x.cpp) = {Require(d, type, Ok(data))}
  <2>1. CASE x.cpp \in {"OpaqueDate", "OpaqueTime", "OpaqueTimestamp", "OpaqueTimeTz", "OpaqueTimestampTz"}
    <3>1. SetAnswers(d, x) = SetterOfCalendar(d, x) /\ GetAnswers(d, data, x.cpp) = GetterOfCalendar(d, data, x.cpp)
      BY <2>1 DEF SetAnswers, GetAnswers, CalendarTypes
    <3> QED BY <2>1, <3>1 DEF SetterOfCalendar, GetterOfCalendar, setOpaqueDate, setOpaqueTime, setOpaqueTimestamp,
               setOpaqueTimeTz, setOpaqueTimestampTz, getOpaqueDate, getOpaqueTime, getOpaqueTimestamp,
               getOpaqueTimeTz, getOpaqueTimestampTz
  <2>2. CASE x.cpp \in {"ScaledOpaqueInt128", "OpaqueDecFloat16", "OpaqueDecFloat34", "bool", "BlobId"}
    <3>1. SetAnswers(d, x) = SetterOfNumber(d, x) /\ GetAnswers(d, data, x.cpp) = GetterOfNumber(d, data, x.cpp)
      BY <2>2 DEF SetAnswers, GetAnswers, CalendarTypes
    <3> QED BY <1>1, <2>2, <3>1 DEF SetterOfNumber, GetterOfNumber, setOpaqueInt128, setOpaqueDecFloat16,
               setOpaqueDecFloat34, setBool, setBlobId, getScaledOpaqueInt128, getOpaqueDecFloat16,
               getOpaqueDecFloat34, getBool, getBlobId
  <2> QED BY <1>1, <2>1, <2>2 DEF Opaques
<1> QED BY <1>2, SwitchOfOne, Answers

(* What the setters let through and the getters need not give back, and    *)
(* what the getters refuse of an integer.                                  *)
BeforeYear0(x) ==
    \/ x.cpp = "Date" /\ x.held.y < 0
    \/ x.cpp = "Timestamp" /\ x.held.date.y < 0
    \/ x.cpp = "TimestampTz" /\ x.held.utc.date.y < 0
OutOfPowers(d, x) ==
    /\ x.cpp \in DOMAIN FloatTypeOf /\ d.type \in IntTypes
    /\ Abs(d.scale) > MaxExponent10[FloatTypeOf[x.cpp]]

(* The calendar types, by the name their converters have in Calendar. *)
LEMMA CalendarReadsBack ==
  ASSUME NEW d, NEW x, Typed(x), NEW data, Bound(d, x, data), NEW o \in Read(d, Field(data), x.cpp),
         x.cpp \in {"Date", "Time", "Timestamp", "TimeTz", "TimestampTz"}, ~BeforeYear0(x)
  PROVE  o.ok /\ (x.cpp # "Time" \/ (x.held >= 0 /\ x.held % MicrosPerTick = 0) => o.value.held = x.held)
<1> DEFINE v == x.held
<1>1. ASSUME NEW kind, NEW type, SetAnswers(d, x) = {Require(d, type, There(kind, v))},
             GetAnswers(d, data, x.cpp) = {Require(d, type, Back(kind, data))}
      PROVE  /\ There(kind, v).ok /\ Through(kind, v) = Back(kind, data)
             /\ \A w : Through(kind, v) = Fine(w) => o.ok /\ o.value.held = w
  <2>1. There(kind, v).ok /\ There(kind, v).value = data /\ (Back(kind, data).ok => o.ok /\ o.value.held = Back(kind, data).value)
    BY <1>1, SwitchOfOne
  <2>2. Through(kind, v) = Back(kind, data)
    BY <2>1 DEF Through
  <2> QED BY <2>1, <2>2, Outcomes
<1>2. SetAnswers(d, x) = SetterOfCalendar(d, x) /\ GetAnswers(d, data, x.cpp) = GetterOfCalendar(d, data, x.cpp)
  BY DEF SetAnswers, GetAnswers, CalendarTypes
<1>3. CASE x.cpp = "Date"
  <2>1. v \in Dates
    BY <1>3 DEF Typed
  <2>2. SetAnswers(d, x) = {Require(d, "DATE", There("date", v))} /\ GetAnswers(d, data, x.cpp) = {Require(d, "DATE", Back("date", data))}
    BY <1>2, <1>3 DEF SetterOfCalendar, GetterOfCalendar, setDate, getDate, There, Back
  <2>3. Through("date", v) = Back("date", data)
    BY <1>1, <2>2
  <2>4. Back("date", data) = Fine(decodeDate(data))
    BY DEF Back, opaqueDateToDate
  <2>5. ~Refused(Through("date", v))
    BY <2>3, <2>4, Outcomes DEF Refused
  <2>6. Through("date", v) = Fine(v)
    BY <1>3, <2>1, <2>5, DateKept DEF BeforeYear0, Backward
  <2> HIDE DEF v
  <2>7. o.ok /\ o.value.held = v
    BY <1>1, <2>2, <2>6
  <2> QED BY <2>7 DEF v
<1>4. CASE x.cpp = "Time"
  <2>1. v \in Int
    BY <1>4 DEF Typed
  <2>2. SetAnswers(d, x) = {Require(d, "TIME", There("time", v))} /\ GetAnswers(d, data, x.cpp) = {Require(d, "TIME", Back("time", data))}
    BY <1>2, <1>4 DEF SetterOfCalendar, GetterOfCalendar, setTime, getTime, There, Back
  <2>3. PICK w \in Int : Through("time", v) = Fine(w) /\ (v >= 0 /\ v % MicrosPerTick = 0 => w = v)
    BY <2>1, TimeKept
  <2>4. o.ok /\ o.value.held = w
    BY <1>1, <2>2, <2>3
  <2> HIDE DEF v
  <2>5. o.ok /\ (v >= 0 /\ v % MicrosPerTick = 0 => o.value.held = v)
    BY <2>3, <2>4
  <2> QED BY <1>4, <2>5 DEF v
<1>5. CASE x.cpp = "Timestamp"
  <2>1. v \in [date : Dates, time : Int]
    BY <1>5 DEF Typed
  <2>2. v.date \in Dates /\ v.time \in Int /\ v = [date |-> v.date, time |-> v.time]
    BY <2>1
  <2>3. /\ SetAnswers(d, x) = {Require(d, "TIMESTAMP", There("timestamp", v))}
        /\ GetAnswers(d, data, x.cpp) = {Require(d, "TIMESTAMP", Back("timestamp", data))}
    BY <1>2, <1>5 DEF SetterOfCalendar, GetterOfCalendar, setTimestamp, getTimestamp, There, Back
  <2>4. There("timestamp", v).ok /\ There("timestamp", v) = timestampToOpaqueTimestamp(v)
    BY <1>1, <2>3 DEF There
  <2>5. ~(BadDate(v.date) \/ BadTime(v.time))
    <3> HIDE DEF v
    <3>1. ASSUME BadDate(v.date) \/ BadTime(v.time) PROVE Refused(timestampToOpaqueTimestamp(v))
      BY <2>2, <3>1, TimestampStored
    <3>2. Refused(timestampToOpaqueTimestamp(v)) => timestampToOpaqueTimestamp(v).ok = FALSE
      BY Outcomes DEF Refused
    <3> QED BY <2>4, <3>1, <3>2
  <2>6. Through("timestamp", v) = Fine(v)
    BY <1>5, <2>2, <2>5, TimestampKept DEF BeforeYear0, Backward
  <2> HIDE DEF v
  <2>7. o.ok /\ o.value.held = v
    BY <1>1, <2>3, <2>6
  <2> QED BY <2>7 DEF v
<1>6. CASE x.cpp = "TimeTz"
  <2>1. v \in [utc : Int, zone : STRING]
    BY <1>6 DEF Typed
  <2>2. v.utc \in Int /\ v = [utc |-> v.utc, zone |-> v.zone]
    BY <2>1
  <2>3. /\ SetAnswers(d, x) = {Require(d, "TIME_TZ", There("timeTz", v))}
        /\ GetAnswers(d, data, x.cpp) = {Require(d, "TIME_TZ", Back("timeTz", data))}
    BY <1>2, <1>6 DEF SetterOfCalendar, GetterOfCalendar, setTimeTz, getTimeTz, There, Back
  <2>4. Through("timeTz", v) = Back("timeTz", data)
    BY <1>1, <2>3
  <2>5. \E w : Back("timeTz", data) = Fine(w)
    BY DEF Back, opaqueTimeTzToTimeTz
  <2>6. ~Refused(Through("timeTz", v))
    BY <2>4, <2>5, Outcomes DEF Refused
  <2>7. Through("timeTz", v) = Fine(v)
    BY <2>2, <2>6, TimeTzKept
  <2> HIDE DEF v
  <2>8. o.ok /\ o.value.held = v
    BY <1>1, <2>3, <2>7
  <2> QED BY <2>8 DEF v
<1>7. CASE x.cpp = "TimestampTz"
  <2>1. v \in [utc : [date : Dates, time : Int], zone : STRING]
    BY <1>7 DEF Typed
  <2>2. /\ v = [utc |-> [date |-> v.utc.date, time |-> v.utc.time], zone |-> v.zone]
        /\ v.utc.date \in Dates /\ v.utc.time \in Int /\ v.utc = [date |-> v.utc.date, time |-> v.utc.time]
    BY <2>1
  <2>3. /\ SetAnswers(d, x) = {Require(d, "TIMESTAMP_TZ", There("timestampTz", v))}
        /\ GetAnswers(d, data, x.cpp) = {Require(d, "TIMESTAMP_TZ", Back("timestampTz", data))}
    BY <1>2, <1>7 DEF SetterOfCalendar, GetterOfCalendar, setTimestampTz, getTimestampTz, There, Back
  <2>4. There("timestampTz", v).ok /\ Through("timestampTz", v) = Back("timestampTz", data)
    BY <1>1, <2>3
  <2>5. \E w : Back("timestampTz", data) = Fine(w)
    BY DEF Back, opaqueTimestampTzToTimestampTz
  <2>6. ~Refused(Through("timestampTz", v))
    BY <2>4, <2>5, Outcomes DEF Refused
  <2>7. Through("timestampTz", v) = Fine(v)
    <3> DEFINE u == v.utc.date
               t == v.utc.time
               z == v.zone
               w == [utc |-> [date |-> u, time |-> t], zone |-> z]
    <3>1. u \in Dates /\ ~Backward(u) /\ t \in Int /\ w = v
      BY <1>7, <2>2 DEF BeforeYear0, Backward
    <3> HIDE DEF u, t, z
    <3>2. Through("timestampTz", w) = Fine(w) \/ Refused(Through("timestampTz", w))
      BY <3>1, TimestampTzKept
    <3> HIDE DEF w, v
    <3> QED BY <2>6, <3>1, <3>2
  <2> HIDE DEF v
  <2>8. o.ok /\ o.value.held = v
    BY <1>1, <2>3, <2>7
  <2> QED BY <2>8 DEF v
<1> QED BY <1>3, <1>4, <1>5, <1>6, <1>7

(* A floating-point column of any width gives a floating-point number, and *)
(* the number bound if it has the type it was bound with.                  *)
LEMMA FloatReadsBack ==
  ASSUME NEW d \in Descriptors(ColumnTypes), NEW x, Typed(x), NEW data, Bound(d, x, data),
         NEW o \in Read(d, Field(data), x.cpp), x.cpp \in DOMAIN FloatTypeOf
  PROVE  /\ d.type \in IntTypes \union FloatTypes
         /\ ~OutOfPowers(d, x) => o.ok
         /\ d.type = FloatTypeOf[x.cpp] => o.value.held = x.held
<1> DEFINE t == FloatTypeOf[x.cpp]
<1>1. /\ DOMAIN IntTypeOf = {"int16", "int32", "int64", "BoostInt128", "ScaledInt16", "ScaledInt32", "ScaledInt64", "ScaledBoostInt128"}
      /\ DOMAIN FloatTypeOf = {"float", "double"}
      /\ PlainIntegers = {"int16", "int32", "int64", "BoostInt128"}
      /\ ScaledIntegers = {"ScaledInt16", "ScaledInt32", "ScaledInt64", "ScaledBoostInt128"}
  BY DEF IntTypeOf, FloatTypeOf, PlainIntegers, ScaledIntegers
<1>2. t \in FloatTypes /\ FloatTypes \intersect IntTypes = {}
  BY DEF FloatTypeOf, FloatTypes, IntTypes
<1>3. SetAnswers(d, x) = setNumber(d, t, x.held, 0) /\ GetAnswers(d, data, x.cpp) = getNumber(d, data, t, 0)
  <2>1. SetAnswers(d, x) = SetterOfNumber(d, x) /\ GetAnswers(d, data, x.cpp) = GetterOfNumber(d, data, x.cpp)
    BY <1>1 DEF SetAnswers, GetAnswers, CalendarTypes
  <2> QED BY <1>1, <2>1 DEF SetterOfNumber, GetterOfNumber, setFloating, getFloating
<1> HIDE DEF t
<1>4. d.type \in IntTypes \union FloatTypes
  <2>1. SUFFICES ASSUME d.type \notin IntTypes \union FloatTypes PROVE FALSE
    OBVIOUS
  <2>2. SetAnswers(d, x) = {throwInvalidType}
    BY <1>3, <2>1 DEF setNumber
  <2> QED BY <2>2, BoundMeans, Answers
<1>10. SUFFICES ASSUME ~OutOfPowers(d, x) PROVE o.ok /\ (d.type = t => o.value.held = x.held)
  BY <1>2, <1>4 DEF OutOfPowers, t
<1>11. d.type \in IntTypes => ~(Abs(d.scale) > MaxExponent10[t])
  BY <1>10 DEF OutOfPowers, t
<1>5. GetAnswers(d, data, x.cpp) = {IF d.type \in IntTypes THEN IntToFloat(data, d.scale, t) ELSE FloatToFloat(data, t)}
  BY <1>2, <1>3, <1>4 DEF getNumber, convertNumber
<1>6. PICK w : GetAnswers(d, data, x.cpp) = {Ok(w)} /\ (d.type \in FloatTypes => w = FloatToFloat(data, t).value)
  <2>1. CASE d.type \in IntTypes
    BY <1>2, <1>5, <1>11, <2>1 DEF IntToFloat
  <2>2. CASE d.type \in FloatTypes
    <3>1. FloatToFloat(data, t) = Ok(FloatToFloat(data, t).value)
      BY Answers DEF FloatToFloat
    <3> QED BY <1>2, <1>5, <2>2, <3>1
  <2> QED BY <1>4, <2>1, <2>2
<1>7. o = Ok(Value(x.cpp, w, IF HasScale(x.cpp) THEN d.scale ELSE 0))
  BY <1>6, ReadFrom, Answers
<1>8. o.ok /\ o.value.held = w
  BY <1>7, Answers, ValueMeans
<1>9. ASSUME d.type = t PROVE w = x.held
  <2>1. x.held = NotFinite \/ Nearest(x.held, t) = x.held
    BY DEF Typed, t
  <2>2. FloatToFloat(x.held, t) = Ok(x.held)
    BY <2>1 DEF FloatToFloat
  <2>3. SetAnswers(d, x) = {FloatToFloat(x.held, t)}
    BY <1>2, <1>3, <1>9 DEF setNumber, convertNumber
  <2>4. data = x.held
    BY <2>2, <2>3, BoundMeans, Answers
  <2> QED BY <1>2, <1>6, <1>9, <2>2, <2>4, Answers
<1> QED BY <1>8, <1>9

(* A number of any scale, brought up and down again by the same power. *)
LEMMA RoundedExact ==
  ASSUME NEW v \in Int, NEW P \in Nat \ {0}
  PROVE  Rounded(v * P, P) = v
<1> DEFINE a == Abs(v)
<1>1. a \in Nat /\ v = SignOf(v) * a
  BY DEF Abs, SignOf
<1>2. v * P \in Int /\ Abs(v * P) = a * P /\ SignOf(v * P) = SignOf(v)
  <2>1. CASE v >= 0
    <3>1. v * P \in Nat
      BY <2>1
    <3> QED BY <2>1, <3>1 DEF Abs, SignOf
  <2>2. CASE v < 0
    <3>1. -v \in Nat \ {0} /\ (-v) * P = -(v * P)
      BY <2>2
    <3>2. (-v) * P \in Nat \ {0}
      BY <3>1
    <3> QED BY <2>2, <3>1, <3>2 DEF Abs, SignOf
  <2> QED BY <2>1, <2>2
<1> HIDE DEF a
<1>3. (2 * (a * P) + P) \div (2 * P) = a
  <2> DEFINE b == 2 * P
             n == 2 * (a * P) + P
  <2>1. b \in Nat \ {0} /\ n \in Int /\ b * a <= n /\ n < b * a + b
    <3>1. b * a = 2 * (a * P) /\ a * P \in Nat
      BY <1>1
    <3> QED BY <3>1
  <2> HIDE DEF b, n
  <2>2. n \div b = a
    BY <1>1, <2>1, QuotientIs
  <2> QED BY <2>2 DEF n, b
<1> QED BY <1>1, <1>2, <1>3 DEF Rounded

(* An integer read with the type it was bound with is the same number, if  *)
(* the column keeps the digits it was bound with.                          *)
LEMMA IntegerReadsBack ==
  ASSUME NEW d \in Descriptors(ColumnTypes), NEW x, Typed(x), NEW data, Bound(d, x, data),
         NEW o \in Read(d, Field(data), x.cpp), o.ok, x.cpp \in DOMAIN IntTypeOf,
         d.type \in IntTypes, d.scale <= x.scale
  PROVE  SameNumber(x, o.value)
<1> DEFINE t == IntTypeOf[x.cpp]
           v == x.held
           from == x.scale
           k == from - d.scale
           P == PowerOfTen(k)
<1>1. /\ DOMAIN IntTypeOf = {"int16", "int32", "int64", "BoostInt128", "ScaledInt16", "ScaledInt32", "ScaledInt64", "ScaledBoostInt128"}
      /\ DOMAIN FloatTypeOf = {"float", "double"}
      /\ PlainIntegers = {"int16", "int32", "int64", "BoostInt128"}
      /\ ScaledIntegers = {"ScaledInt16", "ScaledInt32", "ScaledInt64", "ScaledBoostInt128"}
  BY DEF IntTypeOf, FloatTypeOf, PlainIntegers, ScaledIntegers
<1>2. t \in IntTypes /\ FloatTypes \intersect IntTypes = {}
  BY DEF IntTypeOf, FloatTypes, IntTypes
<1>3. v \in Int /\ from \in Int /\ d.scale \in Int
  <2>1. Fits(v, t) /\ from \in Int
    BY DEF Typed
  <2> QED BY <1>2, <2>1, FitsIsInt DEF Descriptors
<1>4. k \in Nat /\ P \in Nat \ {0} /\ d.scale - from = -k /\ from = d.scale + k
  <2>1. k \in Nat /\ d.scale - from = -k /\ from = d.scale + k
    BY <1>3
  <2> QED BY <2>1, PowerType
<1>5. SetAnswers(d, x) = SetterOfNumber(d, x) /\ GetAnswers(d, data, x.cpp) = GetterOfNumber(d, data, x.cpp)
  BY <1>1 DEF SetAnswers, GetAnswers, CalendarTypes
<1>6. SetAnswers(d, x) = setNumber(d, t, v, from)
  BY <1>1, <1>5 DEF SetterOfNumber, setInteger, setBoostInteger, IntTypeOf
<1>7. SetAnswers(d, x) = {IntToInt(v, t, from, d.type, d.scale)}
  <2> HIDE DEF t
  <2> QED BY <1>2, <1>6 DEF setNumber, convertNumber
<1>8. data = v * P /\ data \in Int
  <2> DEFINE exact == Scaled(v, d.scale - from)
  <2>1. exact \in Int /\ IntToInt(v, t, from, d.type, d.scale) = IF Fits(exact, d.type) THEN Ok(exact) ELSE Throw("numeric_out_of_range")
    BY <1>2, <1>3, IntToIntMeans
  <2>2. exact = v * P
    <3>1. d.scale - from = -k /\ ~(-k > 0) /\ -(-k) = k
      BY <1>4
    <3> HIDE DEF k
    <3> QED BY <3>1 DEF Scaled
  <2> HIDE DEF exact
  <2>3. data = exact
    BY <1>7, <2>1, BoundMeans, Answers
  <2> QED BY <2>1, <2>2, <2>3
<1> HIDE DEF P
<1>9. CASE x.cpp \in PlainIntegers
  <2>1. from = 0
    BY <1>9 DEF Typed
  <2>2. GetAnswers(d, data, x.cpp) = {IntToInt(data, d.type, d.scale, t, 0)}
    BY <1>1, <1>2, <1>5, <1>9 DEF GetterOfNumber, getInteger, getNumber, convertNumber
  <2> DEFINE z == 0
             exact == Scaled(data, z - d.scale)
  <2>3. exact \in Int /\ IntToInt(data, d.type, d.scale, t, z) = IF Fits(exact, t) THEN Ok(exact) ELSE Throw("numeric_out_of_range")
    <3>1. ASSUME NEW to \in Int
          PROVE  /\ Scaled(data, to - d.scale) \in Int
                 /\ IntToInt(data, d.type, d.scale, t, to) =
                      IF Fits(Scaled(data, to - d.scale), t) THEN Ok(Scaled(data, to - d.scale)) ELSE Throw("numeric_out_of_range")
      <4>1. data \in Int /\ t \in IntTypes /\ d.scale \in Int /\ d.type \in IntTypes
        BY <1>2, <1>3, <1>8
      <4> HIDE DEF t, v, from, k
      <4> QED BY <3>1, <4>1, IntToIntMeans
    <3> QED BY <3>1
  <2>4. exact = v
    <3>1. z - d.scale = k
      BY <1>3, <1>4, <2>1
    <3>2. CASE k > 0
      <4>1. exact = Rounded(v * P, P)
        BY <1>8, <3>1, <3>2 DEF Scaled, P
      <4> QED BY <1>3, <1>4, <4>1, RoundedExact
    <3>3. CASE k = 0
      <4>1. P = 1 /\ PowerOfTen(-k) = 1
        <5>1. -k = 0 /\ k = 0
          BY <3>3
        <5> HIDE DEF k
        <5> QED BY <5>1, PowerStep DEF P
      <4>2. exact = data * PowerOfTen(-k)
        <5> HIDE DEF k
        <5> QED BY <3>1, <3>3 DEF Scaled
      <4> QED BY <1>3, <1>8, <4>1, <4>2
    <3> HIDE DEF exact
    <3> QED BY <1>4, <3>2, <3>3
  <2> HIDE DEF exact
  <2>5. o = Ok(Value(x.cpp, v, 0))
    <3>1. ~HasScale(x.cpp)
      BY <1>1, <1>9 DEF HasScale
    <3>2. PICK b \in GetAnswers(d, data, x.cpp) : o = IF b.ok THEN Ok(Value(x.cpp, b.value, IF HasScale(x.cpp) THEN d.scale ELSE 0)) ELSE b
      BY ReadFrom
    <3>3. b = Ok(v) \/ b = Throw("numeric_out_of_range")
      BY <2>2, <2>3, <2>4, <3>2
    <3> HIDE DEF v
    <3> QED BY <3>1, <3>2, <3>3, Answers
  <2>6. o.value.held = x.held /\ o.value.scale = x.scale
    BY <2>1, <2>5, Answers, ValueMeans
  <2> QED BY <2>6 DEF SameNumber
<1>10. CASE x.cpp \in ScaledIntegers
  <2>1. GetAnswers(d, data, x.cpp) = {IntToInt(data, d.type, d.scale, t, d.scale)}
    BY <1>1, <1>2, <1>5, <1>10 DEF GetterOfNumber, getScaled, getNumber, convertNumber
  <2> DEFINE exact == Scaled(data, d.scale - d.scale)
  <2>2. exact \in Int /\ IntToInt(data, d.type, d.scale, t, d.scale) = IF Fits(exact, t) THEN Ok(exact) ELSE Throw("numeric_out_of_range")
    <3>1. data \in Int /\ d.scale \in Int /\ d.type \in IntTypes /\ t \in IntTypes
      BY <1>2, <1>3, <1>8
    <3> HIDE DEF t
    <3> QED BY ONLY <3>1, IntToIntMeans
  <2>3. exact = data
    <3> DEFINE same == d.scale - d.scale
    <3>1. ~(same > 0) /\ -same = 0
      BY <1>3
    <3> HIDE DEF same
    <3>2. Scaled(data, same) = data * 1
      BY <3>1, PowerStep DEF Scaled
    <3> QED BY <1>8, <3>2 DEF same
  <2> HIDE DEF exact
  <2>4. o = Ok(Value(x.cpp, data, d.scale))
    <3>1. HasScale(x.cpp)
      BY <1>10 DEF HasScale
    <3>2. PICK b \in GetAnswers(d, data, x.cpp) : o = IF b.ok THEN Ok(Value(x.cpp, b.value, IF HasScale(x.cpp) THEN d.scale ELSE 0)) ELSE b
      BY ReadFrom
    <3>3. b = Ok(data) \/ b = Throw("numeric_out_of_range")
      BY <2>1, <2>2, <2>3, <3>2
    <3> QED BY <3>1, <3>2, <3>3, Answers
  <2>5. o.value.held = v * P /\ o.value.scale = d.scale
    BY <1>8, <2>4, Answers, ValueMeans
  <2>6. (IF from < d.scale THEN from ELSE d.scale) = d.scale /\ d.scale - d.scale = 0
    BY <1>3
  <2>7. PowerOfTen(d.scale - d.scale) = 1
    BY <2>6, PowerStep
  <2>8. v * PowerOfTen(from - d.scale) = (v * P) * PowerOfTen(d.scale - d.scale)
    BY <1>3, <1>4, <2>7 DEF P
  <2> QED BY <2>5, <2>6, <2>8 DEF SameNumber
<1> QED BY <1>1, <1>9, <1>10

(* What is bound to a column is what the getter of its type reads.         *)
KeepsAll(d, x) ==
    \/ d.type = "STRING"
    \/ x.cpp \in DOMAIN FloatTypeOf /\ d.type = FloatTypeOf[x.cpp]
    \/ x.cpp \notin DOMAIN FloatTypeOf \union {"string", "Time"}
    \/ x.cpp = "Time" /\ x.held >= 0 /\ x.held % MicrosPerTick = 0

LEMMA BoundReadsBack ==
  ASSUME NEW d \in Descriptors(ColumnTypes), NEW x, Typed(x), NEW data, Bound(d, x, data),
         NEW o \in Read(d, Field(data), x.cpp)
  PROVE  IF x.cpp \in DOMAIN IntTypeOf
         THEN (o.ok /\ d.type \in IntTypes /\ d.scale <= x.scale) => SameNumber(x, o.value)
         ELSE /\ x.cpp # "string" /\ ~BeforeYear0(x) /\ ~OutOfPowers(d, x) => o.ok
              /\ KeepsAll(d, x) /\ ~BeforeYear0(x) => o.value.held = x.held
<1>1. CASE x.cpp \in DOMAIN IntTypeOf
  BY <1>1, IntegerReadsBack
<1>2. CASE x.cpp \in DOMAIN FloatTypeOf
  <2>1. /\ d.type \in IntTypes \union FloatTypes /\ (~OutOfPowers(d, x) => o.ok)
        /\ d.type = FloatTypeOf[x.cpp] => o.value.held = x.held
    BY <1>2, FloatReadsBack
  <2>2. d.type # "STRING" /\ x.cpp # "Time" /\ x.cpp \notin DOMAIN IntTypeOf
    BY <1>2, <2>1 DEF IntTypes, FloatTypes, FloatTypeOf, IntTypeOf
  <2> QED BY <1>2, <2>1, <2>2 DEF KeepsAll
<1>3. CASE x.cpp \in {"Date", "Time", "Timestamp", "TimeTz", "TimestampTz"}
  <2>1. ~BeforeYear0(x) =>
          o.ok /\ (x.cpp # "Time" \/ (x.held >= 0 /\ x.held % MicrosPerTick = 0) => o.value.held = x.held)
    BY <1>3, CalendarReadsBack
  <2>2. x.cpp \notin DOMAIN FloatTypeOf \union DOMAIN IntTypeOf
    BY <1>3 DEF FloatTypeOf, IntTypeOf
  <2>3. d.type # "STRING"
    <3>1. SUFFICES ASSUME d.type = "STRING" PROVE FALSE
      OBVIOUS
    <3>2. SetAnswers(d, x) = SetterOfCalendar(d, x)
      BY <1>3 DEF SetAnswers, CalendarTypes
    <3>3. SetAnswers(d, x) = {throwInvalidType}
      BY <1>3, <3>1, <3>2 DEF SetterOfCalendar, setDate, setTime, setTimestamp, setTimeTz, setTimestampTz, Require
    <3> QED BY <3>3, BoundMeans, Answers
  <2> QED BY <2>1, <2>2, <2>3 DEF KeepsAll
<1>4. CASE x.cpp \in Opaques
  <2>1. x.cpp \notin DOMAIN IntTypeOf
    BY <1>4 DEF Opaques, OpaqueTypeOf, IntTypeOf
  <2> QED BY <1>4, <2>1, OpaqueReadsBack
<1>5. CASE x.cpp = "string"
  <2>1. x.cpp \notin DOMAIN FloatTypeOf \union DOMAIN IntTypeOf
    BY <1>5 DEF FloatTypeOf, IntTypeOf
  <2>2. KeepsAll(d, x) => d.type = "STRING"
    BY <1>5, <2>1 DEF KeepsAll
  <2>3. ASSUME d.type = "STRING" PROVE o.value.held = x.held
    <3>1. d.type \notin IntTypes \union FloatTypes
      BY <2>3 DEF IntTypes, FloatTypes
    <3>2. SetAnswers(d, x) = {IF Len(x.held.chars) > d.length THEN Throw("string_truncation") ELSE Ok(x.held)}
      BY <1>5, <2>3, <3>1 DEF SetAnswers, setString
    <3>3. data = x.held
      BY <3>2, BoundMeans, Answers
    <3>4. GetAnswers(d, data, x.cpp) = {Ok(data)}
      BY <1>5, <2>3, <3>1 DEF GetAnswers, getString
    <3>5. \E scale : o = Ok(Value(x.cpp, data, scale))
      BY <3>4, ReadFrom, Answers
    <3> QED BY <3>3, <3>5, Answers, ValueMeans
  <2> QED BY <1>5, <2>1, <2>2, <2>3
<1>6. x.cpp \in DOMAIN IntTypeOf \union DOMAIN FloatTypeOf \union {"Date", "Time", "Timestamp", "TimeTz", "TimestampTz"}
                \union Opaques \union {"string"}
  <2>1. x.cpp \in CppTypes
    BY DEF Typed, Bound, IsNull
  <2> QED BY <2>1 DEF CppTypes, NumberTypes, CalendarTypes, Opaques, OpaqueTypeOf
<1> QED BY <1>1, <1>2, <1>3, <1>4, <1>5, <1>6

-----------------------------------------------------------------------------
(* What is read as text and bound again. *)

(* The fields of a time of day are valid, and are that time of day again.  *)
LEMMA FieldsAreTime ==
  ASSUME NEW n \in TimesOfDay
  PROVE  ValidTimeFields(TimeFields(n)) /\ TicksOfFields(TimeFields(n)) = n
<1> DEFINE t == TimeFields(n)
           S == SecondsPerMinute
           M == MinutesPerHour
           H == HoursPerDay
           T == TicksPerSecond
           TM == TicksPerMinute
           TH == TicksPerHour
           F == FractionDigits
           d == [i \in 1 .. F |-> (n \div PowerOfTen(F - i)) % 10]
           X == n \div T
           Y == X \div S
           h == Y \div M
           s == X % S
           m == Y % M
           f == n % T
           low == s * T + f
           mid == m * TM + low
<1>1. /\ S \in Nat \ {0} /\ M \in Nat \ {0} /\ H \in Nat \ {0} /\ F \in Nat \ {0}
      /\ T \in Nat \ {0} /\ TM \in Nat \ {0} /\ TH \in Nat \ {0} /\ TM = S * T /\ TH = M * TM /\ TICKS_PER_DAY = H * TH
  <2>1. ASSUME NEW a \in Nat, NEW b \in Nat PROVE a * b = b * a
    OBVIOUS
  <2> QED BY <2>1, CalendarSizes DEF TicksPerMinute, TicksPerHour, TICKS_PER_DAY
<1>2. n \in 0 .. H * TH - 1 /\ n \in Nat
  <2>1. TICKS_PER_DAY \in Nat
    BY CalendarSizes
  <2> QED BY <1>1, <2>1 DEF TimesOfDay
<1>3. T = PowerOfTen(F)
  BY DEF TicksPerSecond
<1>4. t = [h |-> n \div TH, m |-> (n \div TM) % M, s |-> X % S, fraction |-> d]
  BY DEF TimeFields
<1> HIDE DEF t, S, M, H, T, TM, TH, F
<1>5. X \in Int /\ f \in 0 .. T - 1 /\ n = X * T + f
  BY <1>1, <1>2, DivModParts
<1>6. X \in Nat
  BY <1>1, <1>2, QuotientMeans
<1> HIDE DEF X, f
<1>7. Y \in Int /\ s \in 0 .. S - 1 /\ X = Y * S + s
  BY <1>1, <1>6, DivModParts
<1>8. Y \in Nat
  BY <1>1, <1>6, QuotientMeans
<1> HIDE DEF Y, s
<1>9. h \in Nat /\ m \in 0 .. M - 1 /\ Y = h * M + m
  <2>1. h \in Nat
    BY <1>1, <1>8, QuotientMeans
  <2>2. m \in 0 .. M - 1 /\ Y = h * M + m
    BY <1>1, <1>8, DivModParts
  <2> QED BY <2>1, <2>2
<1> HIDE DEF h, m
<1>10. low \in 0 .. TM - 1 /\ s * T \in Nat
  BY <1>1, <1>5, <1>7, BelowNext
<1>11. mid \in 0 .. TH - 1 /\ m * TM \in Nat
  <2> HIDE DEF low
  <2> QED BY <1>1, <1>9, <1>10, BelowNext
<1>12. n = Y * TM + low
  <2>1. (Y * S + s) * T = Y * (S * T) + s * T /\ Y * TM \in Nat
    BY <1>1, <1>7, <1>8
  <2> DEFINE a == X * T
             b == Y * TM
             c == s * T
  <2>2. a = b + c /\ b \in Nat /\ c \in Nat /\ f \in Nat /\ n = a + f
    BY <1>1, <1>5, <1>7, <1>10, <2>1
  <2> HIDE DEF a, b, c
  <2>3. n = b + (c + f)
    BY <2>2
  <2> QED BY <2>3 DEF b, c
<1>13. n = h * TH + mid /\ h * TH \in Nat
  <2>1. (h * M + m) * TM = h * (M * TM) + m * TM /\ h * TH \in Nat
    BY <1>1, <1>9
  <2> DEFINE a == Y * TM
             b == h * TH
             c == m * TM
  <2>2. a = b + c /\ b \in Nat /\ c \in Nat /\ low \in Nat /\ n = a + low
    BY <1>1, <1>9, <1>10, <1>11, <1>12, <2>1
  <2> HIDE DEF a, b, c, low
  <2>3. n = b + (c + low)
    BY <2>2
  <2> QED BY <2>1, <2>3 DEF b, c
<1>14. n \div TM = Y /\ n \div TH = h
  <2> HIDE DEF low, mid
  <2>1. Y \in Int /\ h \in Int
    BY <1>8, <1>9
  <2>2. (Y * TM + low) \div TM = Y
    BY <1>1, <1>10, <2>1, DivMod
  <2>3. (h * TH + mid) \div TH = h
    BY <1>1, <1>11, <2>1, DivMod
  <2> QED BY <1>12, <1>13, <2>2, <2>3
<1>15. h < H
  <2> DEFINE lo == 0
             hi == H - 1
  <2>1. lo \in Int /\ hi \in Int /\ lo * TH <= n /\ n < (hi + 1) * TH
    <3>1. 0 * TH = 0 /\ hi + 1 = H
      BY <1>1
    <3> DEFINE k == H * TH
    <3>2. k \in Nat
      BY <1>1
    <3> HIDE DEF k
    <3>3. 0 <= n /\ n < k
      BY <1>2, <3>2 DEF k
    <3> QED BY <1>1, <3>1, <3>3 DEF k
  <2> HIDE DEF lo, hi
  <2>2. n \in Int
    BY <1>2
  <2>3. n \div TH \in lo .. hi
    BY <1>1, <2>1, <2>2, QuotientBetween
  <2> QED BY <1>1, <1>9, <1>14, <2>3 DEF lo, hi
<1>16. Fraction(d) = f
  <2> DEFINE up == [i \in 0 .. F |-> n \div PowerOfTen(F - i)]
             z == 0
  <2>1. \A i \in 0 .. F : up[i] \in Nat
    <3> SUFFICES ASSUME NEW i \in 0 .. F PROVE n \div PowerOfTen(F - i) \in Nat
      OBVIOUS
    <3>1. F - i \in Nat
      BY <1>1
    <3> QED BY <1>2, <3>1, PlacesLeft
  <2>2. \A i \in 1 .. F : d[i] \in 0 .. 9 /\ up[i] = up[i - 1] * 10 + d[i]
    <3> SUFFICES ASSUME NEW i \in 1 .. F PROVE d[i] \in 0 .. 9 /\ up[i] = up[i - 1] * 10 + d[i]
      OBVIOUS
    <3>1. F - i \in Nat /\ (F - i) + 1 = F - (i - 1) /\ i \in 0 .. F /\ i - 1 \in 0 .. F
      BY <1>1
    <3> DEFINE k == F - i
               q == n \div PowerOfTen(k)
    <3>2. q % 10 \in 0 .. 9 /\ q = (n \div PowerOfTen(k + 1)) * 10 + (q % 10)
      BY <1>2, <3>1, PlacesLeft
    <3>3. d[i] = q % 10 /\ up[i] = q /\ up[i - 1] = n \div PowerOfTen(k + 1)
      BY <3>1
    <3> HIDE DEF q, d, up, k
    <3> QED BY <3>2, <3>3
  <2>3. up[0] = X /\ up[F] = n
    <3>1. F - 0 = F /\ F - F = 0 /\ 0 \in 0 .. F /\ F \in 0 .. F
      BY <1>1
    <3>2. PowerOfTen(0) = 1 /\ n \div 1 = n
      BY <1>2, PowerStep
    <3> QED BY <1>3, <3>1, <3>2 DEF X
  <2>4. d \in [1 .. F -> 0 .. 9] /\ up \in [0 .. F -> Nat] /\ z \in Nat /\ F \in Nat
    BY <1>1, <2>1, <2>2
  <2>5. d \in Seq(0 .. 9) /\ Len(d) = F
    BY <2>4, LengthOfFunction
  <2> HIDE DEF d, up, z
  <2>6. Reads(up, X, d, F)
    BY <2>2, <2>3 DEF Reads
  <2>7. PICK g \in [0 .. F -> Nat] : Reads(g, z, d, F)
    BY <2>4, ReadingExists
  <2>8. n = X * PowerOfTen(F) + g[F] /\ g[F] < PowerOfTen(F)
    BY <1>6, <2>3, <2>4, <2>6, <2>7, StartWeighs DEF z
  <2>9. g[F] = f
    <3> DEFINE k == X * T
    <3>1. g[F] \in Nat
      BY <2>4, <2>7
    <3>2. n = k + g[F]
      BY ONLY <1>3, <2>8
    <3>3. k \in Nat /\ f \in Nat
      BY <1>1, <1>5, <1>6
    <3>4. n = k + f
      BY <1>5
    <3> HIDE DEF k
    <3> QED BY <3>1, <3>2, <3>3, <3>4
  <2>10. Fraction(d) = g[F] * PowerOfTen(F - F)
    BY <2>5, <2>7, FractionReads DEF z, F
  <2>11. F - F = 0 /\ PowerOfTen(0) = 1
    BY <1>1, PowerStep
  <2> QED BY <1>5, <2>9, <2>10, <2>11
<1>17. t.h = h /\ t.m = m /\ t.s = s /\ t.fraction = d
  <2> HIDE DEF d
  <2> QED BY <1>4, <1>14 DEF m, s
<1>18. ValidTimeFields(t)
  BY <1>1, <1>7, <1>9, <1>15, <1>17 DEF ValidTimeFields, H, M, S
<1>19. TicksOfFields(t) = n
  <2> DEFINE a == h * TH
             b == m * TM
             c == s * T
  <2>1. TicksOfFields(t) = a + b + c + f
    <3> HIDE DEF d
    <3> QED BY <1>16, <1>17 DEF TicksOfFields, encodeTime, T, TM, TH
  <2>2. a \in Nat /\ b \in Nat /\ c \in Nat /\ f \in Nat /\ n = a + (b + (c + f))
    BY <1>1, <1>5, <1>10, <1>11, <1>13
  <2> HIDE DEF a, b, c
  <2> QED BY <2>1, <2>2
<1> QED BY <1>18, <1>19 DEF t

(* The days of the calendar are those of its years. *)
LEMMA DaysAreOfYears ==
  ASSUME NEW n \in CalendarDays
  PROVE  n \in Nat /\ decodeDate(n).y \in 1 .. LastYear
<1> DEFINE M == MonthsPerYear
           D == DaysPerMonth
           W == LastYear + 1
           first == encodeDate(1, 1, 1)
           last == encodeDate(LastYear, M, D)
           L == M * D
           q == n \div D
<1>1. M \in Nat \ {0} /\ D \in Nat \ {0} /\ W \in Nat \ {0}
  BY CalendarSizes
<1>2. L \in Nat \ {0} /\ first = L /\ last \in Int /\ last < W * L
  <2>1. L \in Nat \ {0}
    BY <1>1
  <2>2. first = (1 * M + 1 - 1) * D + 1 - 1 /\ last = ((W - 1) * M + M - 1) * D + D - 1
    <3>1. W - 1 = LastYear /\ 1 \in 0 .. MaxYear /\ LastYear \in 0 .. MaxYear
      BY CalendarSizes, YearsAssumption DEF W
    <3>2. 1 \in 1 .. M /\ M \in 1 .. M /\ 1 \in 1 .. D /\ D \in 1 .. D
      BY <1>1
    <3>3. first = daysOf(1, 1, 1) /\ last = daysOf(LastYear, M, D)
      BY <3>1, <3>2, LibraryDates
    <3> HIDE DEF first, last, W
    <3> QED BY <3>1, <3>3 DEF daysOf
  <2> HIDE DEF first, last, M, D, W
  <2>3. 1 * M + 1 - 1 = M /\ (W - 1) * M + M - 1 = W * M - 1
    BY <1>1
  <2>4. first = M * D + 1 - 1 /\ last = (W * M - 1) * D + D - 1
    BY <2>2, <2>3
  <2>5. (W * M - 1) * D + D = (W * M) * D /\ (W * M) * D = W * (M * D) /\ (W * M) * D \in Int
    <3> DEFINE k == W * M
    <3>1. k \in Int
      BY <1>1
    <3>2. (W * M) * D = W * (M * D)
      BY <1>1
    <3> HIDE DEF k
    <3>3. (k - 1) * D + D = k * D /\ k * D \in Int
      BY <1>1, <3>1
    <3> QED BY <3>2, <3>3 DEF k
  <2>6. (W * M - 1) * D \in Int
    <3> DEFINE k == W * M - 1
    <3>1. k \in Int
      BY <1>1
    <3> HIDE DEF k
    <3>2. k * D \in Int
      BY <1>1, <3>1
    <3> QED BY <3>2 DEF k
  <2> DEFINE a == (W * M - 1) * D
             b == W * L
  <2>7. a + D = b /\ a \in Int /\ b \in Int /\ last = a + D - 1
    BY <2>4, <2>5, <2>6
  <2>8. first = L + 1 - 1
    BY <2>4
  <2> HIDE DEF a, b, L
  <2>9. last \in Int /\ last < b /\ first = L
    BY <1>1, <2>1, <2>7, <2>8
  <2> QED BY <2>1, <2>9 DEF b
<1>3. n \in first .. last
  BY DEF CalendarDays
<1> HIDE DEF first, last
<1>4. n \in Int /\ L <= n /\ n < W * L
  <2> DEFINE b == W * L
  <2>1. b \in Int
    BY <1>1, <1>2
  <2> HIDE DEF b, L
  <2>2. n \in Int /\ L <= n /\ n < b
    BY <1>2, <1>3, <2>1 DEF b
  <2> QED BY <2>2 DEF b
<1>5. q \in M .. W * M - 1
  <2> DEFINE hi == W * M - 1
  <2>1. hi \in Int /\ (hi + 1) * D = W * L
    <3> DEFINE k == W * M
    <3>1. k \in Int /\ k * D = W * L
      BY <1>1
    <3> HIDE DEF k
    <3>2. (k - 1) + 1 = k /\ k - 1 \in Int
      BY <3>1
    <3> QED BY <3>1, <3>2 DEF k
  <2>2. n < (hi + 1) * D /\ M * D <= n /\ M \in Int
    BY <1>1, <1>4, <2>1
  <2> HIDE DEF hi, M, D
  <2>3. n \div D \in M .. hi
    BY <1>1, <1>4, <2>1, <2>2, QuotientBetween
  <2> QED BY <2>3 DEF hi
<1> HIDE DEF q
<1>6. q \div M \in 1 .. W - 1
  <2> DEFINE lo == 1
             hi == W - 1
  <2>1. lo * M = M /\ hi + 1 = W /\ lo \in Int /\ hi \in Int
    BY <1>1
  <2>2. q \in Int /\ M <= q /\ q < W * M
    <3> DEFINE k == W * M
    <3>1. k \in Int
      BY <1>1
    <3> HIDE DEF k
    <3> QED BY <1>1, <1>5, <3>1 DEF k
  <2>3. lo * M <= q /\ q < (hi + 1) * M
    BY <2>1, <2>2
  <2> HIDE DEF lo, hi, M
  <2>4. q \div M \in lo .. hi
    BY <1>1, <2>1, <2>2, <2>3, QuotientBetween
  <2> QED BY <2>4 DEF lo, hi
<1>7. n \in Nat
  <2> HIDE DEF L
  <2> QED BY <1>2, <1>4
<1>8. decodeDate(n).y = q \div M
  BY <1>7, LibraryDays DEF dateOf, q, M, D
<1>9. W - 1 = LastYear
  BY CalendarSizes, YearsAssumption DEF W
<1> QED BY <1>6, <1>7, <1>8, <1>9

(* A day of the calendar is the day of its date, which a text can write.   *)
LEMMA DaysHaveDates ==
  ASSUME NEW n \in CalendarDays
  PROVE  LET date == decodeDate(n)
         IN  /\ n \in Nat /\ DateOk(date) /\ FourDigits(date.y) = TRUE
             /\ encodeDate(date.y, date.m, date.d) = n /\ daysOf(date.y, date.m, date.d) = n
             /\ dateToOpaqueDate(date) = Fine(n)
<1> DEFINE date == decodeDate(n)
<1>1. n \in Nat /\ n \in Int /\ date.y \in 1 .. LastYear
  BY DaysAreOfYears
<1>2. date.y \in 0 .. MaxYear /\ date.y \in -MaxYear .. MaxYear /\ ~(date.y < 0) /\ date.y # 0 /\ FourDigits(date.y) = TRUE
  <2> HIDE DEF date
  <2> QED BY <1>1, CalendarSizes, YearsAssumption DEF FourDigits
<1>3. DateOk(date) /\ encodeDate(date.y, date.m, date.d) = n
  BY <1>1, <1>2, DayThroughLibrary
<1>4. daysOf(date.y, date.m, date.d) = n
  BY <1>1, DayReadBack, LibraryDays
<1> HIDE DEF date
<1>5. dateToOpaqueDate(date) = Fine(n)
  BY <1>2, <1>3, DateStored DEF DayStored
<1> QED BY <1>1, <1>2, <1>3, <1>4, <1>5 DEF date

(* setString of what getString prints, for each calendar type. *)
LEMMA DateRebinds ==
  ASSUME NEW n \in CalendarDays
  PROVE  stringToOpaqueDate(opaqueDateToString(n)) = Fine(n)
<1> DEFINE date == decodeDate(n)
           s == opaqueDateToString(n)
<1>1. DateOk(date) /\ FourDigits(date.y) = TRUE /\ dateToOpaqueDate(date) = Fine(n)
  BY DaysHaveDates
<1>2. s.matches = TRUE /\ s.date = date
  BY <1>1 DEF opaqueDateToString
<1> HIDE DEF date, s
<1>3. stringToDate(s) = Fine(date)
  BY <1>1, <1>2 DEF stringToDate
<1>4. stringToOpaqueDate(s) = Fine(n)
  BY <1>1, <1>3, Outcomes DEF stringToOpaqueDate
<1> QED BY <1>4 DEF s

LEMMA TicksStored ==
  ASSUME NEW n \in TimesOfDay
  PROVE  /\ n * MicrosPerTick \in Nat /\ ~BadTime(n * MicrosPerTick)
         /\ (n * MicrosPerTick) \div MicrosPerTick = n
<1>1. n \in 0 .. TICKS_PER_DAY - 1 /\ n \in Nat
  BY CalendarSizes DEF TimesOfDay
<1> DEFINE k == n * MicrosPerTick
<1>2. k \in Nat /\ k \div MicrosPerTick = n /\ k % MicrosPerTick = 0 /\ k < MicrosPerDay
  BY <1>1, TicksAndMicros
<1>3. MicrosPerDay \in Nat
  BY CalendarSizes
<1> HIDE DEF k
<1>4. ~(k < 0) /\ ~(k >= MicrosPerDay)
  BY <1>2, <1>3
<1>5. ~BadTime(k)
  BY <1>2, <1>4 DEF BadTime
<1> QED BY <1>2, <1>5 DEF k

LEMMA TimeRebinds ==
  ASSUME NEW n \in TimesOfDay
  PROVE  stringToOpaqueTime(opaqueTimeToString(n)) = Fine(n)
<1> DEFINE s == opaqueTimeToString(n)
           k == n * MicrosPerTick
<1>1. s.matches = TRUE /\ s.time = TimeFields(n)
  BY DEF opaqueTimeToString
<1>2. ValidTimeFields(s.time) /\ TicksOfFields(s.time) = n
  BY <1>1, FieldsAreTime
<1>3. k \in Nat /\ k \div MicrosPerTick = n
  BY TicksStored
<1> HIDE DEF s
<1>4. stringToTime(s) = Fine(k)
  BY <1>1, <1>2 DEF stringToTime
<1> HIDE DEF k
<1>5. timeToOpaqueTime(k) = Fine(n)
  BY <1>3 DEF timeToOpaqueTime
<1>6. stringToOpaqueTime(s) = Fine(n)
  BY <1>4, <1>5, Outcomes DEF stringToOpaqueTime
<1> QED BY <1>6 DEF s

LEMMA TimeTzRebinds ==
  ASSUME NEW n \in TimesOfDay, NEW z \in DOMAIN Zones
  PROVE  LET data == [utc |-> n, zone |-> z] IN stringToOpaqueTimeTz(opaqueTimeTzToString(data)) = Fine(data)
<1> DEFINE T == TICKS_PER_DAY
           data == [utc |-> n, zone |-> z]
           s == opaqueTimeTzToString(data)
           local == toLocal(n, z) % T
           k == n * MicrosPerTick
           read == [utc |-> k, zone |-> z]
<1>1. T \in Nat \ {0} /\ n \in 0 .. T - 1 /\ Zones[z] \in Int
  BY ZonesAssumption, CalendarSizes DEF TimesOfDay
<1>2. local \in TimesOfDay /\ toUtc(local, z) % T = n
  <2> DEFINE o == -Zones[z]
  <2>1. o \in Int /\ n - o = n + Zones[z] /\ \A x \in Int : x + o = x - Zones[z]
    BY <1>1
  <2> HIDE DEF o, T
  <2>2. (n - o) % T \in 0 .. T - 1 /\ (((n - o) % T) + o) % T = n
    BY <1>1, <2>1, ThereAndBack
  <2>3. local = (n - o) % T /\ local \in Int
    <3>1. local = (n - o) % T
      BY <2>1 DEF toLocal
    <3> HIDE DEF local
    <3> QED BY <1>1, <2>2, <3>1
  <2> HIDE DEF local
  <2>4. toUtc(local, z) = local + o
    BY <2>1, <2>3 DEF toUtc
  <2> QED BY <2>2, <2>3, <2>4 DEF TimesOfDay, T
<1>3. s.matches = TRUE /\ s.zone = z /\ s.time = TimeFields(local)
  <2>1. data.utc = n /\ data.zone = z
    OBVIOUS
  <2> HIDE DEF data
  <2> QED BY <2>1 DEF opaqueTimeTzToString
<1> HIDE DEF s, local
<1>4. ValidTimeFields(s.time) /\ TicksOfFields(s.time) = local /\ knownZone(z)
  BY <1>2, <1>3, FieldsAreTime DEF knownZone
<1>5. stringToTimeTz(s) = Fine(read)
  <2>1. stringToTimeTz(s) = opaqueTimeTzToTimeTz([utc |-> toUtc(local, z) % T, zone |-> z])
    BY <1>3, <1>4 DEF stringToTimeTz
  <2> QED BY <1>2, <2>1 DEF opaqueTimeTzToTimeTz
<1>6. ~BadTime(k) /\ k \div MicrosPerTick = n
  BY TicksStored
<1>7. read.utc = k /\ read.zone = z
  OBVIOUS
<1> HIDE DEF read, k
<1>8. timeTzToOpaqueTimeTz(read) = Fine(data)
  BY <1>4, <1>6, <1>7 DEF timeTzToOpaqueTimeTz, BadTime
<1>9. stringToOpaqueTimeTz(s) = Fine(data)
  BY <1>5, <1>8, Outcomes DEF stringToOpaqueTimeTz
<1> QED BY <1>9 DEF s

(* A timestamp of a day and a time of the calendar is read and stored. *)
LEMMA OpaqueStored ==
  ASSUME NEW day \in CalendarDays, NEW ticks \in TimesOfDay
  PROVE  LET read == [date |-> decodeDate(day), time |-> ticks * MicrosPerTick]
         IN  /\ opaqueTimestampToTimestamp([date |-> day, time |-> ticks]) = Fine(read)
             /\ timestampToOpaqueTimestamp(read) = Fine([date |-> day, time |-> ticks])
<1> DEFINE date == decodeDate(day)
           k == ticks * MicrosPerTick
           read == [date |-> date, time |-> k]
           opaque == [date |-> day, time |-> ticks]
<1>3. DateOk(date) /\ dateToOpaqueDate(date) = Fine(day)
  BY DaysHaveDates
<1>4. opaque.date = day /\ opaque.time = ticks
  OBVIOUS
<1>5. opaqueTimestampToTimestamp(opaque) = Fine(read)
  <2> HIDE DEF opaque
  <2> QED BY <1>3, <1>4 DEF opaqueTimestampToTimestamp
<1> HIDE DEF date
<1>7. ~BadTime(k) /\ k \div MicrosPerTick = ticks
  BY TicksStored
<1>8. read.date = date /\ read.time = k
  OBVIOUS
<1>9. timestampToOpaqueTimestamp(read) = Fine(opaque)
  <2> HIDE DEF read, k
  <2> QED BY <1>3, <1>7, <1>8, Outcomes DEF timestampToOpaqueTimestamp, BadTime
<1> QED BY <1>5, <1>9 DEF date

LEMMA TimestampRebinds ==
  ASSUME NEW day \in CalendarDays, NEW ticks \in TimesOfDay
  PROVE  LET data == [date |-> day, time |-> ticks]
         IN  stringToOpaqueTimestamp(opaqueTimestampToString(data)) = Fine(data)
<1> DEFINE data == [date |-> day, time |-> ticks]
           s == opaqueTimestampToString(data)
           read == [date |-> decodeDate(day), time |-> ticks * MicrosPerTick]
<1>2. DateOk(decodeDate(day)) /\ FourDigits(decodeDate(day).y) = TRUE
  BY DaysHaveDates
<1>1. s.matches = TRUE /\ s.date = decodeDate(day) /\ s.time = TimeFields(ticks)
  <2>1. data.date = day /\ data.time = ticks
    OBVIOUS
  <2> HIDE DEF data
  <2> QED BY <1>2, <2>1 DEF opaqueTimestampToString
<1>3. ValidTimeFields(s.time) /\ TicksOfFields(s.time) = ticks
  BY <1>1, FieldsAreTime
<1> HIDE DEF s
<1>4. stringToTimestamp(s) = Fine(read)
  BY <1>1, <1>2, <1>3 DEF stringToTimestamp
<1>5. timestampToOpaqueTimestamp(read) = Fine(data)
  BY OpaqueStored
<1> HIDE DEF read, data
<1>6. stringToOpaqueTimestamp(s) = Fine(data)
  BY <1>4, <1>5, Outcomes DEF stringToOpaqueTimestamp
<1> QED BY <1>6 DEF s, data

(* A zone of whole minutes is this far from UTC, in microseconds. *)
LEMMA WholeMinutes ==
  ASSUME NEW a \in Int, NEW b \in Int, NEW o \in Int, a = b + o, o % TicksPerMinute = 0
  PROVE  (a * MicrosPerTick - b * MicrosPerTick) % (TicksPerMinute * MicrosPerTick) = 0
<1> DEFINE P == MicrosPerTick
           m == TicksPerMinute
           q == o \div m
           c == m * P
           z == 0
<1>1. P \in Nat \ {0} /\ m \in Nat \ {0} /\ c \in Nat \ {0}
  <2>1. P \in Nat \ {0} /\ m \in Nat \ {0}
    BY CalendarSizes
  <2> HIDE DEF P, m
  <2> QED BY <2>1
<1> HIDE DEF P, m
<1>2. q \in Int /\ o = q * m + (o % m)
  BY <1>1, DivModParts
<1>3. o = q * m
  <2> DEFINE k == q * m
  <2>1. k \in Int /\ o = k + (o % m) /\ o % m = 0
    BY <1>1, <1>2 DEF m
  <2> HIDE DEF k
  <2>2. o = k
    BY <2>1
  <2> QED BY <2>2 DEF k
<1> HIDE DEF q
<1>4. a * P - b * P = q * c
  <2>1. (b + o) * P = b * P + o * P /\ (q * m) * P = q * (m * P) /\ b * P \in Int /\ o * P \in Int
    BY <1>1, <1>2
  <2> DEFINE x == a * P
             y == b * P
             w == o * P
  <2>2. x = y + w /\ y \in Int /\ w \in Int /\ w = q * c
    BY <1>3, <2>1
  <2> HIDE DEF x, y, w
  <2>3. x - y = w
    BY <2>2
  <2> QED BY <2>2, <2>3 DEF x, y
<1>5. z \in 0 .. c - 1
  BY <1>1
<1> HIDE DEF c, z
<1>6. (q * c + z) % c = z
  BY <1>1, <1>2, <1>5, DivMod
<1>7. q * c + z = q * c
  BY <1>1, <1>2 DEF z
<1> QED BY <1>4, <1>6, <1>7 DEF c, P, m, z

LEMMA TimestampTzRebinds ==
  ASSUME NEW day \in CalendarDays, NEW ticks \in TimesOfDay, NEW z \in DOMAIN Zones, Zones[z] % TicksPerMinute = 0,
         ((day * TICKS_PER_DAY + ticks) + Zones[z]) \div TICKS_PER_DAY \in CalendarDays
  PROVE  LET data == [utc |-> [date |-> day, time |-> ticks], zone |-> z]
         IN  stringToOpaqueTimestampTz(opaqueTimestampTzToString(data)) = Fine(data)
<1> DEFINE T == TICKS_PER_DAY
           P == MicrosPerTick
           opaque == [date |-> day, time |-> ticks]
           data == [utc |-> opaque, zone |-> z]
           s == opaqueTimestampTzToString(data)
           utc == day * T + ticks
           all == utc + Zones[z]
           localDay == all \div T
           localTicks == all % T
           date == decodeDate(localDay)
           read == [date |-> decodeDate(day), time |-> ticks * P]
<1>1. T \in Nat \ {0} /\ P \in Nat \ {0} /\ ticks \in 0 .. T - 1 /\ Zones[z] \in Int /\ day \in Int /\ MicrosPerDay = T * P
  <2>1. day \in Int
    BY DaysAreOfYears
  <2>2. T \in Nat \ {0} /\ P \in Nat \ {0} /\ MicrosPerDay = T * P /\ ticks \in 0 .. T - 1
    BY CalendarSizes DEF TimesOfDay, MicrosPerDay
  <2>3. Zones[z] \in Int
    BY ZonesAssumption, CalendarSizes
  <2> QED BY <2>1, <2>2, <2>3
<1>0. /\ DateOk(date) /\ FourDigits(date.y) = TRUE
      /\ encodeDate(date.y, date.m, date.d) = localDay /\ daysOf(date.y, date.m, date.d) = localDay
  <2>1. localDay \in CalendarDays
    OBVIOUS
  <2> HIDE DEF localDay
  <2> QED BY <2>1, DaysHaveDates
<1>2. utc \in Int /\ all \in Int /\ all - Zones[z] = utc
  <2> DEFINE k == day * T
  <2>1. k \in Int
    BY <1>1
  <2> HIDE DEF k, T
  <2>2. k + ticks \in Int
    BY <1>1, <2>1
  <2> QED BY <1>1, <2>2 DEF k, T
<1>3. utc \div T = day /\ utc % T = ticks
  <2> HIDE DEF T
  <2> QED BY <1>1, DivMod
<1>4. s.matches = TRUE /\ s.zone = z /\ s.date = date /\ s.time = TimeFields(localTicks)
  <2>1. data.utc = opaque /\ data.zone = z /\ opaque.date = day /\ opaque.time = ticks
    OBVIOUS
  <2> DEFINE local == splitTicks(toLocal(joinTicks(data.utc), data.zone))
  <2>2. local = [date |-> localDay, time |-> localTicks]
    <3> HIDE DEF data, opaque
    <3> QED BY <2>1 DEF splitTicks, toLocal, joinTicks
  <2>3. local.date = localDay /\ local.time = localTicks
    <3> HIDE DEF local, localDay, localTicks
    <3> QED BY <2>2
  <2>4. s = [matches |-> FourDigits(decodeDate(local.date).y), zone |-> data.zone,
             date |-> decodeDate(local.date), time |-> TimeFields(local.time)]
    BY DEF opaqueTimestampTzToString
  <2> HIDE DEF s, local, data
  <2> QED BY <1>0, <2>1, <2>3, <2>4
<1> HIDE DEF s, utc, all
<1>5. localDay \in Int /\ localTicks \in 0 .. T - 1 /\ all = localDay * T + localTicks
  <2> HIDE DEF T
  <2> QED BY <1>1, <1>2, DivModParts
<1>6. localTicks \in TimesOfDay
  BY <1>5 DEF TimesOfDay
<1> HIDE DEF localDay, localTicks
<1>7. ValidTimeFields(s.time) /\ TicksOfFields(s.time) = localTicks /\ knownZone(z)
  BY <1>4, <1>6, FieldsAreTime DEF knownZone
<1>8. DateOk(date) /\ encodeDate(date.y, date.m, date.d) = localDay /\ daysOf(date.y, date.m, date.d) = localDay
  BY <1>0 DEF localDay, utc, all
<1>9. /\ opaqueTimestampToTimestamp(opaque) = Fine(read)
      /\ timestampToOpaqueTimestamp(read) = Fine(opaque)
  BY OpaqueStored
<1>10. daysOf(read.date.y, read.date.m, read.date.d) = day /\ read.time = ticks * P
  BY DaysHaveDates
<1> HIDE DEF date, read
<1> DEFINE local == [date |-> date, time |-> localTicks * P]
           offset == toLocalTime(local) - toLocalTime(read)
<1>11. offset % (TicksPerMinute * P) = 0
  <2>1. local.date = date /\ local.time = localTicks * P
    OBVIOUS
  <2> HIDE DEF local
  <2>2. toLocalTime(local) = localDay * MicrosPerDay + localTicks * P
    BY <1>8, <2>1 DEF toLocalTime
  <2>3. toLocalTime(read) = day * MicrosPerDay + ticks * P
    BY <1>10 DEF toLocalTime
  <2> HIDE DEF T, P
  <2>4. ASSUME NEW x \in Int, NEW y \in Int PROVE x * (T * P) + y * P = (x * T + y) * P
    BY <1>1
  <2>5. localDay * MicrosPerDay + localTicks * P = all * P
    <3>1. localTicks \in Int
      BY <1>1, <1>5
    <3> QED BY <1>1, <1>5, <2>4, <3>1
  <2>6. day * MicrosPerDay + ticks * P = utc * P
    <3>1. ticks \in Int
      BY <1>1
    <3> QED BY <1>1, <2>4, <3>1 DEF utc
  <2>7. all = utc + Zones[z]
    BY DEF all
  <2>8. offset = all * P - utc * P
    BY <2>2, <2>3, <2>5, <2>6
  <2>9. (all * P - utc * P) % (TicksPerMinute * P) = 0
    BY <1>1, <1>2, <2>7, WholeMinutes DEF P
  <2> QED BY <2>8, <2>9
<1> HIDE DEF offset
<1>12. splitTicks(toUtc(encodeDate(date.y, date.m, date.d) * TICKS_PER_DAY + localTicks, z)) = opaque
  <2>1. encodeDate(date.y, date.m, date.d) * TICKS_PER_DAY + localTicks = all
    BY <1>5, <1>8
  <2>2. toUtc(all, z) = utc
    BY <1>2 DEF toUtc
  <2> QED BY <1>3, <2>1, <2>2 DEF splitTicks
<1> HIDE DEF opaque
<1>13. stringToTimestampTz(s) = Fine([utc |-> read, zone |-> z])
  <2> DEFINE answer == opaqueTimestampToTimestamp(opaque)
  <2>1. answer.ok = TRUE /\ answer.value = read
    BY <1>9, Outcomes
  <2> HIDE DEF answer
  <2>2. stringToTimestampTz(s) =
          IF ~s.matches THEN Invalid("convert_error")
          ELSE IF ~DateOk(s.date) \/ ~ValidTimeFields(s.time) THEN Invalid("invalid_timestamp_val")
          ELSE IF ~knownZone(s.zone) THEN Invalid("invalid_zone")
          ELSE IF ~answer.ok THEN answer
          ELSE IF (toLocalTime([date |-> s.date, time |-> TicksOfFields(s.time) * MicrosPerTick]) - toLocalTime(answer.value))
                    % (TicksPerMinute * MicrosPerTick) # 0 THEN Invalid("invalid_timestamp_val")
          ELSE Fine([utc |-> answer.value, zone |-> s.zone])
    BY <1>4, <1>7, <1>12 DEF stringToTimestampTz, answer
  <2> QED BY <1>4, <1>7, <1>8, <1>11, <2>1, <2>2 DEF offset
<1>14. timestampTzToOpaqueTimestampTz([utc |-> read, zone |-> z]) = Fine([utc |-> opaque, zone |-> z])
  BY <1>7, <1>9, Outcomes DEF timestampTzToOpaqueTimestampTz
<1>15. stringToOpaqueTimestampTz(s) = Fine(data)
  BY <1>13, <1>14, Outcomes DEF stringToOpaqueTimestampTz
<1> QED BY <1>15 DEF s, opaque

(* What getString prints of a column, setString stores in it again.        *)
Rebinds(d, data) == getString(d, data).ok => setString(d, getString(d, data).value) = {Ok(data)}

LEMMA TextIs ==
  /\ \A kind, fields : LET s == Text(kind, fields) IN s.pattern = kind /\ s.fields = fields /\ TextOf(kind, s) = fields
  /\ \A chars : NumberText(chars).chars = chars
  /\ \A v : Fine(v) = Ok(v)
BY DEF Text, NumberText, TextOf, Fine, Ok

LEMMA IntegerRebinds ==
  ASSUME NEW d \in Descriptors(ColumnTypes), NEW data, d.type \in IntTypes, Fits(data, d.type), d.scale <= 0
  PROVE  Rebinds(d, data)
<1> DEFINE u == NumberToString(data, d.scale)
           s == NumberText(u)
<1>1. data \in Int /\ d.scale \in Int
  BY FitsIsInt DEF Descriptors
<1>2. getString(d, data) = Ok(s)
  BY DEF getString, FloatTypes, IntTypes
<1>3. s.chars = u
  BY TextIs
<1> HIDE DEF s
<1>4. CASE d.type \in {"INT16", "INT32", "INT64"}
  <2>1. StringToInt(u, d.type, d.scale) = Ok(data)
    BY <1>1, <1>4, PrintedStored
  <2> HIDE DEF u
  <2>2. setString(d, s) = {Ok(data)}
    BY <1>3, <1>4, <2>1 DEF setString, FloatTypes
  <2> QED BY <1>2, <2>2, Answers DEF Rebinds
<1>5. CASE d.type = "INT128"
  <2>1. "INT128" \in IntTypes /\ Fits(data, "INT128")
    BY <1>5 DEF IntTypes
  <2>2. FromChars(WithoutDot(u), "INT128") = Ok(data) /\ ScaleOfText(u) = d.scale
    BY <1>1, <2>1, PrintedIsItself
  <2>3. Scaled(data, d.scale - d.scale) = data
    BY <1>1, SameScale
  <2>4. IntToInt(data, "INT128", d.scale, "INT128", d.scale) =
          IF Fits(Scaled(data, d.scale - d.scale), "INT128") THEN Ok(Scaled(data, d.scale - d.scale))
          ELSE Throw("numeric_out_of_range")
    BY <1>1, <2>1, IntToIntMeans
  <2> HIDE DEF u
  <2>5. Int128FromString(s, d.scale) = Ok(data)
    BY <1>3, <2>1, <2>2, <2>3, <2>4, Answers DEF Int128FromString
  <2>6. setString(d, s) = {Ok(data)}
    BY <1>5, <2>5 DEF setString, FloatTypes
  <2> QED BY <1>2, <2>6, Answers DEF Rebinds
<1> QED BY <1>4, <1>5 DEF IntTypes

LEMMA NotFiniteRebinds ==
  ASSUME NEW d, d.type \in FloatTypes
  PROVE  Rebinds(d, NotFinite)
<1> DEFINE s == NumberText(NotFiniteText)
<1>1. FloatToString(NotFinite) = NotFiniteText /\ DoubleFromChars(NotFiniteText) = Ok(NotFinite)
  BY DEF FloatToString, DoubleFromChars
<1>2. getString(d, NotFinite) = Ok(s) /\ s.chars = NotFiniteText
  BY <1>1, TextIs DEF getString, FloatTypes, IntTypes
<1> HIDE DEF s
<1>3. setString(d, s) = setNumber(d, "DOUBLE", NotFinite, 0)
  BY <1>1, <1>2, Answers DEF setString, FloatTypes
<1>4. setNumber(d, "DOUBLE", NotFinite, 0) = {FloatToFloat(NotFinite, d.type)}
  BY DEF setNumber, convertNumber, FloatTypes, IntTypes
<1>5. FloatToFloat(NotFinite, d.type) = Ok(NotFinite)
  BY DEF FloatToFloat
<1> QED BY <1>2, <1>3, <1>4, <1>5, Answers DEF Rebinds

LEMMA CalendarRebinds ==
  ASSUME NEW d, NEW data, d.type \in {"DATE", "TIME", "TIMESTAMP", "TIME_TZ", "TIMESTAMP_TZ"}, OfColumn(d, data)
  PROVE  Rebinds(d, data)
<1>1. CASE d.type = "DATE"
  <2> DEFINE s == Text("DATE", opaqueDateToString(data))
  <2>1. data \in CalendarDays
    BY <1>1 DEF OfColumn, IntTypes, FloatTypes
  <2>2. getString(d, data) = Ok(s)
    BY <1>1 DEF getString, FloatTypes, IntTypes
  <2>3. TextOf("DATE", s) = opaqueDateToString(data)
    BY TextIs
  <2> HIDE DEF s
  <2>4. setString(d, s) = {Ok(data)}
    BY <1>1, <2>1, <2>3, DateRebinds, TextIs DEF setString, FloatTypes
  <2> QED BY <2>2, <2>4, Answers DEF Rebinds
<1>2. CASE d.type = "TIME"
  <2> DEFINE s == Text("TIME", opaqueTimeToString(data))
  <2>1. data \in TimesOfDay
    BY <1>2 DEF OfColumn, IntTypes, FloatTypes
  <2>2. getString(d, data) = Ok(s)
    BY <1>2 DEF getString, FloatTypes, IntTypes
  <2>3. TextOf("TIME", s) = opaqueTimeToString(data)
    BY TextIs
  <2> HIDE DEF s
  <2>4. setString(d, s) = {Ok(data)}
    BY <1>2, <2>1, <2>3, TimeRebinds, TextIs DEF setString, FloatTypes
  <2> QED BY <2>2, <2>4, Answers DEF Rebinds
<1>3. CASE d.type = "TIMESTAMP"
  <2> DEFINE s == Text("TIMESTAMP", opaqueTimestampToString(data))
  <2>1. data \in OpaqueTimestamps
    BY <1>3 DEF OfColumn, IntTypes, FloatTypes
  <2>2. getString(d, data) = Ok(s)
    BY <1>3 DEF getString, FloatTypes, IntTypes
  <2>3. TextOf("TIMESTAMP", s) = opaqueTimestampToString(data)
    BY TextIs
  <2> HIDE DEF s
  <2>4. stringToOpaqueTimestamp(opaqueTimestampToString(data)) = Fine(data)
    <3>1. data.date \in CalendarDays /\ data.time \in TimesOfDay /\ data = [date |-> data.date, time |-> data.time]
      BY <2>1 DEF OpaqueTimestamps
    <3> QED BY <3>1, TimestampRebinds
  <2>5. setString(d, s) = {Ok(data)}
    BY <1>3, <2>3, <2>4, TextIs DEF setString, FloatTypes
  <2> QED BY <2>2, <2>5, Answers DEF Rebinds
<1>4. CASE d.type = "TIME_TZ"
  <2> DEFINE s == Text("TIME_TZ", opaqueTimeTzToString(data))
  <2>1. data \in [utc : TimesOfDay, zone : DOMAIN Zones]
    BY <1>4 DEF OfColumn, IntTypes, FloatTypes
  <2>2. getString(d, data) = Ok(s)
    BY <1>4 DEF getString, FloatTypes, IntTypes
  <2>3. TextOf("TIME_TZ", s) = opaqueTimeTzToString(data)
    BY TextIs
  <2> HIDE DEF s
  <2>4. stringToOpaqueTimeTz(opaqueTimeTzToString(data)) = Fine(data)
    <3>1. data.utc \in TimesOfDay /\ data.zone \in DOMAIN Zones /\ data = [utc |-> data.utc, zone |-> data.zone]
      BY <2>1
    <3> QED BY <3>1, TimeTzRebinds
  <2>5. setString(d, s) = {Ok(data)}
    BY <1>4, <2>3, <2>4, TextIs DEF setString, FloatTypes
  <2> QED BY <2>2, <2>5, Answers DEF Rebinds
<1>5. CASE d.type = "TIMESTAMP_TZ"
  <2> DEFINE s == Text("TIMESTAMP_TZ", opaqueTimestampTzToString(data))
  <2>1. /\ data \in [utc : OpaqueTimestamps, zone : DOMAIN Zones] /\ Zones[data.zone] % TicksPerMinute = 0
        /\ splitTicks(toLocal(joinTicks(data.utc), data.zone)).date \in CalendarDays
    BY <1>5 DEF OfColumn, IntTypes, FloatTypes
  <2>2. getString(d, data) = Ok(s)
    BY <1>5 DEF getString, FloatTypes, IntTypes
  <2>3. TextOf("TIMESTAMP_TZ", s) = opaqueTimestampTzToString(data)
    BY TextIs
  <2> HIDE DEF s
  <2>4. stringToOpaqueTimestampTz(opaqueTimestampTzToString(data)) = Fine(data)
    <3>1. /\ data.utc \in OpaqueTimestamps /\ data.zone \in DOMAIN Zones
          /\ data = [utc |-> data.utc, zone |-> data.zone]
      BY <2>1
    <3>2. /\ data.utc.date \in CalendarDays /\ data.utc.time \in TimesOfDay
          /\ data.utc = [date |-> data.utc.date, time |-> data.utc.time]
      BY <3>1 DEF OpaqueTimestamps
    <3> DEFINE day == data.utc.date
               ticks == data.utc.time
               z == data.zone
    <3>3. data = [utc |-> [date |-> day, time |-> ticks], zone |-> z]
      BY <3>1, <3>2
    <3>4. /\ day \in CalendarDays /\ ticks \in TimesOfDay /\ z \in DOMAIN Zones /\ Zones[z] % TicksPerMinute = 0
          /\ ((day * TICKS_PER_DAY + ticks) + Zones[z]) \div TICKS_PER_DAY \in CalendarDays
      <4>1. splitTicks(toLocal(joinTicks(data.utc), data.zone)).date = ((day * TICKS_PER_DAY + ticks) + Zones[z]) \div TICKS_PER_DAY
        BY DEF splitTicks, toLocal, joinTicks
      <4> QED BY <2>1, <3>1, <3>2, <4>1
    <3> HIDE DEF day, ticks, z
    <3>5. stringToOpaqueTimestampTz(opaqueTimestampTzToString([utc |-> [date |-> day, time |-> ticks], zone |-> z]))
            = Fine([utc |-> [date |-> day, time |-> ticks], zone |-> z])
      BY ONLY <3>4, TimestampTzRebinds
    <3> QED BY <3>3, <3>5
  <2>5. setString(d, s) = {Ok(data)}
    BY <1>5, <2>3, <2>4, TextIs DEF setString, FloatTypes
  <2> QED BY <2>2, <2>5, Answers DEF Rebinds
<1> QED BY <1>1, <1>2, <1>3, <1>4, <1>5

LEMMA ColumnRebinds ==
  ASSUME NEW d \in Descriptors(ColumnTypes), NEW data, FieldFits(d, data), OfColumn(d, data)
  PROVE  Rebinds(d, data)
<1>1. CASE d.type \in IntTypes
  <2>1. d.scale <= 0
    BY <1>1 DEF OfColumn, IntTypes, FloatTypes
  <2>2. Fits(data, d.type)
    BY <1>1 DEF FieldFits
  <2> QED BY <1>1, <2>1, <2>2, IntegerRebinds
<1>2. CASE d.type \in FloatTypes
  <2>1. d.type \notin IntTypes
    BY <1>2 DEF FloatTypes, IntTypes
  <2>2. data = NotFinite
    BY <1>2, <2>1 DEF OfColumn, IntTypes, FloatTypes
  <2> QED BY <1>2, <2>2, NotFiniteRebinds
<1>3. CASE d.type \in {"DATE", "TIME", "TIMESTAMP", "TIME_TZ", "TIMESTAMP_TZ"}
  BY <1>3, CalendarRebinds
<1>4. CASE d.type = "BOOLEAN"
  <2> DEFINE s == Text("BOOLEAN", data)
  <2>1. getString(d, data) = Ok(s)
    BY <1>4 DEF getString, FloatTypes, IntTypes
  <2>2. stringToBoolean(s) = Ok(data)
    BY TextIs DEF stringToBoolean
  <2> HIDE DEF s
  <2>3. setString(d, s) = {Ok(data)}
    BY <1>4, <2>2 DEF setString, FloatTypes
  <2> QED BY <2>1, <2>3, Answers DEF Rebinds
<1>5. CASE d.type = "STRING"
  <2>1. getString(d, data) = Ok(data)
    BY <1>5 DEF getString, FloatTypes, IntTypes
  <2>2. Len(data.chars) \in Nat /\ d.length \in Nat /\ Len(data.chars) <= d.length
    BY <1>5, LenProperties DEF FieldFits, Descriptors
  <2>3. setString(d, data) = {Ok(data)}
    BY <1>5, <2>2 DEF setString, FloatTypes
  <2> QED BY <2>1, <2>3, Answers DEF Rebinds
<1>6. CASE d.type \in {"DECFLOAT16", "DECFLOAT34", "BLOB"}
  <2>1. getString(d, data) = throwInvalidType
    BY <1>6 DEF getString, FloatTypes, IntTypes
  <2> QED BY <2>1, Answers DEF Rebinds
<1>7. d.type \in ColumnTypes
  BY DEF Descriptors
<1> QED BY <1>1, <1>2, <1>3, <1>4, <1>5, <1>6, <1>7 DEF ColumnTypes

(* A text read from a field is bound to it as the very same field. *)
LEMMA TextBoundAgain ==
  ASSUME NEW d \in Descriptors(ColumnTypes), NEW data, FieldFits(d, data), OfColumn(d, data),
         NEW o \in Read(d, Field(data), "string"), o.ok
  PROVE  Written(d, o.value) = {Ok(Field(data))}
<1> DEFINE b == getString(d, data)
<1>1. GetAnswers(d, data, "string") = {b}
  BY DEF GetAnswers
<1>2. \E scale : o = IF b.ok THEN Ok(Value("string", b.value, scale)) ELSE b
  BY <1>1, ReadFrom
<1>3. b.ok /\ o.value.cpp = "string" /\ o.value.held = b.value
  BY <1>2, Answers, ValueMeans
<1>4. setString(d, b.value) = {Ok(data)}
  BY <1>3, ColumnRebinds DEF Rebinds
<1> HIDE DEF b
<1>5. Written(d, o.value) = {IF a.ok THEN Ok(Field(a.value)) ELSE a : a \in {Ok(data)}}
  BY <1>3, <1>4 DEF Written, IsNull
<1> QED BY <1>5, Answers

-----------------------------------------------------------------------------
(* The inductive invariant. *)

Shapes ==
    /\ inDescriptors \in Seq(Descriptors(ColumnTypes)) /\ Columns \subseteq DOMAIN Offered
    /\ inMessage = [i \in Columns |-> inMessage[i]]
    /\ bound = [i \in Columns |-> bound[i]]
    /\ NoRow \/ outRow = [i \in Columns |-> outRow[i]]
    /\ inDescriptors = <<>> => NoRow /\ call = NoCall

(* The message holds what the setters make of the values bound: null       *)
(* exactly where null is bound, and data that fit.                         *)
FieldOf(d, x, field) ==
    /\ Typed(x) /\ Ok(field) \in Written(d, x)
    /\ IF IsNull(x) THEN field = NullField ELSE field = Field(field.data) /\ FieldFits(d, field.data)
Stored == \A i \in Columns : FieldOf(inDescriptors[i], bound[i], inMessage[i])

(* The row is the message the server echoed, or null. *)
Succeeded == IF call.op = "execute" THEN call.ok ELSE call.row
RowSent ==
    IF NoRow THEN call.op \in {"none", "set", "setStruct"}
    ELSE /\ call.op \in {"execute", "get", "getVariant", "getStruct"}
         /\ outRow = IF Succeeded THEN inMessage ELSE [i \in Columns |-> NullField]

MessageInv == Shapes /\ Stored /\ RowSent /\ NullStaysNull /\ VariantKeepsValue

LEMMA NotReading ==
  call.op \notin {"get", "getVariant", "getStruct"} => NullStaysNull /\ VariantKeepsValue
BY DEF NullStaysNull, VariantKeepsValue

LEMMA ColumnsAre ==
  ASSUME Shapes
  PROVE  /\ Len(inDescriptors) \in Nat
         /\ \A i \in Columns : inDescriptors[i] \in Descriptors(ColumnTypes)
         /\ inDescriptors # <<>> => Len(inDescriptors) # 0
<1>1. inDescriptors \in Seq(Descriptors(ColumnTypes))
  BY DEF Shapes
<1> QED BY <1>1, LenProperties, ElementOfSeq, EmptySeq DEF Columns

LEMMA MessageInit == Init => MessageInv
<1> SUFFICES ASSUME Init PROVE MessageInv
  OBVIOUS
<1>1. inDescriptors = <<>> /\ inMessage = <<>> /\ bound = <<>> /\ NoRow /\ call = NoCall /\ call.op = "none"
  BY DEF Init, NoRow, NoCall
<1>2. Columns = {}
  BY <1>1 DEF Columns
<1>3. <<>> \in Seq(Descriptors(ColumnTypes)) /\ <<>> = [i \in {} |-> <<>>[i]]
  BY EmptySeq
<1>4. Shapes
  BY <1>1, <1>2, <1>3 DEF Shapes
<1>5. Stored /\ RowSent
  BY <1>1, <1>2 DEF Stored, RowSent
<1> QED BY <1>1, <1>4, <1>5, NotReading DEF MessageInv

(* The sets of parameters that prepare() answers, with adjusted types.     *)
LEMMA AdjustedColumns ==
  ASSUME NEW ds \in Prepared
  PROVE  LET adjusted == [i \in 1 .. Len(ds) |-> [ds[i] EXCEPT !.type = AdjustedType(@)]]
         IN  /\ Len(ds) \in Nat /\ Len(adjusted) = Len(ds)
             /\ adjusted \in Seq(Descriptors(ColumnTypes))
             /\ 1 .. Len(ds) \subseteq DOMAIN Offered
<1> DEFINE n == Len(ds)
           adjusted == [i \in 1 .. n |-> [ds[i] EXCEPT !.type = AdjustedType(@)]]
<1>1. ds \in Seq(Descriptors(OriginalTypes)) /\ 1 .. n \subseteq DOMAIN Offered
  BY MessageAssumption
<1>2. n \in Nat /\ \A i \in 1 .. n : ds[i] \in Descriptors(OriginalTypes)
  BY <1>1, LenProperties, ElementOfSeq
<1>3. \A original \in OriginalTypes : AdjustedType(original) \in ColumnTypes
  <2>1. ASSUME NEW t \in OriginalTypes PROVE AdjustedType(t) \in ColumnTypes
    <3>1. CASE t \in {"TEXT", "VARYING"}
      BY <3>1 DEF AdjustedType, ColumnTypes
    <3>2. CASE t = "TIME_TZ_EX"
      BY <3>2 DEF AdjustedType, ColumnTypes
    <3>3. CASE t = "TIMESTAMP_TZ_EX"
      BY <3>3 DEF AdjustedType, ColumnTypes
    <3>4. CASE t \in ColumnTypes /\ t \notin {"TEXT", "VARYING", "TIME_TZ_EX", "TIMESTAMP_TZ_EX"}
      BY <3>4 DEF AdjustedType
    <3> QED BY <3>1, <3>2, <3>3, <3>4 DEF OriginalTypes
  <2> QED BY <2>1
<1>4. ASSUME NEW i \in 1 .. n
      PROVE  [ds[i] EXCEPT !.type = AdjustedType(ds[i].type)] \in Descriptors(ColumnTypes)
  <2>1. ds[i] \in Descriptors(OriginalTypes)
    BY <1>2
  <2>2. AdjustedType(ds[i].type) \in ColumnTypes
    BY <1>3, <2>1 DEF Descriptors
  <2> QED BY <2>1, <2>2 DEF Descriptors
<1>5. adjusted \in [1 .. n -> Descriptors(ColumnTypes)]
  BY <1>4
<1>6. adjusted \in Seq(Descriptors(ColumnTypes))
  BY <1>2, <1>5, SeqDef
<1>7. Len(adjusted) = n
  <2>1. adjusted = [i \in 1 .. n |-> adjusted[i]]
    OBVIOUS
  <2> HIDE DEF adjusted
  <2> QED BY <1>2, <2>1, LengthOfFunction
<1> QED BY <1>1, <1>2, <1>6, <1>7

LEMMA NothingBound == \A d : FieldOf(d, Null, NullField)
<1>1. Null.cpp = "null" /\ IsNull(Null)
  BY ValueMeans DEF Null
<1>2. Typed(Null)
  BY <1>1 DEF Typed, IntTypeOf, PlainIntegers, FloatTypeOf
<1>3. \A d : Ok(NullField) \in Written(d, Null)
  BY <1>1 DEF Written
<1> QED BY <1>1, <1>2, <1>3 DEF FieldOf

LEMMA PrepareKeeps ==
  ASSUME MessageInv, Prepare
  PROVE  MessageInv'
<1>1. PICK ds \in Prepared :
        /\ inDescriptors' = [i \in 1 .. Len(ds) |-> [ds[i] EXCEPT !.type = AdjustedType(@)]]
        /\ inMessage' = [i \in 1 .. Len(ds) |-> NullField]
        /\ bound' = [i \in 1 .. Len(ds) |-> Null]
  BY DEF Prepare
<1>2. inDescriptors = <<>> /\ outRow' = outRow /\ call' = call
  BY DEF Prepare
<1>3. call = NoCall /\ NoRow /\ call.op = "none"
  BY <1>2 DEF MessageInv, Shapes, NoCall
<1>4. inDescriptors' \in Seq(Descriptors(ColumnTypes)) /\ Columns' = 1 .. Len(ds) /\ Columns' \subseteq DOMAIN Offered
  BY <1>1, AdjustedColumns DEF Columns
<1>5. Shapes'
  BY <1>1, <1>2, <1>3, <1>4 DEF Shapes, NoRow
<1>6. Stored'
  <2>1. \A i \in Columns' : bound'[i] = Null /\ inMessage'[i] = NullField
    BY <1>1, <1>4
  <2> QED BY <2>1, NothingBound DEF Stored
<1>7. RowSent'
  BY <1>2, <1>3 DEF RowSent, NoRow
<1>8. NullStaysNull' /\ VariantKeepsValue'
  <2>1. (call.op \notin {"get", "getVariant", "getStruct"})'
    BY <1>2, <1>3
  <2> QED BY <2>1, NotReading, PTL
<1> QED BY <1>5, <1>6, <1>7, <1>8 DEF MessageInv

LEMMA ClearKeeps ==
  ASSUME MessageInv, ClearParameters
  PROVE  MessageInv'
<1>1. /\ inDescriptors # <<>> /\ NoRow /\ inDescriptors' = inDescriptors /\ outRow' = outRow
      /\ inMessage' = [i \in Columns |-> NullField] /\ bound' = [i \in Columns |-> Null]
      /\ call' = NoCall /\ call'.op = "none"
  BY DEF ClearParameters, NoCall
<1>2. Columns' = Columns /\ NoRow'
  BY <1>1 DEF Columns, NoRow
<1>3. Shapes'
  BY <1>1, <1>2 DEF MessageInv, Shapes
<1>4. Stored'
  <2>1. \A i \in Columns' : bound'[i] = Null /\ inMessage'[i] = NullField
    BY <1>1, <1>2
  <2> QED BY <2>1, NothingBound DEF Stored
<1>5. RowSent'
  BY <1>1, <1>2 DEF RowSent
<1>6. NullStaysNull' /\ VariantKeepsValue'
  <2>1. (call.op \notin {"get", "getVariant", "getStruct"})'
    BY <1>1
  <2> QED BY <2>1, NotReading, PTL
<1> QED BY <1>3, <1>4, <1>5, <1>6 DEF MessageInv

(* A setter that does not fail stores a field of the value it was given.   *)
LEMMA WrittenField ==
  ASSUME NEW d \in Descriptors(ColumnTypes), NEW x, Typed(x), NEW o \in Written(d, x), o.ok
  PROVE  o = Ok(o.value) /\ FieldOf(d, x, o.value)
<1>1. CASE IsNull(x)
  <2>1. o = Ok(NullField)
    BY <1>1, WrittenMeans
  <2> QED BY <1>1, <2>1, Answers DEF FieldOf
<1>2. CASE ~IsNull(x)
  <2>1. StoredOk(d, o)
    BY <1>2, WrittenMeans
  <2>2. o.value = Field(o.value.data)
    BY <2>1, Answers DEF StoredOk
  <2> QED BY <1>2, <2>1, <2>2 DEF FieldOf, StoredOk
<1> QED BY <1>1, <1>2

LEMMA SetParameterKeeps ==
  ASSUME MessageInv, SetParameter
  PROVE  MessageInv'
<1>1. /\ inDescriptors # <<>> /\ NoRow /\ inDescriptors' = inDescriptors /\ outRow' = outRow
      /\ call' = [op |-> "set"] /\ call'.op = "set"
  BY DEF SetParameter
<1>2. Columns' = Columns /\ NoRow'
  BY <1>1 DEF Columns, NoRow
<1>3. Shapes /\ Stored
  BY DEF MessageInv
<1> DEFINE Kept == /\ inMessage' = [i \in Columns |-> inMessage'[i]] /\ bound' = [i \in Columns |-> bound'[i]]
                   /\ \A i \in Columns : FieldOf(inDescriptors[i], bound'[i], inMessage'[i])
<1>4. Kept
  <2>1. CASE UNCHANGED <<inMessage, bound>>
    BY <1>3, <2>1 DEF Shapes, Stored
  <2>2. ASSUME NEW i \in Columns, NEW x \in Offered[i], NEW o \in Written(inDescriptors[i], x), o.ok,
               inMessage' = [inMessage EXCEPT ![i] = o.value], bound' = [bound EXCEPT ![i] = x]
        PROVE  Kept
    <3>1. Typed(x) /\ inDescriptors[i] \in Descriptors(ColumnTypes)
      BY <1>3, MessageAssumption, ColumnsAre DEF Shapes
    <3>2. FieldOf(inDescriptors[i], x, o.value)
      BY <2>2, <3>1, WrittenField
    <3>3. \A j \in Columns : /\ inMessage'[j] = IF j = i THEN o.value ELSE inMessage[j]
                             /\ bound'[j] = IF j = i THEN x ELSE bound[j]
      BY <1>3, <2>2 DEF Shapes
    <3>4. DOMAIN inMessage = Columns /\ DOMAIN bound = Columns
      BY <1>3 DEF Shapes
    <3>5. inMessage' = [j \in Columns |-> inMessage'[j]] /\ bound' = [j \in Columns |-> bound'[j]]
      BY <2>2, <3>4
    <3> QED BY <1>3, <3>2, <3>3, <3>5 DEF Stored
  <2> QED BY <1>3, <2>1, <2>2 DEF SetParameter
<1>5. Shapes'
  BY <1>1, <1>2, <1>3, <1>4 DEF Shapes
<1>6. Stored'
  BY <1>1, <1>2, <1>4 DEF Stored
<1>7. RowSent'
  BY <1>1, <1>2 DEF RowSent
<1>8. NullStaysNull' /\ VariantKeepsValue'
  <2>1. (call.op \notin {"get", "getVariant", "getStruct"})'
    BY <1>1
  <2> QED BY <2>1, NotReading, PTL
<1> QED BY <1>5, <1>6, <1>7, <1>8 DEF MessageInv

LEMMA StructAnswers ==
  ASSUME Shapes, NEW xs \in Structs, Len(xs) = Len(inDescriptors), NEW os \in MemberAnswers(xs)
  PROVE  \A i \in Columns : /\ Typed(xs[i]) /\ inDescriptors[i] \in Descriptors(ColumnTypes)
                            /\ os[i] \in Written(inDescriptors[i], xs[i])
<1> DEFINE n == Len(inDescriptors)
           A == [i \in 1 .. n |-> Written(inDescriptors[i], xs[i])]
<1>1. n \in Nat /\ Columns = 1 .. n
  BY ColumnsAre DEF Columns
<1>2. os \in EachAnswered([i \in 1 .. n |-> A[i]])
  <2>1. A = [i \in 1 .. n |-> A[i]]
    OBVIOUS
  <2>2. os \in EachAnswered(A)
    BY DEF MemberAnswers, Columns
  <2> HIDE DEF A
  <2> QED BY <2>1, <2>2
<1>3. \A i \in 1 .. n : os[i] \in A[i]
  <2> HIDE DEF A, n
  <2> QED BY <1>1, <1>2, EachAnsweredMeans
<1>4. \A i \in 1 .. n : os[i] \in Written(inDescriptors[i], xs[i])
  BY <1>3
<1> QED BY <1>1, <1>4, ColumnsAre, MessageAssumption

(* set(struct) binds the first m members, and stops behind them if it does *)
(* not bind them all.                                                      *)
StructBound(xs, os, m) ==
    /\ Len(xs) = Len(inDescriptors) /\ call' = [op |-> "setStruct", xs |-> xs]
    /\ inMessage' = [i \in Columns |-> IF i \in 1 .. m THEN os[i].value ELSE inMessage[i]]
    /\ bound' = [i \in Columns |-> IF i \in 1 .. m THEN xs[i] ELSE bound[i]]
    /\ \A i \in 1 .. m : os[i].ok
    /\ IF m = Len(inDescriptors) THEN outcome' = Ok(0) ELSE ~os[m + 1].ok

StructRefused(xs) ==
    /\ Len(xs) # Len(inDescriptors) /\ call' = [op |-> "setStruct", xs |-> xs]
    /\ UNCHANGED <<inMessage, bound>>

LEMMA SetStructMeans ==
  ASSUME Shapes, SetStruct
  PROVE  \E xs \in Structs :
            \/ StructRefused(xs)
            \/ \E os \in MemberAnswers(xs), m \in 0 .. Len(inDescriptors) : StructBound(xs, os, m)
<1> DEFINE n == Len(inDescriptors)
<1>1. n \in Nat /\ Columns = 1 .. n
  BY ColumnsAre DEF Columns
<1>2. ASSUME NEW xs \in Structs, Len(xs) = n, call' = [op |-> "setStruct", xs |-> xs],
             NEW os \in MemberAnswers(xs),
             LET reached == {i \in Columns : \A j \in 1 .. i : os[j].ok}
                 failed == Cardinality(reached) + 1
             IN  /\ inMessage' = [i \in Columns |-> IF i \in reached THEN os[i].value ELSE inMessage[i]]
                 /\ bound' = [i \in Columns |-> IF i \in reached THEN xs[i] ELSE bound[i]]
                 /\ outcome' = IF failed > Len(xs) THEN Ok(0) ELSE os[failed]
      PROVE  \E m \in 0 .. n : StructBound(xs, os, m)
  <2> DEFINE reached == {i \in Columns : \A j \in 1 .. i : os[j].ok}
  <2>1. reached \in SUBSET (1 .. n) /\ \A i \in reached : \A j \in 1 .. i : j \in reached
    BY <1>1
  <2>2. PICK m \in 0 .. n : reached = 1 .. m
    <3> HIDE DEF reached, n
    <3> QED BY <1>1, <2>1, PrefixIsRange
  <2>3. m \in Nat /\ m <= n
    BY <1>1, <2>2
  <2>4. Cardinality(reached) = m
    <3>1. Cardinality(1 .. m) = m
      BY <2>3, FS_Interval
    <3> QED BY <2>2, <3>1
  <2>5. \A i \in 1 .. m : os[i].ok
    <3>1. \A i \in reached : i \in 1 .. i
      BY <1>1
    <3>2. \A i \in reached : os[i].ok
      BY <3>1
    <3> QED BY <2>2, <3>2
  <2>6. m # n => ~os[m + 1].ok
    <3> SUFFICES ASSUME m # n, os[m + 1].ok PROVE FALSE
      OBVIOUS
    <3>1. m + 1 \in Columns /\ \A j \in 1 .. m + 1 : j \in 1 .. m \/ j = m + 1
      BY <1>1, <2>3
    <3>2. m + 1 \in reached
      BY <2>5, <3>1
    <3>3. m + 1 \notin 1 .. m
      BY <2>3
    <3> QED BY <2>2, <3>2, <3>3
  <2>7. m = n => outcome' = Ok(0)
    <3>1. m + 1 > m
      BY <2>3
    <3> QED BY <1>2, <2>4, <3>1
  <2>8. /\ inMessage' = [i \in Columns |-> IF i \in 1 .. m THEN os[i].value ELSE inMessage[i]]
        /\ bound' = [i \in Columns |-> IF i \in 1 .. m THEN xs[i] ELSE bound[i]]
    <3>1. /\ inMessage' = [i \in Columns |-> IF i \in reached THEN os[i].value ELSE inMessage[i]]
          /\ bound' = [i \in Columns |-> IF i \in reached THEN xs[i] ELSE bound[i]]
      BY <1>2
    <3> HIDE DEF reached
    <3> QED BY <2>2, <3>1
  <2> HIDE DEF reached
  <2> QED BY <1>2, <2>2, <2>5, <2>6, <2>7, <2>8 DEF StructBound
<1> HIDE DEF n
<1>3. PICK xs \in Structs :
        /\ call' = [op |-> "setStruct", xs |-> xs]
        /\ \/ /\ Len(xs) # n
              /\ outcome' = Throw("field_count") /\ UNCHANGED <<inMessage, bound>>
           \/ /\ Len(xs) = n
              /\ \E os \in MemberAnswers(xs) :
                    LET reached == {i \in Columns : \A j \in 1 .. i : os[j].ok}
                        failed == Cardinality(reached) + 1
                    IN  /\ inMessage' = [i \in Columns |-> IF i \in reached THEN os[i].value ELSE inMessage[i]]
                        /\ bound' = [i \in Columns |-> IF i \in reached THEN xs[i] ELSE bound[i]]
                        /\ outcome' = IF failed > Len(xs) THEN Ok(0) ELSE os[failed]
  BY DEF SetStruct, n
<1>4. CASE Len(xs) # n /\ UNCHANGED <<inMessage, bound>>
  BY <1>3, <1>4 DEF StructRefused, n
<1>5. CASE Len(xs) = n
  <2>1. PICK os \in MemberAnswers(xs) :
          LET reached == {i \in Columns : \A j \in 1 .. i : os[j].ok}
              failed == Cardinality(reached) + 1
          IN  /\ inMessage' = [i \in Columns |-> IF i \in reached THEN os[i].value ELSE inMessage[i]]
              /\ bound' = [i \in Columns |-> IF i \in reached THEN xs[i] ELSE bound[i]]
              /\ outcome' = IF failed > Len(xs) THEN Ok(0) ELSE os[failed]
    BY <1>3, <1>5
  <2>2. \E m \in 0 .. n : StructBound(xs, os, m)
    BY <1>2, <1>3, <1>5, <2>1
  <2> QED BY <2>2 DEF n
<1> QED BY <1>3, <1>4, <1>5

LEMMA SetStructKeeps ==
  ASSUME MessageInv, SetStruct
  PROVE  MessageInv'
<1>1. inDescriptors # <<>> /\ NoRow /\ inDescriptors' = inDescriptors /\ outRow' = outRow
  BY DEF SetStruct
<1>2. Columns' = Columns /\ NoRow'
  BY <1>1 DEF Columns, NoRow
<1>3. Shapes /\ Stored
  BY DEF MessageInv
<1> DEFINE Kept == /\ inMessage' = [i \in Columns |-> inMessage'[i]] /\ bound' = [i \in Columns |-> bound'[i]]
                   /\ \A i \in Columns : FieldOf(inDescriptors[i], bound'[i], inMessage'[i])
<1>4. Kept /\ call'.op = "setStruct"
  <2>1. PICK xs \in Structs :
            \/ StructRefused(xs)
            \/ \E os \in MemberAnswers(xs), m \in 0 .. Len(inDescriptors) : StructBound(xs, os, m)
    BY <1>3, SetStructMeans
  <2>2. CASE StructRefused(xs)
    BY <1>3, <2>2 DEF StructRefused, Shapes, Stored
  <2>3. ASSUME NEW os \in MemberAnswers(xs), NEW m \in 0 .. Len(inDescriptors), StructBound(xs, os, m)
        PROVE  Kept /\ call'.op = "setStruct"
    <3>1. /\ call'.op = "setStruct" /\ Len(xs) = Len(inDescriptors)
          /\ inMessage' = [i \in Columns |-> IF i \in 1 .. m THEN os[i].value ELSE inMessage[i]]
          /\ bound' = [i \in Columns |-> IF i \in 1 .. m THEN xs[i] ELSE bound[i]]
          /\ \A i \in 1 .. m : os[i].ok
      BY <2>3 DEF StructBound
    <3>2. \A i \in Columns : /\ Typed(xs[i]) /\ inDescriptors[i] \in Descriptors(ColumnTypes)
                             /\ os[i] \in Written(inDescriptors[i], xs[i])
      BY <1>3, <3>1, StructAnswers
    <3>3. ASSUME NEW i \in Columns PROVE FieldOf(inDescriptors[i], bound'[i], inMessage'[i])
      <4>1. CASE i \in 1 .. m
        <5>1. FieldOf(inDescriptors[i], xs[i], os[i].value)
          BY <3>1, <3>2, <4>1, WrittenField
        <5> QED BY <3>1, <4>1, <5>1
      <4>2. CASE i \notin 1 .. m
        BY <1>3, <3>1, <4>2 DEF Stored
      <4> QED BY <4>1, <4>2
    <3>4. inMessage' = [i \in Columns |-> inMessage'[i]] /\ bound' = [i \in Columns |-> bound'[i]]
      BY <3>1
    <3> QED BY <3>1, <3>3, <3>4
  <2> QED BY <2>1, <2>2, <2>3
<1>5. Shapes'
  BY <1>1, <1>2, <1>3, <1>4 DEF Shapes
<1>6. Stored'
  BY <1>1, <1>2, <1>4 DEF Stored
<1>7. RowSent'
  BY <1>1, <1>2, <1>4 DEF RowSent
<1>8. NullStaysNull' /\ VariantKeepsValue'
  <2>1. (call.op \notin {"get", "getVariant", "getStruct"})'
    BY <1>4
  <2> QED BY <2>1, NotReading, PTL
<1> QED BY <1>5, <1>6, <1>7, <1>8 DEF MessageInv

LEMMA ExecuteKeeps ==
  ASSUME MessageInv, Execute
  PROVE  MessageInv'
<1>1. /\ inDescriptors # <<>> /\ NoRow /\ inDescriptors' = inDescriptors
      /\ inMessage' = inMessage /\ bound' = bound
  BY DEF Execute
<1>2. Columns' = Columns
  BY <1>1 DEF Columns
<1>3. Shapes /\ Stored
  BY DEF MessageInv
<1>4. Len(inDescriptors) \in Nat /\ Len(inDescriptors) # 0 /\ Columns = 1 .. Len(inDescriptors)
  BY <1>1, <1>3, ColumnsAre DEF Columns
<1>5. \E row : /\ outRow' = row /\ row # <<>> /\ row = [i \in Columns |-> row[i]]
               /\ \/ row = inMessage /\ call' = [op |-> "execute", ok |-> TRUE]
                  \/ row = [i \in Columns |-> NullField] /\ call' = [op |-> "execute", ok |-> FALSE]
  <2>1. CASE outRow' = inMessage /\ outcome' = Ok(0)
    <3>1. call' = [op |-> "execute", ok |-> TRUE]
      BY <2>1 DEF Execute, Ok
    <3>2. inMessage = [i \in Columns |-> inMessage[i]]
      BY <1>3 DEF Shapes
    <3>3. inMessage # <<>>
      BY <1>4, <3>2, LengthOfFunction
    <3> QED BY <2>1, <3>1, <3>2, <3>3
  <2>2. CASE outRow' = [i \in Columns |-> NullField] /\ outcome' = Throw("server")
    <3> DEFINE row == [i \in Columns |-> NullField]
    <3>1. call' = [op |-> "execute", ok |-> FALSE]
      BY <2>2 DEF Execute, Throw
    <3>2. row = [i \in Columns |-> row[i]]
      OBVIOUS
    <3>3. row # <<>>
      <4> HIDE DEF row
      <4> QED BY <1>4, <3>2, LengthOfFunction
    <3> QED BY <2>2, <3>1, <3>2, <3>3
  <2> QED BY <2>1, <2>2 DEF Execute
<1>6. Shapes'
  BY <1>1, <1>2, <1>3, <1>5 DEF Shapes, NoRow
<1>7. Stored'
  BY <1>1, <1>2, <1>3 DEF Stored
<1>8. RowSent'
  <2>1. ~NoRow'
    BY <1>5 DEF NoRow
  <2>2. CASE outRow' = inMessage /\ call' = [op |-> "execute", ok |-> TRUE]
    <3>1. Succeeded' /\ call'.op = "execute"
      BY <2>2 DEF Succeeded
    <3> QED BY <1>1, <2>1, <2>2, <3>1 DEF RowSent
  <2>3. CASE outRow' = [i \in Columns |-> NullField] /\ call' = [op |-> "execute", ok |-> FALSE]
    <3>1. ~Succeeded' /\ call'.op = "execute"
      BY <2>3 DEF Succeeded
    <3> QED BY <1>2, <2>1, <2>3, <3>1 DEF RowSent
  <2> QED BY <1>5, <2>2, <2>3
<1>9. NullStaysNull' /\ VariantKeepsValue'
  <2>1. (call.op \notin {"get", "getVariant", "getStruct"})'
    BY <1>5
  <2> QED BY <2>1, NotReading, PTL
<1> QED BY <1>6, <1>7, <1>8, <1>9 DEF MessageInv

LEMMA ForgetKeeps ==
  ASSUME MessageInv, Forget
  PROVE  MessageInv'
<1>1. /\ ~NoRow /\ inDescriptors' = inDescriptors /\ inMessage' = inMessage /\ bound' = bound
      /\ outRow' = <<>> /\ call' = NoCall /\ call'.op = "none"
  BY DEF Forget, NoCall
<1>2. Columns' = Columns /\ NoRow'
  BY <1>1 DEF Columns, NoRow
<1>3. Shapes' /\ Stored' /\ RowSent'
  BY <1>1, <1>2 DEF MessageInv, Shapes, Stored, RowSent
<1>4. NullStaysNull' /\ VariantKeepsValue'
  <2>1. (call.op \notin {"get", "getVariant", "getStruct"})'
    BY <1>1
  <2> QED BY <2>1, NotReading, PTL
<1> QED BY <1>3, <1>4 DEF MessageInv

(* A field of the row is null if the call failed or the parameter is null; *)
(* if not, it holds what a column of its type can hold.                    *)
LEMMA RowMeans ==
  ASSUME MessageInv, Reading, NEW i \in Columns
  PROVE  /\ outRow[i].null <=> ~call.ok \/ IsNull(bound[i])
         /\ outRow[i].null => outRow[i] = NullField
         /\ ~outRow[i].null => /\ outRow[i] = Field(outRow[i].data)
                               /\ FieldFits(inDescriptors[i], outRow[i].data)
                               /\ Typed(bound[i]) /\ Bound(inDescriptors[i], bound[i], outRow[i].data)
<1>1. ~NoRow /\ call.op = "execute" /\ Stored /\ RowSent
  BY DEF MessageInv, Reading
<1>2. outRow = IF call.ok THEN inMessage ELSE [j \in Columns |-> NullField]
  BY <1>1 DEF RowSent, Succeeded
<1>3. FieldOf(inDescriptors[i], bound[i], inMessage[i])
  BY <1>1 DEF Stored
<1>4. CASE ~call.ok
  <2>1. outRow[i] = NullField
    BY <1>2, <1>4
  <2> QED BY <1>4, <2>1, FieldMeans
<1>5. CASE call.ok
  <2>1. outRow[i] = inMessage[i]
    BY <1>2, <1>5
  <2>2. CASE IsNull(bound[i])
    <3>1. outRow[i] = NullField
      BY <1>3, <2>1, <2>2 DEF FieldOf
    <3> QED BY <2>2, <3>1, FieldMeans
  <2>3. CASE ~IsNull(bound[i])
    <3>1. outRow[i] = Field(outRow[i].data) /\ FieldFits(inDescriptors[i], outRow[i].data)
      BY <1>3, <2>1, <2>3 DEF FieldOf
    <3>2. ~outRow[i].null
      BY <3>1, FieldMeans
    <3>3. Typed(bound[i]) /\ Bound(inDescriptors[i], bound[i], outRow[i].data)
      BY <1>3, <2>1, <2>3, <3>1 DEF FieldOf, Bound
    <3> QED BY <1>5, <2>3, <3>1, <3>2, <3>3
  <2> QED BY <2>2, <2>3
<1> QED BY <1>4, <1>5

(* A call that reads changes nothing that the first parts are about.       *)
LEMMA ReadingKeeps ==
  ASSUME MessageInv, Reading, UNCHANGED <<inDescriptors, inMessage, outRow, bound>>,
         call'.op \in {"get", "getVariant", "getStruct"}, call'.row = call.ok
  PROVE  (Shapes /\ Stored /\ RowSent)' /\ Columns' = Columns
<1>1. ~NoRow /\ ~NoRow' /\ call.op = "execute" /\ Columns' = Columns
  BY DEF Reading, NoRow, Columns
<1>2. Succeeded' = Succeeded
  BY <1>1 DEF Succeeded
<1>3. inDescriptors # <<>>
  BY <1>1 DEF MessageInv, Shapes
<1>4. Shapes' /\ Stored'
  BY <1>1, <1>3 DEF MessageInv, Shapes, Stored
<1>5. RowSent'
  BY <1>1, <1>2 DEF MessageInv, RowSent
<1> QED BY <1>1, <1>4, <1>5

LEMMA GetColumnKeeps ==
  ASSUME MessageInv, NEW cpps, GetColumn(cpps), cpps \subseteq CppTypes
  PROVE  MessageInv'
<1>1. PICK i \in Columns, cpp \in cpps :
        /\ call' = [op |-> "get", row |-> call.ok, i |-> i, cpp |-> cpp]
        /\ outcome' \in Read(inDescriptors[i], outRow[i], cpp)
  BY DEF GetColumn
<1>2. Reading /\ UNCHANGED <<inDescriptors, inMessage, outRow, bound>>
  BY DEF GetColumn
<1>3. call'.op = "get" /\ call'.row = call.ok /\ call'.i = i
  BY <1>1
<1>4. (Shapes /\ Stored /\ RowSent)' /\ Columns' = Columns
  BY <1>2, <1>3, ReadingKeeps
<1>5. outRow[i].null <=> ~call.ok \/ IsNull(bound[i])
  BY <1>2, RowMeans
<1>6. CASE outRow[i].null
  <2>1. outcome' = Ok(Null)
    BY <1>1, <1>6, ReadMeans
  <2>2. outcome'.ok /\ IsNull(outcome'.value)
    BY <2>1, Answers, ValueMeans
  <2> QED BY <1>2, <1>3, <1>4, <1>5, <1>6, <2>2 DEF NullStaysNull, VariantKeepsValue, MessageInv
<1>7. CASE ~outRow[i].null
  <2>1. outcome'.ok => ~IsNull(outcome'.value)
    <3>1. cpp # "null"
      BY NullIsNoType
    <3>2. outcome'.ok => outcome'.value.cpp = cpp
      BY <1>1, <1>7, ReadMeans
    <3> QED BY <3>1, <3>2 DEF IsNull
  <2> QED BY <1>2, <1>3, <1>4, <1>5, <1>7, <2>1 DEF NullStaysNull, VariantKeepsValue, MessageInv
<1> QED BY <1>6, <1>7

LEMMA GetVariantKeeps ==
  ASSUME MessageInv, GetVariant
  PROVE  MessageInv'
<1>1. PICK i \in Columns, V \in Variants :
        /\ call' = [op |-> "getVariant", row |-> call.ok, i |-> i, V |-> V]
        /\ outcome' \in ReadVariant(inDescriptors[i], outRow[i], V)
  BY DEF GetVariant
<1>2. Reading /\ UNCHANGED <<inDescriptors, inMessage, outRow, bound>>
  BY DEF GetVariant
<1>3. call'.op = "getVariant" /\ call'.row = call.ok /\ call'.i = i /\ call'.V = V
  BY <1>1
<1>4. (Shapes /\ Stored /\ RowSent)' /\ Columns' = Columns
  BY <1>2, <1>3, ReadingKeeps
<1> DEFINE d == inDescriptors[i]
           data == outRow[i].data
<1>5. /\ outRow[i].null <=> ~call.ok \/ IsNull(bound[i])
      /\ ~outRow[i].null => outRow[i] = Field(data) /\ FieldFits(d, data)
  BY <1>2, RowMeans
<1>6. d \in Descriptors(ColumnTypes) /\ V \in Seq(Alternatives)
  BY ColumnsAre, MessageAssumption DEF MessageInv, Alternatives
<1>7. outcome'.ok => (outRow[i].null <=> IsNull(outcome'.value))
  BY <1>1, <1>6, VariantMeans
<1>8. NullStaysNull'
  BY <1>2, <1>3, <1>5, <1>7 DEF NullStaysNull
<1>9. ASSUME ~outRow[i].null, \E k \in 1 .. Len(V) : V[k] \in Lossless(d)
      PROVE  /\ outcome'.ok
             /\ outcome'.value.cpp \in Lossless(d)
             /\ d.type \in IntTypes => SameNumber(outcome'.value, Value("column", data, d.scale))
  <2>1. outRow[i] = Field(data) /\ FieldFits(d, data) /\ outcome' \in getVariantValue(d, Field(data), V)
    BY <1>1, <1>5, <1>9, FieldMeans DEF ReadVariant
  <2> HIDE DEF d, data
  <2> QED BY <1>6, <1>9, <2>1, VariantKeeps
<1>10. VariantKeepsValue'
  BY <1>2, <1>3, <1>9 DEF VariantKeepsValue
<1> QED BY <1>4, <1>8, <1>10 DEF MessageInv

LEMMA GetStructKeeps ==
  ASSUME MessageInv, GetStruct
  PROVE  MessageInv'
<1>1. PICK members \in Members :
        /\ call' = [op |-> "getStruct", row |-> call.ok, members |-> members]
        /\ outcome' \in getStruct(inDescriptors, outRow, members)
  BY DEF GetStruct
<1>2. Reading /\ UNCHANGED <<inDescriptors, inMessage, outRow, bound>>
  BY DEF GetStruct
<1>3. call'.op = "getStruct" /\ call'.row = call.ok /\ call'.members = members
  BY <1>1
<1>4. (Shapes /\ Stored /\ RowSent)' /\ Columns' = Columns
  BY <1>2, <1>3, ReadingKeeps
<1>5. \A i \in Columns : outRow[i].null <=> ~call.ok \/ IsNull(bound[i])
  BY <1>2, RowMeans
<1>6. \A i \in 1 .. Len(members) : MemberOk(members[i])
  BY MessageAssumption DEF MemberOk, Alternatives
<1>7. ASSUME outcome'.ok
      PROVE  \A i \in Columns : /\ outRow[i].null <=> IsNull(outcome'.value[i])
                                /\ outRow[i].null => members[i].kind # "plain"
  <2>1. inDescriptors \in Seq(Descriptors(ColumnTypes))
    BY DEF MessageInv, Shapes
  <2> DEFINE o == outcome'
             ds == inDescriptors
             row == outRow
  <2>2. ds \in Seq(Descriptors(ColumnTypes)) /\ o \in getStruct(ds, row, members) /\ o.ok
    BY <1>1, <1>7, <2>1
  <2> HIDE DEF o, ds, row
  <2>3. \A i \in 1 .. Len(ds) : (row[i].null <=> IsNull(o.value[i])) /\ (row[i].null => members[i].kind # "plain")
    BY <1>6, <2>2, StructMeans
  <2> QED BY <2>3 DEF o, ds, row, Columns
<1>8. NullStaysNull'
  BY <1>2, <1>3, <1>4, <1>5, <1>7 DEF NullStaysNull
<1>9. VariantKeepsValue'
  BY <1>3 DEF VariantKeepsValue
<1> QED BY <1>4, <1>8, <1>9 DEF MessageInv

LEMMA MessageStep == MessageInv /\ [Next]_vars => MessageInv'
<1> SUFFICES ASSUME MessageInv, [Next]_vars PROVE MessageInv'
  OBVIOUS
<1>1. CASE UNCHANGED vars
  BY <1>1 DEF vars, MessageInv, Shapes, Stored, RowSent, Succeeded, NoRow, Columns, NullStaysNull, VariantKeepsValue
<1>2. CASE GetNumber
  <2>1. NumberTypes \subseteq CppTypes
    BY DEF CppTypes
  <2> QED BY <1>2, <2>1, GetColumnKeeps DEF GetNumber
<1>3. CASE GetOther
  BY <1>3, GetColumnKeeps DEF GetOther
<1> QED BY <1>1, <1>2, <1>3, PrepareKeeps, ClearKeeps, SetParameterKeeps, SetStructKeeps, ExecuteKeeps,
           GetVariantKeeps, GetStructKeeps, ForgetKeeps DEF Next

LEMMA MessageStays == Spec => []MessageInv
BY MessageInit, MessageStep, PTL DEF Spec

(* Of the calls, only the getters of one column are answered as such. *)
LEMMA OnlyGetColumnGets ==
  ASSUME MessageInv, Next, call'.op = "get"
  PROVE  \E cpps : cpps \subseteq CppTypes /\ GetColumn(cpps)
<1>1. ~Prepare
  BY DEF Prepare, MessageInv, Shapes, NoCall
<1>2. ~SetStruct
  <2> SUFFICES ASSUME SetStruct PROVE FALSE
    OBVIOUS
  <2>1. PICK xs \in Structs : call' = [op |-> "setStruct", xs |-> xs]
    BY DEF SetStruct
  <2> QED BY <2>1
<1>3. ~Execute
  <2> SUFFICES ASSUME Execute PROVE FALSE
    OBVIOUS
  <2>1. call' = [op |-> "execute", ok |-> outcome'.ok]
    BY DEF Execute
  <2> QED BY <2>1
<1>4. ~GetVariant
  <2> SUFFICES ASSUME GetVariant PROVE FALSE
    OBVIOUS
  <2>1. \E i, V : call' = [op |-> "getVariant", row |-> call.ok, i |-> i, V |-> V]
    BY DEF GetVariant
  <2> QED BY <2>1
<1>5. ~GetStruct
  <2> SUFFICES ASSUME GetStruct PROVE FALSE
    OBVIOUS
  <2>1. \E members : call' = [op |-> "getStruct", row |-> call.ok, members |-> members]
    BY DEF GetStruct
  <2> QED BY <2>1
<1>6. ~ClearParameters /\ ~SetParameter /\ ~Forget
  BY DEF ClearParameters, SetParameter, Forget, NoCall
<1>7. NumberTypes \subseteq CppTypes /\ CppTypes \ NumberTypes \subseteq CppTypes
  BY DEF CppTypes
<1> QED BY <1>1, <1>2, <1>3, <1>4, <1>5, <1>6, <1>7 DEF Next, GetNumber, GetOther

-----------------------------------------------------------------------------
(* What is in the message always has the shape and the types of the        *)
(* descriptors that prepare() has adjusted: no integer a column's width    *)
(* cannot hold, no text longer than the column, whatever was bound, by     *)
(* whichever setter.                                                       *)
THEOREM MessageTypeCorrect == Spec => []TypeOK
<1>1. MessageInv => TypeOK
  <2> SUFFICES ASSUME MessageInv PROVE TypeOK
    OBVIOUS
  <2>1. Shapes /\ Stored /\ Len(inDescriptors) \in Nat /\ Columns = 1 .. Len(inDescriptors)
    BY ColumnsAre DEF MessageInv, Columns
  <2>2. Len(inMessage) = Len(inDescriptors) /\ Len(bound) = Len(inDescriptors)
        /\ (NoRow \/ Len(outRow) = Len(inDescriptors))
    BY <2>1, LengthOfFunction DEF Shapes
  <2>3. ASSUME NEW i \in Columns PROVE inMessage[i].null \/ FieldFits(inDescriptors[i], inMessage[i].data)
    BY <2>1, FieldMeans DEF Stored, FieldOf
  <2> QED BY <2>2, <2>3 DEF TypeOK, FieldFits, NoRow
<1> QED BY <1>1, MessageStays, PTL

(* A parameter that is null, or a row the server did not send, is read as  *)
(* null in every way there is to read it, and nothing else is.             *)
THEOREM NullStaysNullHolds == Spec => []NullStaysNull
<1>1. MessageInv => NullStaysNull
  BY DEF MessageInv
<1> QED BY <1>1, MessageStays, PTL

(* getVariantValue never takes an alternative that loses something while   *)
(* one of the variant's alternatives does not.                             *)
THEOREM VariantKeepsValueHolds == Spec => []VariantKeepsValue
<1>1. MessageInv => VariantKeepsValue
  BY DEF MessageInv
<1> QED BY <1>1, MessageStays, PTL

(* What was bound is what the getter of the same type reads from the row   *)
(* the server echoes: for any columns, scales, widths, calendar and values *)
(* of the C++ types, because the message always holds what the setters     *)
(* make of the values bound (Stored) and each getter takes back what its   *)
(* setter did (BoundReadsBack).                                            *)
THEOREM ReadsBackHolds == Spec => []ReadsBack
<1>1. Init => ReadsBack
  BY DEF Init, NoCall, ReadsBack
<1>2. MessageInv /\ ReadsBack /\ [Next]_vars => ReadsBack'
  <2> SUFFICES ASSUME MessageInv, ReadsBack, [Next]_vars PROVE ReadsBack'
    OBVIOUS
  <2>1. CASE UNCHANGED vars
    BY <2>1 DEF vars, ReadsBack
  <2>2. ASSUME NEW cpps, cpps \subseteq CppTypes, GetColumn(cpps) PROVE ReadsBack'
    <3>1. PICK i \in Columns, cpp \in cpps :
            /\ call' = [op |-> "get", row |-> call.ok, i |-> i, cpp |-> cpp]
            /\ outcome' \in Read(inDescriptors[i], outRow[i], cpp)
      BY <2>2 DEF GetColumn
    <3>2. Reading /\ inDescriptors' = inDescriptors /\ bound' = bound
      BY <2>2 DEF GetColumn
    <3>3. call'.op = "get" /\ call'.row = call.ok /\ call'.i = i /\ call'.cpp = cpp
      BY <3>1
    <3>4. SUFFICES ASSUME call.ok, cpp = bound[i].cpp, ~IsNull(bound[i]) PROVE ReadsBack'
      <4>1. cpp # "null"
        BY <2>2, <3>1, NullIsNoType
      <4> QED BY <3>2, <3>3, <4>1 DEF ReadsBack, IsNull
    <3> DEFINE d == inDescriptors[i]
               x == bound[i]
    <3>5. /\ outRow[i] = Field(outRow[i].data) /\ Typed(x) /\ Bound(d, x, outRow[i].data)
      BY <3>2, <3>4, RowMeans
    <3>6. d \in Descriptors(ColumnTypes)
      BY ColumnsAre DEF MessageInv
    <3>7. outcome' \in Read(d, Field(outRow[i].data), x.cpp)
      BY <3>1, <3>4, <3>5
    <3>8. IF x.cpp \in DOMAIN IntTypeOf
          THEN (outcome'.ok /\ d.type \in IntTypes /\ d.scale <= x.scale) => SameNumber(x, outcome'.value)
          ELSE /\ x.cpp # "string" /\ ~BeforeYear0(x) /\ ~OutOfPowers(d, x) => outcome'.ok
               /\ KeepsAll(d, x) /\ ~BeforeYear0(x) => outcome'.value.held = x.held
      BY <3>5, <3>6, <3>7, BoundReadsBack
    <3> QED BY <3>2, <3>3, <3>4, <3>8 DEF ReadsBack, KeepsAll, BeforeYear0, OutOfPowers
  <2>3. CASE Next
    <3>1. call'.op # "get" => ReadsBack'
      BY DEF ReadsBack
    <3> QED BY <2>2, <2>3, <3>1, OnlyGetColumnGets
  <2> QED BY <2>1, <2>3
<1> QED BY <1>1, <1>2, MessageStays, PTL DEF Spec

(* A text read from a column and bound to that column stores the very      *)
(* same data: setString takes back what getString prints of every type,    *)
(* for any widths, scales that are not positive, any calendar, zones of    *)
(* whole minutes, and a null.                                              *)
THEOREM TextRebindsHolds == Spec => []TextRebinds
<1>1. Init => TextRebinds
  BY DEF Init, NoCall, TextRebinds
<1>2. MessageInv /\ TextRebinds /\ [Next]_vars => TextRebinds'
  <2> SUFFICES ASSUME MessageInv, TextRebinds, [Next]_vars PROVE TextRebinds'
    OBVIOUS
  <2>1. CASE UNCHANGED vars
    BY <2>1 DEF vars, TextRebinds
  <2>2. ASSUME NEW cpps, GetColumn(cpps) PROVE TextRebinds'
    <3>1. PICK i \in Columns, cpp \in cpps :
            /\ call' = [op |-> "get", row |-> call.ok, i |-> i, cpp |-> cpp]
            /\ outcome' \in Read(inDescriptors[i], outRow[i], cpp)
      BY <2>2 DEF GetColumn
    <3>2. Reading /\ inDescriptors' = inDescriptors /\ outRow' = outRow
      BY <2>2 DEF GetColumn
    <3>3. call'.i = i /\ call'.cpp = cpp
      BY <3>1
    <3> DEFINE d == inDescriptors[i]
               field == outRow[i]
    <3>4. SUFFICES ASSUME cpp = "string", outcome'.ok, field.null \/ OfColumn(d, field.data)
                   PROVE  Written(d, outcome'.value) = {Ok(field)}
      BY <3>2, <3>3 DEF TextRebinds
    <3>5. CASE field.null
      <4>1. field = NullField
        BY <3>2, <3>5, RowMeans
      <4>2. outcome'.value = Null
        BY <3>1, <3>5, ReadMeans, Answers
      <4> QED BY <4>1, <4>2, ValueMeans DEF Written
    <3>6. CASE ~field.null
      <4>1. field = Field(field.data) /\ FieldFits(d, field.data)
        BY <3>2, <3>6, RowMeans
      <4>2. d \in Descriptors(ColumnTypes)
        BY ColumnsAre DEF MessageInv
      <4>3. outcome' \in Read(d, Field(field.data), "string")
        BY <3>1, <3>4, <4>1
      <4>4. Written(d, outcome'.value) = {Ok(Field(field.data))}
        BY <3>4, <3>6, <4>1, <4>2, <4>3, TextBoundAgain
      <4> QED BY <4>1, <4>4
    <3> QED BY <3>5, <3>6
  <2>3. CASE Next
    <3>1. call'.op # "get" => TextRebinds'
      BY DEF TextRebinds
    <3> QED BY <2>2, <2>3, <3>1, OnlyGetColumnGets
  <2> QED BY <2>1, <2>3
<1> QED BY <1>1, <1>2, MessageStays, PTL DEF Spec

(* A typed setter that throws leaves the message as it was. *)
THEOREM SetIsAtomicHolds == Spec => SetIsAtomic
<1>1. MessageInv /\ [Next]_vars => [(call'.op = "set" /\ ~outcome'.ok) => UNCHANGED inMessage]_vars
  <2> SUFFICES ASSUME MessageInv, Next, call'.op = "set", ~outcome'.ok PROVE inMessage' = inMessage
    BY DEF vars
  <2>1. CASE SetParameter
    BY <2>1, Answers DEF SetParameter
  <2>2. CASE ~SetParameter
    <3>1. CASE Prepare
      <4>1. call' = NoCall
        BY <3>1 DEF Prepare, MessageInv, Shapes
      <4> QED BY <4>1 DEF NoCall
    <3>2. CASE SetStruct
      BY <3>2 DEF SetStruct
    <3> QED BY <2>2, <3>1, <3>2 DEF Next, ClearParameters, NoCall, Execute, GetNumber, GetOther, GetColumn, GetVariant, GetStruct, Forget
  <2> QED BY <2>1, <2>2
<1> QED BY <1>1, MessageStays, PTL DEF Spec, SetIsAtomic

(* A struct that cannot be bound stops at its first bad member: those      *)
(* before are bound, and those behind are as they were.                    *)
StoppedAtFailure ==
    \/ UNCHANGED inMessage /\ Len(call'.xs) # Len(inDescriptors)
    \/ \E k \in Columns :
          /\ \A i \in Columns : i >= k => inMessage'[i] = inMessage[i]
          /\ \A i \in 1 .. k - 1 : Ok(inMessage'[i]) \in Written(inDescriptors[i], call'.xs[i])
          /\ \A o \in Written(inDescriptors[k], call'.xs[k]) : ~o.ok

LEMMA StructStops ==
  ASSUME Shapes, SetStruct, ~outcome'.ok
  PROVE  StoppedAtFailure
<1>1. PICK xs \in Structs :
          \/ StructRefused(xs)
          \/ \E os \in MemberAnswers(xs), m \in 0 .. Len(inDescriptors) : StructBound(xs, os, m)
  BY SetStructMeans
<1>2. CASE StructRefused(xs)
  BY <1>2 DEF StructRefused, StoppedAtFailure
<1>3. ASSUME NEW os \in MemberAnswers(xs), NEW m \in 0 .. Len(inDescriptors), StructBound(xs, os, m)
      PROVE  StoppedAtFailure
  <2>1. /\ call'.xs = xs /\ Len(xs) = Len(inDescriptors)
        /\ inMessage' = [i \in Columns |-> IF i \in 1 .. m THEN os[i].value ELSE inMessage[i]]
        /\ \A i \in 1 .. m : os[i].ok
    BY <1>3 DEF StructBound
  <2>2. \A i \in Columns : /\ Typed(xs[i]) /\ inDescriptors[i] \in Descriptors(ColumnTypes)
                           /\ os[i] \in Written(inDescriptors[i], xs[i])
    BY <2>1, StructAnswers
  <2>3. m # Len(inDescriptors) /\ ~os[m + 1].ok
    BY <1>3, Answers DEF StructBound
  <2> DEFINE k == m + 1
  <2>4. /\ k \in Columns /\ k - 1 = m /\ (\A i \in 1 .. m : i \in Columns)
        /\ \A i \in Columns : i >= k => i \notin 1 .. m
    BY <2>3, ColumnsAre DEF Columns
  <2>5. ~os[k].ok
    BY <2>3
  <2> HIDE DEF k
  <2>6. \A i \in Columns : i >= k => inMessage'[i] = inMessage[i]
    BY <2>1, <2>4
  <2>7. ASSUME NEW i \in 1 .. m PROVE Ok(inMessage'[i]) \in Written(inDescriptors[i], xs[i])
    <3>1. i \in Columns /\ os[i].ok /\ inMessage'[i] = os[i].value
      BY <2>1, <2>4
    <3>2. os[i] = Ok(os[i].value)
      BY <2>2, <3>1, WrittenField
    <3> QED BY <2>2, <3>1, <3>2
  <2>8. \A o \in Written(inDescriptors[k], xs[k]) : ~o.ok
    <3>1. Typed(xs[k]) /\ inDescriptors[k] \in Descriptors(ColumnTypes) /\ os[k] \in Written(inDescriptors[k], xs[k])
      BY <2>2, <2>4
    <3>2. CASE IsNull(xs[k])
      <4>1. os[k] = Ok(NullField)
        BY <3>1, <3>2, WrittenMeans
      <4> QED BY <2>5, <4>1, Answers
    <3>3. CASE ~IsNull(xs[k])
      BY <2>5, <3>1, <3>3, WrittenMeans
    <3> QED BY <3>2, <3>3
  <2> QED BY <2>1, <2>4, <2>6, <2>7, <2>8 DEF StoppedAtFailure
<1> QED BY <1>1, <1>2, <1>3

THEOREM StructStopsAtFailureHolds == Spec => StructStopsAtFailure
<1>1. MessageInv /\ [Next]_vars => [(call'.op = "setStruct" /\ ~outcome'.ok) => StoppedAtFailure]_vars
  <2> SUFFICES ASSUME MessageInv, Next, call'.op = "setStruct", ~outcome'.ok PROVE StoppedAtFailure
    BY DEF vars
  <2>1. CASE SetStruct
    BY <2>1, StructStops DEF MessageInv
  <2>2. CASE Prepare
    <3>1. call' = NoCall
      BY <2>2 DEF Prepare, MessageInv, Shapes
    <3> QED BY <3>1 DEF NoCall
  <2>3. CASE ~SetStruct /\ ~Prepare
    BY <2>3 DEF Next, ClearParameters, NoCall, SetParameter, Execute, GetNumber, GetOther, GetColumn, GetVariant, GetStruct, Forget
  <2> QED BY <2>1, <2>2, <2>3
<1> QED BY <1>1, MessageStays, PTL DEF Spec, StructStopsAtFailure, StoppedAtFailure
==============================================================================

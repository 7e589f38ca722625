------------------------------- MODULE Message -------------------------------
(***************************************************************************)
(* The parameters and the row of one Statement: inMessage is what the      *)
(* setters have written, outRow what execute() left in outMessage.  The    *)
(* server is external: it echoes the parameters, as RETURNING or           *)
(* SELECT ?, ? does, or refuses.                                           *)
(*                                                                         *)
(* Bounds: Offered and Members limit the arguments, and after one read the *)
(* row is forgotten before the parameters change again: outMessage and     *)
(* inMessage share no bytes.                                               *)
(***************************************************************************)
EXTENDS Fields

CONSTANTS
    Prepared,       \* sequences of original descriptors that prepare() may answer
    Offered,        \* [column -> C++ values bound to it]
    Structs,        \* sequences of C++ values bound as one struct or tuple
    Variants,       \* the variants read
    Members         \* the structs read

(* The types a column may have, as the server names them and as adjusted.  *)
ColumnTypes ==
    IntTypes \union FloatTypes \union
    {"BOOLEAN", "STRING", "DECFLOAT16", "DECFLOAT34", "DATE", "TIME", "TIMESTAMP", "TIME_TZ", "TIMESTAMP_TZ", "BLOB"}
OriginalTypes == (ColumnTypes \ {"STRING"}) \union {"TEXT", "VARYING", "TIME_TZ_EX", "TIMESTAMP_TZ_EX"}
Descriptors(types) == [type : types, scale : Int, length : Nat]

(* A value that its C++ type can hold. *)
Typed(x) ==
    /\ x.cpp \in CppTypes \union {"null"}
    /\ x.cpp \in DOMAIN IntTypeOf =>
          Fits(x.held, IntTypeOf[x.cpp]) /\ x.scale \in Int
    /\ x.cpp \in PlainIntegers => x.scale = 0
    /\ x.cpp = "ScaledOpaqueInt128" => Fits(x.held, "INT128")
    /\ x.cpp \in DOMAIN FloatTypeOf =>
          x.held \in Int /\ (x.held = NotFinite \/ Nearest(x.held, FloatTypeOf[x.cpp]) = x.held)
    /\ x.cpp = "bool" => x.held \in BOOLEAN
    /\ x.cpp = "Date" => x.held \in Dates
    /\ x.cpp = "Time" => x.held \in Int
    /\ x.cpp = "TimeTz" => x.held \in [utc : Int, zone : STRING]
    /\ x.cpp = "Timestamp" => x.held \in [date : Dates, time : Int]
    /\ x.cpp = "TimestampTz" => x.held \in [utc : [date : Dates, time : Int], zone : STRING]
    /\ x.cpp = "string" => /\ x.held.chars \in Seq(STRING)
                           /\ x.held.pattern = "BOOLEAN" => x.held.fields \in BOOLEAN

ASSUME MessageAssumption ==
    /\ Prepared \subseteq Seq(Descriptors(OriginalTypes))
    /\ \A ds \in Prepared : 1 .. Len(ds) \subseteq DOMAIN Offered
    /\ \A i \in DOMAIN Offered : \A x \in Offered[i] : Typed(x)
    /\ \A xs \in Structs : \A i \in 1 .. Len(xs) : Typed(xs[i])
    /\ Variants \subseteq Seq(CppTypes \union {"monostate"})
    /\ \A members \in Members : \A i \in 1 .. Len(members) :
          IF members[i].kind = "variant" THEN members[i].type \in Seq(CppTypes \union {"monostate"})
          ELSE members[i].type \in CppTypes

VARIABLES
    inDescriptors, inMessage,
    outRow,         \* <<>>: no row
    call, outcome,  \* the last call and what it answered
    bound           \* for each parameter, the C++ value last accepted

vars == <<inDescriptors, inMessage, outRow, call, outcome, bound>>

NoCall == [op |-> "none"]
Columns == 1 .. Len(inDescriptors)
NoRow == outRow = <<>>

(* processMetadata turns fixed text into varying, VARYING being STRING, and  *)
(* the extended types into those the library reads.                        *)
AdjustedType(original) ==
    CASE original \in {"TEXT", "VARYING"} -> "STRING"
      [] original = "TIME_TZ_EX" -> "TIME_TZ"
      [] original = "TIMESTAMP_TZ_EX" -> "TIMESTAMP_TZ"
      [] OTHER -> original

Prepare ==
    /\ inDescriptors = <<>>
    /\ \E ds \in Prepared :
          /\ inDescriptors' = [i \in 1 .. Len(ds) |-> [ds[i] EXCEPT !.type = AdjustedType(@)]]
          /\ inMessage' = [i \in 1 .. Len(ds) |-> NullField]
          /\ bound' = [i \in 1 .. Len(ds) |-> Null]
    /\ UNCHANGED <<outRow, call, outcome>>

ClearParameters ==
    /\ inDescriptors # <<>> /\ NoRow
    /\ inMessage' = [i \in Columns |-> NullField]
    /\ bound' = [i \in Columns |-> Null]
    /\ call' = NoCall /\ outcome' = Ok(0)
    /\ UNCHANGED <<inDescriptors, outRow>>

(* Numbers and texts do not reach DECFLOAT columns in this model. *)
Modelled(d, cpp) ==
    d.type \in {"DECFLOAT16", "DECFLOAT34"} =>
        cpp \notin DOMAIN IntTypeOf \union DOMAIN FloatTypeOf \union {"string"}

(* Mistaken: the field is marked as not null before the conversion. *)
SetParameterMarksFirst ==
    /\ inDescriptors # <<>> /\ NoRow
    /\ \E i \in Columns : \E x \in Offered[i] : \E o \in Written(inDescriptors[i], x) :
          /\ Modelled(inDescriptors[i], x.cpp)
          /\ inMessage' = [inMessage EXCEPT ![i] = IF o.ok THEN o.value ELSE Field(0)]
          /\ bound' = IF o.ok THEN [bound EXCEPT ![i] = x] ELSE bound
          /\ outcome' = IF o.ok THEN Ok(0) ELSE o
    /\ call' = [op |-> "set"]
    /\ UNCHANGED <<inDescriptors, outRow>>

(* setNull and every typed setter; an index out of range throws. *)
SetParameter ==
    /\ inDescriptors # <<>> /\ NoRow
    /\ call' = [op |-> "set"]
    /\ \/ \E i \in Columns : \E x \in Offered[i] : \E o \in Written(inDescriptors[i], x) :
             /\ Modelled(inDescriptors[i], x.cpp)
             /\ inMessage' = IF o.ok THEN [inMessage EXCEPT ![i] = o.value] ELSE inMessage
             /\ bound' = IF o.ok THEN [bound EXCEPT ![i] = x] ELSE bound
             /\ outcome' = IF o.ok THEN Ok(0) ELSE o
       \/ outcome' = Throw("out_of_range") /\ UNCHANGED <<inMessage, bound>>
    /\ UNCHANGED <<inDescriptors, outRow>>

(* The answers of the setters of a struct's members, were each called. *)
MemberAnswers(xs) == EachAnswered([i \in Columns |-> Written(inDescriptors[i], xs[i])])

(* Mistaken: goes on after a member that could not be bound. *)
SetStructGoesOn ==
    /\ inDescriptors # <<>> /\ NoRow
    /\ \E xs \in Structs :
          /\ Len(xs) = Len(inDescriptors) /\ \A i \in Columns : Modelled(inDescriptors[i], xs[i].cpp)
          /\ call' = [op |-> "setStruct", xs |-> xs]
          /\ \E os \in MemberAnswers(xs) :
                /\ inMessage' = [i \in Columns |-> IF os[i].ok THEN os[i].value ELSE inMessage[i]]
                /\ bound' = [i \in Columns |-> IF os[i].ok THEN xs[i] ELSE bound[i]]
                /\ outcome' = IF \A i \in Columns : os[i].ok THEN Ok(0) ELSE Throw("some")
    /\ UNCHANGED <<inDescriptors, outRow>>

(* set(struct) and set(tuple): one setter after the other, to the first error. *)
SetStruct ==
    /\ inDescriptors # <<>> /\ NoRow
    /\ \E xs \in Structs :
          /\ call' = [op |-> "setStruct", xs |-> xs]
          /\ \/ /\ Len(xs) # Len(inDescriptors)
                /\ outcome' = Throw("field_count") /\ UNCHANGED <<inMessage, bound>>
             \/ /\ Len(xs) = Len(inDescriptors) /\ \A i \in Columns : Modelled(inDescriptors[i], xs[i].cpp)
                /\ \E os \in MemberAnswers(xs) :
                      LET reached == {i \in Columns : \A j \in 1 .. i : os[j].ok}
                          failed == Cardinality(reached) + 1
                      IN  /\ inMessage' = [i \in Columns |-> IF i \in reached THEN os[i].value ELSE inMessage[i]]
                          /\ bound' = [i \in Columns |-> IF i \in reached THEN xs[i] ELSE bound[i]]
                          /\ outcome' = IF failed > Len(xs) THEN Ok(0) ELSE os[failed]
    /\ UNCHANGED <<inDescriptors, outRow>>

(* execute(): every output column is null until the server has answered. *)
Execute ==
    /\ inDescriptors # <<>> /\ NoRow
    /\ \/ outRow' = inMessage /\ outcome' = Ok(0)
       \/ outRow' = [i \in Columns |-> NullField] /\ outcome' = Throw("server")
    /\ call' = [op |-> "execute", ok |-> outcome'.ok]
    /\ UNCHANGED <<inDescriptors, inMessage, bound>>

Reading == ~NoRow /\ call.op = "execute"

GetColumn(cpps) ==
    /\ Reading
    /\ \E i \in Columns, cpp \in cpps :
          /\ Modelled(inDescriptors[i], cpp)
          /\ call' = [op |-> "get", row |-> call.ok, i |-> i, cpp |-> cpp]
          /\ outcome' \in Read(inDescriptors[i], outRow[i], cpp)
    /\ UNCHANGED <<inDescriptors, inMessage, outRow, bound>>

GetNumber == GetColumn(NumberTypes)
GetOther == GetColumn(CppTypes \ NumberTypes)

GetVariant ==
    /\ Reading
    /\ \E i \in Columns, V \in Variants :
          /\ \A k \in 1 .. Len(V) : Modelled(inDescriptors[i], V[k])
          /\ call' = [op |-> "getVariant", row |-> call.ok, i |-> i, V |-> V]
          /\ outcome' \in ReadVariant(inDescriptors[i], outRow[i], V)
    /\ UNCHANGED <<inDescriptors, inMessage, outRow, bound>>

GetStruct ==
    /\ Reading
    /\ \E members \in Members :
          /\ \A i \in Columns \intersect 1 .. Len(members) :
                members[i].kind # "variant" => Modelled(inDescriptors[i], members[i].type)
          /\ call' = [op |-> "getStruct", row |-> call.ok, members |-> members]
          /\ outcome' \in getStruct(inDescriptors, outRow, members)
    /\ UNCHANGED <<inDescriptors, inMessage, outRow, bound>>

Forget ==
    /\ ~NoRow /\ ~Reading
    /\ outRow' = <<>> /\ call' = NoCall /\ outcome' = Ok(0)
    /\ UNCHANGED <<inDescriptors, inMessage, bound>>

Init ==
    /\ inDescriptors = <<>> /\ inMessage = <<>> /\ bound = <<>>
    /\ outRow = <<>> /\ call = NoCall /\ outcome = Ok(0)

Next ==
    \/ Prepare \/ ClearParameters \/ SetParameter \/ SetStruct \/ Execute
    \/ GetNumber \/ GetOther \/ GetVariant \/ GetStruct \/ Forget

Spec == Init /\ [][Next]_vars
-----------------------------------------------------------------------------
(* The parameters have the descriptors' types, and no integer is stored    *)
(* that the column's width cannot hold, no string longer than the column.  *)
TypeOK ==
    /\ Len(inMessage) = Len(inDescriptors) /\ Len(bound) = Len(inDescriptors)
    /\ outRow = <<>> \/ Len(outRow) = Len(inDescriptors)
    /\ \A i \in Columns : LET d == inDescriptors[i] IN
          inMessage[i].null \/
             /\ d.type \in IntTypes => Fits(inMessage[i].data, d.type)
             /\ d.type = "STRING" => Len(inMessage[i].data.chars) <= d.length
             /\ d.type = "BOOLEAN" => inMessage[i].data \in BOOLEAN

(* A setter that throws has not touched the message: the value bound       *)
(* before is still bound, and a null is still null.                        *)
SetIsAtomic ==
    [][(call'.op = "set" /\ ~outcome'.ok) => UNCHANGED inMessage]_vars

(* A struct that cannot be bound leaves the members before the first bad   *)
(* one bound, as the separate setters would, and nothing behind it.        *)
StructStopsAtFailure ==
    [][(call'.op = "setStruct" /\ ~outcome'.ok) =>
          \/ UNCHANGED inMessage /\ Len(call'.xs) # Len(inDescriptors)
          \/ \E k \in Columns :
                /\ \A i \in Columns : i >= k => inMessage'[i] = inMessage[i]
                /\ \A i \in 1 .. k - 1 : Ok(inMessage'[i]) \in Written(inDescriptors[i], call'.xs[i])
                /\ \A o \in Written(inDescriptors[k], call'.xs[k]) : ~o.ok]_vars

(* The same number, whatever the two scales. *)
SameNumber(x, y) ==
    LET low == IF x.scale < y.scale THEN x.scale ELSE y.scale
    IN  x.held * PowerOfTen(x.scale - low) = y.held * PowerOfTen(y.scale - low)

(* What was bound is what the getter of the same type reads from the row   *)
(* the server echoes.  A number may be refused or, in a column that keeps  *)
(* fewer digits, rounded; anything else is returned as it was, but for the *)
(* sign of a time of day and what it has of a tick, which setTime drops,   *)
(* and for the dates before year 0, which the setters let through.         *)
ReadsBack ==
    (call.op = "get" /\ call.row /\ call.cpp = bound[call.i].cpp) =>
        LET d == inDescriptors[call.i]
            x == bound[call.i]
            backward == \/ x.cpp = "Date" /\ x.held.y < 0
                        \/ x.cpp = "Timestamp" /\ x.held.date.y < 0
                        \/ x.cpp = "TimestampTz" /\ x.held.utc.date.y < 0
            outOfPowers == /\ x.cpp \in DOMAIN FloatTypeOf /\ d.type \in IntTypes
                           /\ Abs(d.scale) > MaxExponent10[FloatTypeOf[x.cpp]]
            keepsAll == \/ d.type = "STRING"
                        \/ call.cpp \in DOMAIN FloatTypeOf /\ d.type = FloatTypeOf[call.cpp]
                        \/ call.cpp \notin DOMAIN FloatTypeOf \union {"string", "Time"}
                        \/ call.cpp = "Time" /\ x.held >= 0 /\ x.held % MicrosPerTick = 0
        IN  IF call.cpp \in DOMAIN IntTypeOf
            THEN (outcome.ok /\ d.type \in IntTypes /\ d.scale <= x.scale) => SameNumber(x, outcome.value)
            ELSE /\ call.cpp # "string" /\ ~backward /\ ~outOfPowers => outcome.ok
                 /\ keepsAll /\ ~backward => outcome.value.held = x.held

(* The data of a column as the server has them.  An opaque value is bound   *)
(* as it is, and setTime stores more than a day, so the message may hold   *)
(* others; a getter and a setter of text agree on these.  The text of a    *)
(* finite float keeps a fixed number of decimals and is left out:          *)
(* FloatTextSettles of Conversions is about these.                         *)
CalendarDays == encodeDate(1, 1, 1) .. encodeDate(LastYear, MonthsPerYear, DaysPerMonth)
TimesOfDay == 0 .. TICKS_PER_DAY - 1
OpaqueTimestamps == [date : CalendarDays, time : TimesOfDay]
OfColumn(d, data) ==
    CASE d.type \in IntTypes -> d.scale <= 0
      [] d.type \in FloatTypes -> data = NotFinite
      [] d.type = "DATE" -> data \in CalendarDays
      [] d.type = "TIME" -> data \in TimesOfDay
      [] d.type = "TIMESTAMP" -> data \in OpaqueTimestamps
      [] d.type = "TIME_TZ" -> data \in [utc : TimesOfDay, zone : DOMAIN Zones]
      [] d.type = "TIMESTAMP_TZ" -> /\ data \in [utc : OpaqueTimestamps, zone : DOMAIN Zones]
                                    /\ Zones[data.zone] % TicksPerMinute = 0
                                    /\ splitTicks(toLocal(joinTicks(data.utc), data.zone)).date \in CalendarDays
      [] OTHER -> TRUE

(* The text read from a column, bound to that column, stores the very same *)
(* data: getString and setString are each other's inverse, for every type  *)
(* but finite floats.                                                      *)
TextRebinds ==
    (call.op = "get" /\ call.cpp = "string" /\ outcome.ok) =>
        LET d == inDescriptors[call.i]
            field == outRow[call.i]
        IN  (field.null \/ OfColumn(d, field.data)) => Written(d, outcome.value) = {Ok(field)}

(* A parameter that was not bound, or bound to null, or whose binding      *)
(* failed, is read as null in every way there is to read it, and a struct  *)
(* with a member that cannot be null is not returned for it.               *)
NullStaysNull ==
    LET null(i) == ~call.row \/ IsNull(bound[i])
    IN  /\ call.op = "get" => (null(call.i) <=> (outcome.ok /\ IsNull(outcome.value)))
                              \/ (~outcome.ok /\ ~null(call.i))
        /\ (call.op = "getVariant" /\ outcome.ok) => (null(call.i) <=> IsNull(outcome.value))
        /\ (call.op = "getStruct" /\ outcome.ok) =>
              \A i \in Columns : /\ null(i) <=> IsNull(outcome.value[i])
                                 /\ null(i) => call.members[i].kind # "plain"

(* The alternatives that hold every value of a column. *)
Lossless(d) ==
    LET wide(t) == d.type \in IntTypes /\ NumberTypePriority[t] >= NumberTypePriority[d.type]
        scaled == {c \in {"ScaledInt16", "ScaledInt32", "ScaledInt64"} :
                      wide(IntTypeOf[c]) /\ d.scale # 0}
        plain == {c \in PlainIntegers : d.type = IntTypeOf[c] /\ d.scale = 0}
        floats == {c \in DOMAIN FloatTypeOf : d.type = FloatTypeOf[c]}
        opaque == {c \in DOMAIN OpaqueTypeOf : d.type = OpaqueTypeOf[c]}
    IN  scaled \union plain \union floats \union opaque \union
        (CASE d.type = "STRING" -> {"string"} [] d.type = "BOOLEAN" -> {"bool"} [] OTHER -> {})

(* If a variant has an alternative that holds the column without loss, its *)
(* value is the column's value and no rounded or reformatted copy of it,   *)
(* in whatever order the alternatives are listed.                          *)
VariantKeepsValue ==
    (call.op = "getVariant" /\ ~outRow[call.i].null
        /\ \E k \in 1 .. Len(call.V) : call.V[k] \in Lossless(inDescriptors[call.i])) =>
            LET d == inDescriptors[call.i]
                data == outRow[call.i].data
            IN  /\ outcome.ok
                /\ outcome.value.cpp \in Lossless(d)
                /\ d.type \in IntTypes => SameNumber(outcome.value, Value("column", data, d.scale))
=============================================================================

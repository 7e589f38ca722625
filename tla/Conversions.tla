---------------------------- MODULE Conversions ----------------------------
(***************************************************************************)
(* One call of a converter at a time: a request with its arguments, and    *)
(* the outcome the code returns for it.  The operators that answer are in  *)
(* Numeric, Calendar and StatusVector; this module says what their answers *)
(* must be.                                                                *)
(***************************************************************************)
EXTENDS Numeric, Calendar, StatusVector

CONSTANTS
    Scales,      \* the scales tried
    Floats,      \* floating-point numbers tried, in units
    Texts,       \* strings tried as numbers
    Years,       \* the years of the dates tried
    Instants,    \* durations tried as times of day, in microseconds
    TextTimes,   \* times of day as their texts give them
    Arguments,   \* the arguments of status vectors, each as its words
    MaxArguments,
    Replies      \* how many requests of one StatusWrapper are tried

(* Any year a date of C++ has; texts with as many digits as their pattern  *)
(* takes; arguments as the server writes them.                             *)
ASSUME ConversionsAssumption ==
    /\ Scales \subseteq Int /\ Texts \subseteq Seq(STRING)
    /\ Arguments \subseteq TextArguments \union CountedArguments \union OtherArguments
    /\ MaxArguments \in Nat /\ Replies \in Nat
    /\ Years \subseteq -MaxYear .. MaxYear /\ Instants \subseteq Int
    /\ \A t \in TextTimes :
          /\ t.h \in Nat /\ t.m \in Nat /\ t.s \in Nat
          /\ t.fraction \in Seq(0 .. 9) /\ Len(t.fraction) <= FractionDigits

VARIABLES request, outcome

vars == <<request, outcome>>

Idle == [op |-> "idle"]

Answer(r, outcomes) == request' = r /\ outcome' \in outcomes

-----------------------------------------------------------------------------
Rescale ==
    \E from, to \in IntTypes, fromScale, toScale \in Scales :
        \E v \in MinOf(from) .. MaxOf(from) :
            Answer([op |-> "rescale", v |-> v, fromScale |-> fromScale, to |-> to, toScale |-> toScale],
                   {IntToInt(v, from, fromScale, to, toScale)})

ReadFloat ==
    \E x \in Floats \union {NotFinite}, to \in IntTypes \ {"INT128"}, toScale \in Scales \ {-2} :
        Answer([op |-> "float", x |-> x, to |-> to, toScale |-> toScale], FloatToInt(x, to, toScale))

(* An integer column read as a floating-point number and written back. *)
ThroughFloat ==
    \E t \in {"INT16", "INT32"}, f \in FloatTypes, scale \in -3 .. 0 :
        \E v \in MinOf(t) .. MaxOf(t) :
            LET read == IntToFloat(v, scale, f)
            IN  Answer([op |-> "throughFloat", v |-> v, scale |-> scale, t |-> t, f |-> f],
                       IF read.ok THEN FloatToInt(FloatToFloat(read.value, "DOUBLE").value, t, scale) ELSE {read})

(* A floating-point column read as text and written back, and the result   *)
(* read and written once more.                                             *)
Rebound(s, f) ==
    LET read == DoubleFromChars(s) IN IF read.ok THEN FloatToFloat(read.value, f) ELSE read
ThroughFloatText ==
    \E f \in FloatTypes : \E x \in {y \in Floats : Nearest(y, f) = y} \union {NotFinite} :
        LET first == FloatToString(x)
            stored == Rebound(first, f)
            second == FloatToString(stored.value)
        IN  Answer([op |-> "floatText", x |-> x, first |-> first],
                   {[stored |-> stored, second |-> second, again |-> Rebound(second, f)]})

(* An integer column read as text and written back. *)
ThroughText ==
    \E t \in IntTypes \ {"INT128"}, scale \in Scales :
        \E v \in MinOf(t) .. MaxOf(t) :
            Answer([op |-> "throughText", v |-> v, scale |-> scale],
                   {StringToInt(NumberToString(v, scale), t, scale)})

ReadText ==
    \E s \in Texts, to \in {"INT16", "INT64"}, toScale \in {-1, 0} :
        Answer([op |-> "text", s |-> s, to |-> to, toScale |-> toScale], {StringToInt(s, to, toScale)})

-----------------------------------------------------------------------------
DateFields == [y : Years, m : 0 .. MonthsPerYear + 1, d : 0 .. DaysPerMonth + 1]
ZoneNames == DOMAIN Zones \union {"nowhere"}

Written(kind, v) ==
    LET stored == There(kind, v)
    IN  Answer([op |-> "calendar", kind |-> kind, v |-> v],
               {IF stored.ok THEN Back(kind, stored.value) ELSE stored})

WriteDate == \E v \in DateFields : Written("date", v)
WriteTime == \E v \in Instants : Written("time", v)
WriteTimeTz == \E v \in [utc : Instants, zone : ZoneNames] : Written("timeTz", v)
WriteTimestamp == \E v \in [date : DateFields, time : Instants] : Written("timestamp", v)
WriteTimestampTz ==
    \E d \in DateFields, t \in Instants, z \in ZoneNames :
        Written("timestampTz", [utc |-> [date |-> d, time |-> t], zone |-> z])

ReadCalendarText ==
    \E kind \in {"date", "time", "timeTz", "timestamp", "timestampTz"}, d \in DateFields, t \in TextTimes, z \in ZoneNames :
        /\ FourDigits(d.y)
        /\ \E s \in {[matches |-> TRUE, date |-> d, time |-> t, zone |-> z], NoMatch} :
            LET stored == Parsed(kind, s)
            IN  Answer([op |-> "calendarText", kind |-> kind, s |-> s],
                       {IF stored.ok THEN Fine(Printed(kind, stored.value)) ELSE stored})

-----------------------------------------------------------------------------
(* A status vector thrown, and copied or moved on the way to its handler:  *)
(* the last of the exceptions, the others are gone.                        *)
Hops == UNION {[1 .. n -> {"copy", "move"}] : n \in 0 .. 2}
ThrowVector ==
    \E n \in 1 .. MaxArguments : \E args \in [1 .. n -> Arguments], hops \in Hops :
        LET thrown == DatabaseException(FlattenSeq(args) \o <<End>>, 0)
            at[k \in 0 .. Len(hops)] ==
                IF k = 0 THEN thrown
                ELSE IF hops[k] = "copy" THEN CopyOf(at[k - 1], k) ELSE MoveOf(at[k - 1])
        IN  Answer([op |-> "throw", args |-> args], {at[Len(hops)]})

(* The vectors the library's own converters and setters throw: their first *)
(* word is the error's code, where the kind of an argument should be.      *)
OwnVectors ==
    {<<<<"code", c>>, End>> : c \in {"invalid_date_val", "invalid_time_val", "invalid_timestamp_val"}}
    \union {<<<<"code", "arith_except">>, <<"code", c>>, End>> : c \in {"numeric_out_of_range", "string_truncation"}}
    \union {<<<<"code", "convert_error">>, <<"text", <<"a">>>>, End>>}

(* What lies in memory behind such a vector is unknown: here nothing, or   *)
(* one argument, and then an end.                                          *)
ThrowOwn ==
    \E own \in OwnVectors, behind \in {<<>>} \union Arguments :
        Answer([op |-> "throwOwn", own |-> own], {DatabaseException(own \o behind \o <<End>>, 0)})

UseWrapper ==
    \E n \in 1 .. Replies : \E answers \in [1 .. n -> {"fine", "warning", "error A", "error B"}] :
        Answer([op |-> "wrapper", answers |-> answers], {Requests(answers)})

-----------------------------------------------------------------------------
Return == request # Idle /\ request' = Idle /\ outcome' = Throw("none")

Init == request = Idle /\ outcome = Throw("none")

Call ==
    \/ Rescale \/ ReadFloat \/ ThroughFloat \/ ThroughFloatText \/ ThroughText \/ ReadText
    \/ WriteDate \/ WriteTime \/ WriteTimeTz \/ WriteTimestamp \/ WriteTimestampTz \/ ReadCalendarText
    \/ ThrowVector \/ ThrowOwn \/ UseWrapper

Next == (request = Idle /\ Call) \/ Return

Spec == Init /\ [][Next]_vars
-----------------------------------------------------------------------------
(* The integer nearest to v / 10^n, ties away from zero. *)
NearestInt(v, n) == SignOf(v) * ((2 * Abs(v) + PowerOfTen(n)) \div (2 * PowerOfTen(n)))

(* A number brought from one scale to another is the nearest one the new   *)
(* scale has, ties away from zero, and it is refused exactly when that     *)
(* does not fit the target type: never wrapped, never cut.                 *)
RescaleIsNearest ==
    request.op = "rescale" =>
        LET shift == request.toScale - request.fromScale
            exact == IF shift > 0 THEN NearestInt(request.v, shift) ELSE request.v * PowerOfTen(-shift)
        IN  outcome = IF Fits(exact, request.to) THEN Ok(exact) ELSE Throw("numeric_out_of_range")

(* A floating-point number becomes an integer at most a half and the       *)
(* errors of two roundings away, and is refused only if it lies as far     *)
(* outside the target's range: the half that is added before the cast      *)
(* never carries a number past a neighbour, on either side of zero.  A     *)
(* number that rounds to the limit of INT64, which no double equals,       *)
(* passes both comparisons and its cast is undefined: nothing is claimed.  *)
CastIsNearest ==
    (request.op = "float" /\ request.x # NotFinite) =>
        LET scale == request.toScale
            num == request.x * (IF scale < 0 THEN PowerOfTen(-scale) ELSE 1)
            den == One * (IF scale > 0 THEN PowerOfTen(scale) ELSE 1)
            slack == (4 * den * Epsilon) \div One + Abs(num) \div 2 ^ (Precision["DOUBLE"] - 2)
            castOverflows == /\ MaxOf(request.to) > 2 ^ Precision["DOUBLE"]
                             /\ 2 * num + slack >= den * 2 * MaxOf(request.to)
        IN  castOverflows \/
            IF outcome.ok
            THEN 2 * Abs(outcome.value * den - num) <= den + slack
            ELSE \/ 2 * num > den * (2 * MaxOf(request.to) + 1) - slack
                 \/ 2 * num < den * (2 * MinOf(request.to) - 1) + slack

(* An integer column read as a float or a double and written back is the   *)
(* same integer, as long as the type holds it: neither the division by the *)
(* power of ten nor the rounding on the way back moves it.  It is refused  *)
(* only if the scale is past the type's powers of ten.                     *)
IntegersKept ==
    (request.op = "throughFloat" /\ (request.t = "INT16" \/ request.f = "DOUBLE")) =>
        IF -request.scale > MaxExponent10[request.f] THEN ~outcome.ok ELSE outcome = Ok(request.v)

(* Floating-point numbers stand for the integers nearest to them, in both  *)
(* directions.                                                             *)
FloatIsNearest == CastIsNearest /\ IntegersKept

(* A text is read as the decimal it writes, to the nearest at the column's *)
(* scale.  It is refused exactly if it is no decimal, if its digits are    *)
(* more than 64 bits hold, or if the value is out of the column's range.   *)
(* A point may precede the sign: the code takes it out and sees no digit   *)
(* after it.                                                               *)
ReadIsItsDecimal ==
    request.op = "text" =>
        LET s == request.s
            points == {i \in 1 .. Len(s) : s[i] = "."}
            minus == {i \in 1 .. Len(s) : s[i] = "-"}
            digits == {i \in 1 .. Len(s) : IsDigit(s[i])}
            decimal == /\ points \union minus \union digits = 1 .. Len(s) /\ digits # {}
                       /\ \A p, q \in points : p = q
                       /\ \A m \in minus : \A i \in digits \union (minus \ {m}) : m < i
            behind(i) == Cardinality({j \in digits : i < j})
            weight[i \in 0 .. Len(s)] ==
                IF i = 0 THEN 0
                ELSE weight[i - 1] + (IF i \in digits THEN DigitValue(s[i]) * PowerOfTen(behind(i)) ELSE 0)
            number == (IF minus = {} THEN 1 ELSE -1) * weight[Len(s)]
            places == IF points = {} \/ \E p \in points, m \in minus : p < m THEN 0
                      ELSE behind(CHOOSE p \in points : TRUE)
            up == places + request.toScale
            exact == IF up > 0 THEN NearestInt(number, up) ELSE number * PowerOfTen(-up)
        IN  IF decimal /\ Fits(number, "INT64") /\ Fits(exact, request.to)
            THEN outcome = Ok(exact) ELSE ~outcome.ok

(* The text getString prints of an integer column is read back as the same *)
(* integer: sign, leading zeros, the point and the limits survive.         *)
PrintedIsRead ==
    (request.op = "throughText" /\ request.scale <= 0) => outcome = Ok(request.v)

(* Texts stand for the numbers they write, in both directions. *)
TextMeansItsDecimal == ReadIsItsDecimal /\ PrintedIsRead

(* The text getString prints of a floating-point column keeps a fixed      *)
(* number of decimals, so binding it to the column may store another       *)
(* number: at most one of the last decimals away, and the same one if      *)
(* those decimals write it.  Read and bound again, it stays: the text and  *)
(* the number do not drift.  What is not finite stays so.  The sign of -0, *)
(* which the text keeps, is left out.                                      *)
FloatTextSettles ==
    request.op = "floatText" =>
        LET x == request.x
            y == outcome.stored.value
            decimals == PowerOfTen(FloatDecimals)
        IN  /\ outcome.stored.ok
            /\ outcome.again = outcome.stored
            /\ y # 0 => outcome.second = request.first
            /\ (x = NotFinite) = (y = NotFinite)
            /\ x # NotFinite => /\ Abs(y - x) * decimals <= One
                                /\ (x * decimals) % One = 0 => y = x

(* What a setter accepts of a calendar value, the getter gives back: a     *)
(* part of a tick, a day's overflow or a sign is refused and not dropped.  *)
(* And a valid value is accepted.  setTime takes any duration: it answers  *)
(* for the times of day only.  A date before year 0 is not refused as year *)
(* 0 is, the test being of an unsigned number, and what the client library *)
(* makes of it is unknown: no claim is made of what is read back.          *)
CalendarValueKept ==
    request.op = "calendar" =>
        LET v == request.v
            badDate(d) == ~DateOk(d) \/ d.y = 0
            badTime(t) == t < 0 \/ t >= MicrosPerDay \/ t % MicrosPerTick # 0
            backward(d) == d.y < 0 /\ ~badDate(d)
            kept == outcome.value = v
        IN  CASE request.kind = "date" ->
                   IF outcome.ok THEN kept \/ backward(v) ELSE badDate(v)
              [] request.kind = "time" ->
                   outcome.ok /\ (kept \/ v < 0 \/ v % MicrosPerTick # 0)
              [] request.kind = "timeTz" ->
                   IF outcome.ok THEN kept ELSE badTime(v.utc) \/ ~knownZone(v.zone)
              [] request.kind = "timestamp" ->
                   IF outcome.ok THEN kept \/ backward(v.date)
                   ELSE badDate(v.date) \/ badTime(v.time) \/ backward(v.date)
              [] OTHER ->
                   IF outcome.ok THEN kept \/ backward(v.utc.date)
                   ELSE badDate(v.utc.date) \/ badTime(v.utc.time) \/ ~knownZone(v.zone)

(* A text with its date, time and zone goes through Firebird's values, in  *)
(* UTC, and comes back with the same wall clock: the fraction is padded to *)
(* its full width, and a time that crosses midnight in UTC returns.        *)
(* Nothing is claimed of a timestamp of year 0 with a zone: in UTC it may  *)
(* lie before the client library's calendar.                               *)
CalendarTextKept ==
    (request.op = "calendarText" /\ outcome.ok /\ ~(request.kind = "timestampTz" /\ request.s.date.y = 0)) =>
        LET s == request.s
            back == outcome.value
        IN  /\ "date" \in DOMAIN back => back.date = s.date
            /\ "zone" \in DOMAIN back => back.zone = s.zone
            /\ "time" \in DOMAIN back =>
                  /\ <<back.time.h, back.time.m, back.time.s>> = <<s.time.h, s.time.m, s.time.s>>
                  /\ Fraction(back.time.fraction) = Fraction(s.time.fraction)
                  /\ \A i \in 1 .. Len(s.time.fraction) : back.time.fraction[i] = s.time.fraction[i]

(* What goes in as a calendar value or its text comes back.                *)
CalendarKept == CalendarValueKept /\ CalendarTextKept

(* What the server's arguments say, in an exception with the words and     *)
(* texts of e: each text is in a buffer of the exception's own, under the  *)
(* argument it belongs to, and a counted text ends where its count says.   *)
(* The SQLSTATE and the error code are the first of the vector.            *)
Says(e, args) ==
    LET counted(a) == a[1] = <<"arg", "cstring">>
        meant(a) == IF counted(a) THEN <<<<"arg", "string">>, <<"text", SubSeq(a[3][2], 1, a[2][2])>>>> ELSE a
        read(word) == IF word[1] = "own"
                      THEN IF word[2] = e.buffer THEN <<"text", e.strings[word[3]]>> ELSE <<"freed", 0>>
                      ELSE word
        vector == FlattenSeq([i \in 1 .. Len(args) |-> meant(args[i])]) \o <<End>>
        states == {i \in 1 .. Len(args) : args[i][1][2] = "sql_state"}
    IN  /\ Len(e.words) = Len(vector)
        /\ \A i \in 1 .. Len(vector) : read(e.words[i]) = vector[i]
        /\ e.sqlState = IF states = {} THEN <<>> ELSE args[Min(states)][2][2]
        /\ getErrorCode(e) = IF args[1][1][2] = "gds" THEN args[1][2][2] ELSE 0

(* The exception a handler gets says what the server's vector said, word   *)
(* by word, however often it was copied or moved on the way.               *)
VectorKept == request.op = "throw" => Says(outcome, request.args)

(* A request through a wrapper throws if and only if the server answered   *)
(* this request with errors, and it throws these: neither an error nor a   *)
(* warning of a request before is left over.                               *)
AnswersKept ==
    request.op = "wrapper" =>
        outcome = [i \in 1 .. Len(request.answers) |->
                      IF request.answers[i] \in {"fine", "warning"} THEN <<>> ELSE <<request.answers[i]>>]

(* What the server answers reaches the handler of the call it belongs to,  *)
(* unchanged.                                                              *)
ServerErrorsKept == VectorKept /\ AnswersKept

(* test/Exception.cpp: the vector of an exception starts with an argument  *)
(* of kind gds and has its end where the vector thrown has it.             *)
OwnErrorsReported ==
    request.op = "throwOwn" =>
        /\ outcome.words[1] = <<"arg", "gds">>
        /\ Len(outcome.words) = Len(request.own)
=============================================================================

------------------------------ MODULE Numeric ------------------------------
(***************************************************************************)
(* impl::NumericConverter: conversions between scaled integers, binary     *)
(* floating-point numbers and decimal text.  Every operator returns an     *)
(* outcome: the value, or the error the code throws.                       *)
(*                                                                         *)
(* The widths are parameters.  A floating-point number is an integer count *)
(* of units, One units to 1.0, that fits Precision[type] significant bits; *)
(* NotFinite stands for the infinities and NaN, which this code never      *)
(* tells apart.                                                            *)
(***************************************************************************)
EXTENDS Powers, Sequences, FiniteSetsExt

CONSTANTS
    Limit,      \* [integer type -> 2^(width - 1)]: it holds -Limit to Limit - 1
    Precision,  \* [binary floating type -> bits of its significand]
    MaxExponent10,  \* [binary floating type -> its largest power of ten]
    FloatDecimals,  \* 6 in the code: the digits std::to_string prints behind the point
    One,        \* units in 1.0, a power of two
    Epsilon     \* conversionEpsilon<double>(), in units

IntTypes == {"INT16", "INT32", "INT64", "INT128"}
FloatTypes == {"FLOAT", "DOUBLE"}

ASSUME NumericAssumption ==
    /\ Limit \in [IntTypes -> Nat \ {0}]
    /\ Limit["INT16"] < Limit["INT32"] /\ Limit["INT32"] < Limit["INT64"]
    /\ Limit["INT64"] < Limit["INT128"]
    /\ Precision \in [FloatTypes -> Nat \ {0}]
    /\ MaxExponent10 \in [FloatTypes -> Nat] /\ FloatDecimals \in Nat \ {0}
    /\ One \in Nat \ {0} /\ Epsilon \in Nat

Ok(v) == [ok |-> TRUE, value |-> v]
Throw(e) == [ok |-> FALSE, error |-> e]

MinOf(t) == -Limit[t]
MaxOf(t) == Limit[t] - 1
Fits(v, t) == v \in MinOf(t) .. MaxOf(t)

Abs(x) == IF x < 0 THEN -x ELSE x
SignOf(x) == IF x < 0 THEN -1 ELSE 1
Quot(a, b) == SignOf(a) * (Abs(a) \div b)      \* C++ division truncates
Rem(a, b) == a - b * Quot(a, b)

-----------------------------------------------------------------------------
(* Integers. *)

(* Mistaken: the remainder of the whole division decides, not its first digit. *)
AdjustScaleAnyDigit(val, scale, min, max) ==
    IF scale > 0
    THEN LET fraction == Rem(val, 10)
         IN  Ok(Quot(val, PowerOfTen(scale)) + (IF fraction > 4 THEN 1 ELSE IF fraction < -4 THEN -1 ELSE 0))
    ELSE LET up == val * PowerOfTen(-scale)
         IN  IF min <= up /\ up <= max THEN Ok(up) ELSE Throw("numeric_out_of_range")

(* Scaling down drops digits and lets the last digit dropped round away    *)
(* from zero; scaling up multiplies by ten as long as the limits allow.    *)
AdjustScale(val, scale, min, max) ==
    LET step[n \in 0 .. Abs(scale)] ==
            IF n = 0 THEN Ok(val)
            ELSE IF ~step[n - 1].ok THEN step[n - 1]
            ELSE LET v == step[n - 1].value
                 IN  IF v > Quot(max, 10) \/ v < Quot(min, 10) THEN Throw("numeric_out_of_range")
                     ELSE Ok(v * 10)
        fraction == Rem(Quot(val, PowerOfTen(scale - 1)), 10)
        quotient == Quot(val, PowerOfTen(scale))
    IN  IF scale > 0
        THEN Ok(quotient + (IF fraction > 4 THEN 1 ELSE IF fraction < -4 THEN -1 ELSE 0))
        ELSE step[Abs(scale)]

(* NumberTypePriority and GreaterNumberType: the wider of two types. *)
NumberTypePriority == [INT16 |-> 1, INT32 |-> 2, INT64 |-> 3, INT128 |-> 4]
GreaterNumberType(a, b) == IF NumberTypePriority[a] >= NumberTypePriority[b] THEN a ELSE b

Cast(v, t) == MinOf(t) + ((v - MinOf(t)) % (2 * Limit[t]))

(* numberToNumber<To>(ScaledNumber<From>, toScale) for two integer types:  *)
(* the limits of the target are cast to the type the conversion runs in.   *)
IntToInt(v, from, fromScale, to, toScale) ==
    LET compute == GreaterNumberType(from, to)
        min == Cast(MinOf(to), compute)
        max == Cast(MaxOf(to), compute)
        r == IF toScale = fromScale THEN Ok(v) ELSE AdjustScale(v, toScale - fromScale, min, max)
    IN  IF r.ok /\ (r.value < min \/ r.value > max) THEN Throw("numeric_out_of_range") ELSE r

-----------------------------------------------------------------------------
(* Floating point. *)

NotFinite == 2 ^ 28

(* The number of type t nearest to num / den, ties to even: the smallest   *)
(* spacing is one unit.                                                    *)
NearestQuotient(num, den, t) ==
    LET spacing[k \in 0 .. 28] ==     \* the first power of two that leaves Precision[t] bits
            IF k = 28 \/ Abs(num) < den * 2 ^ (k + Precision[t]) THEN 2 ^ k ELSE spacing[k + 1]
        ulp == spacing[0] * den
        q == Abs(num) \div ulp
        r == Abs(num) % ulp
        up == 2 * r > ulp \/ (2 * r = ulp /\ q % 2 = 1)
    IN  SignOf(num) * (q + (IF up THEN 1 ELSE 0)) * spacing[0]
Nearest(x, t) == NearestQuotient(x, 1, t)

(* Mistaken: half a unit upwards, whatever the sign. *)
AwayFromZeroUp(x) == x + One \div 2 + Epsilon

(* Half a unit and a rounding error outwards, so that the cast rounds. *)
AwayFromZero(x) == IF x > 0 THEN x + One \div 2 + Epsilon ELSE x - One \div 2 - Epsilon

(* numberToNumber<To>(From, toScale), From floating and To integer.  A set *)
(* of outcomes: casting a value the target cannot hold is undefined.       *)
FloatToInt(x, to, toScale) ==
    LET scaled == IF toScale > 0 THEN NearestQuotient(x, PowerOfTen(toScale), "DOUBLE")
                  ELSE IF toScale < 0 THEN Nearest(x * PowerOfTen(-toScale), "DOUBLE") ELSE x
        value == Nearest(AwayFromZero(scaled), "DOUBLE")
        minLimit == Nearest(MinOf(to) * One, "DOUBLE")
        maxLimit == Nearest(MaxOf(to) * One, "DOUBLE")
    IN  CASE x = NotFinite -> {Throw("numeric_out_of_range")}
          [] value < minLimit -> {IF value > Nearest(minLimit - One, "DOUBLE") THEN Ok(MinOf(to))
                                  ELSE Throw("numeric_out_of_range")}
          [] value > maxLimit -> {IF value < Nearest(maxLimit + One, "DOUBLE") THEN Ok(MaxOf(to))
                                  ELSE Throw("numeric_out_of_range")}
          [] OTHER -> IF Fits(Quot(value, One), to) THEN {Ok(Quot(value, One))}
                      ELSE {Ok(v) : v \in MinOf(to) .. MaxOf(to)}

(* numberToNumber<To>(ScaledNumber<From>), From integer and To floating. *)
IntToFloat(v, scale, to) ==
    LET value == Nearest(v * One, "DOUBLE")
        scaled == IF scale > 0 THEN Nearest(value * PowerOfTen(scale), "DOUBLE")
                  ELSE NearestQuotient(value, PowerOfTen(-scale), "DOUBLE")
    IN  IF Abs(scale) > MaxExponent10[to] THEN Throw("numeric_out_of_range") ELSE Ok(Nearest(scaled, to))

(* numberToNumber<To>(From) for two floating types. *)
FloatToFloat(x, to) == Ok(IF x = NotFinite THEN NotFinite ELSE Nearest(x, to))

-----------------------------------------------------------------------------
(* Decimal text: a sequence of one-character strings. *)

Digits == <<"0", "1", "2", "3", "4", "5", "6", "7", "8", "9">>
IsDigit(c) == \E i \in 1 .. 10 : Digits[i] = c
DigitValue(c) == (CHOOSE i \in 1 .. 10 : Digits[i] = c) - 1
Zeros(n) == [i \in 1 .. n |-> "0"]

DigitsOf(n) ==
    LET len == CHOOSE k \in 1 .. n + 1 : n < PowerOfTen(k) /\ (k = 1 \/ n >= PowerOfTen(k - 1))
    IN  [i \in 1 .. len |-> Digits[((n \div PowerOfTen(len - i)) % 10) + 1]]

(* Mistaken: the zeros between the point and the first digit are left out. *)
PlacePointBare(digits, places) ==
    LET whole == Len(digits) - places
    IN  IF whole <= 0 THEN <<"0", ".">> \o digits
        ELSE SubSeq(digits, 1, whole) \o <<".">> \o SubSeq(digits, whole + 1, Len(digits))

PlacePoint(digits, places) ==
    LET whole == Len(digits) - places
    IN  IF whole <= 0 THEN <<"0", ".">> \o Zeros(-whole) \o digits
        ELSE SubSeq(digits, 1, whole) \o <<".">> \o SubSeq(digits, whole + 1, Len(digits))

NumberToString(v, scale) ==
    LET digits == DigitsOf(Abs(v))
    IN  (IF v < 0 THEN <<"-">> ELSE <<>>) \o
        (IF scale >= 0 THEN digits \o Zeros(scale) ELSE PlacePoint(digits, -scale))

(* std::from_chars over the whole of a string: an optional minus sign and  *)
(* at least one digit, within the range of the target.                     *)
FromChars(s, t) ==
    LET first == IF s # <<>> /\ s[1] = "-" THEN 2 ELSE 1
        total[i \in 0 .. Len(s)] == IF i < first THEN 0 ELSE total[i - 1] * 10 + DigitValue(s[i])
        number == (IF first = 2 THEN -1 ELSE 1) * total[Len(s)]
    IN  IF Len(s) >= first /\ (\A i \in first .. Len(s) : IsDigit(s[i])) /\ Fits(number, t)
        THEN Ok(number) ELSE Throw("convert_error")

(* The last dot of a text, and the scale that the digits behind it give. *)
LastDot(s) ==
    LET dots == {i \in 1 .. Len(s) : s[i] = "."}
    IN  IF dots = {} THEN 0 ELSE Max(dots)

WithoutDot(s) == SubSeq(s, 1, LastDot(s) - 1) \o SubSeq(s, LastDot(s) + 1, Len(s))

(* Mistaken: counts what is in front of the point. *)
ScaleOfTextFront(s) == IF LastDot(s) = 0 THEN 0 ELSE 1 - LastDot(s)

ScaleOfText(s) ==
    LET places[i \in 1 .. Len(s) + 1] ==
            IF i > Len(s) \/ ~IsDigit(s[i]) THEN 0 ELSE 1 + places[i + 1]
    IN  IF LastDot(s) = 0 THEN 0 ELSE -places[LastDot(s) + 1]

(* The INT16, INT32 and INT64 cases of Statement::setString: the last dot  *)
(* is taken out, the digits that follow it are the scale, and the number   *)
(* that is left is brought to the scale of the descriptor.                 *)
StringToInt(s, to, toScale) ==
    LET parsed == FromChars(WithoutDot(s), "INT64")
        wide == IF parsed.ok THEN IntToInt(parsed.value, "INT64", ScaleOfText(s), "INT64", toScale) ELSE parsed
    IN  IF wide.ok THEN IntToInt(wide.value, "INT64", toScale, to, toScale) ELSE wide

-----------------------------------------------------------------------------
(* Floating-point numbers as text. *)

NotFiniteText == <<"NaN">>      \* one word for NaN, Infinity and -Infinity

Decimals(sign, count) ==
    (IF sign < 0 THEN <<"-">> ELSE <<>>) \o PlacePoint(DigitsOf(count), FloatDecimals)

(* Mistaken: the digits that are not printed are cut off. *)
FloatToStringCut(x) ==
    IF x = NotFinite THEN NotFiniteText
    ELSE Decimals(x, (Abs(x) * PowerOfTen(FloatDecimals)) \div One)

(* numberToString(From): std::to_string rounds to FloatDecimals decimals,  *)
(* ties to even.                                                           *)
FloatToString(x) ==
    LET scaled == Abs(x) * PowerOfTen(FloatDecimals)
        q == scaled \div One
        twice == 2 * (scaled % One)
    IN  IF x = NotFinite THEN NotFiniteText
        ELSE Decimals(x, q + (IF twice > One \/ (twice = One /\ q % 2 = 1) THEN 1 ELSE 0))

(* std::from_chars of a double: the double nearest to the decimal.  Texts  *)
(* with exponents are left out, and -0 is 0.                               *)
DoubleFromChars(s) ==
    LET first == IF s # <<>> /\ s[1] = "-" THEN 2 ELSE 1
        digits == SubSeq(WithoutDot(s), first, Len(WithoutDot(s)))
        number[i \in 0 .. Len(digits)] == IF i = 0 THEN 0 ELSE number[i - 1] * 10 + DigitValue(digits[i])
        places == IF LastDot(s) = 0 THEN 0 ELSE Len(s) - LastDot(s)
    IN  IF s = NotFiniteText THEN Ok(NotFinite)
        ELSE IF digits # <<>> /\ (\A i \in 1 .. Len(digits) : IsDigit(digits[i]))
        THEN Ok((IF first = 2 THEN -1 ELSE 1) * NearestQuotient(number[Len(digits)] * One, PowerOfTen(places), "DOUBLE"))
        ELSE Throw("convert_error")
=============================================================================

--------------------------- MODULE ConverterProofs ---------------------------
(***************************************************************************)
(* What the operators of Numeric and Calendar answer, for integer types of *)
(* any widths, any numbers, scales and texts, and a calendar and zones of  *)
(* any sizes.                                                              *)
(***************************************************************************)
EXTENDS Numeric, Calendar, DataLemmas

(* The recursive function behind a power of ten. *)
LEMMA PowerUnfolds ==
  ASSUME NEW n \in Nat
  PROVE  \E f \in [0 .. n -> Nat \ {0}] :
            /\ f[0] = 1 /\ \A i \in 1 .. n : f[i] = 10 * f[i - 1]
            /\ PowerOfTen(n) = f[n]
<1> DEFINE V == Nat \ {0}
           Loop(g) == [i \in 0 .. n |-> IF i = 0 THEN 1 ELSE 10 * g[i - 1]]
           step == [p \in V \X V |-> 10 * p[2]]
           power == CHOOSE g : g = Loop(g)
<1>1. StepsWithin(V, step) /\ 1 \in V
  <2>1. ASSUME NEW i \in Nat \ {0}, NEW v \in V PROVE step[<<i, v>>] = 10 * v /\ 10 * v \in V
    OBVIOUS
  <2> QED BY <2>1 DEF StepsWithin
<1>2. PICK f \in [0 .. n -> V] : Unfolds(f, 1, step, n)
  <2> HIDE DEF step, V
  <2> QED BY <1>1, RecursionExists
<1>3. f[0] = 1 /\ \A i \in 1 .. n : f[i] = 10 * f[i - 1]
  <2>1. ASSUME NEW i \in 1 .. n PROVE f[i] = 10 * f[i - 1]
    <3>1. i \in V /\ f[i - 1] \in V /\ f[i] = step[<<i, f[i - 1]>>]
      BY <1>2 DEF Unfolds
    <3> QED BY <3>1
  <2> QED BY <1>2, <2>1 DEF Unfolds
<1>4. f = Loop(f)
  BY <1>2, <1>3
<1>5. power = Loop(power)
  <2> HIDE DEF Loop
  <2> QED BY <1>4
<1> HIDE DEF power
<1>6. power[0] = 1 /\ \A i \in 1 .. n : power[i] = 10 * power[i - 1]
  <2>1. 0 \in 0 .. n /\ \A i \in 1 .. n : i \in 0 .. n /\ i # 0
    OBVIOUS
  <2> QED BY <1>5, <2>1
<1>7. GoTogether(power, f, n)
  BY <1>3, <1>6 DEF GoTogether
<1>8. power[n] = f[n]
  BY <1>7, RecursionAgrees
<1>9. PowerOfTen(n) = f[n]
  BY <1>8 DEF PowerOfTen, power
<1> QED BY <1>2, <1>3, <1>9

(* A power of ten is a positive number. *)
LEMMA PowerType ==
  ASSUME NEW n \in Nat
  PROVE  PowerOfTen(n) \in Nat \ {0}
<1>1. PICK f \in [0 .. n -> Nat \ {0}] : PowerOfTen(n) = f[n]
  BY PowerUnfolds
<1> QED BY <1>1

(* The loop of AdjustScale that multiplies: one round of it, and the       *)
(* recursive function it is.                                               *)
WholeOrThrown == {Ok(v) : v \in Int} \union {Throw("numeric_out_of_range")}
TenTimes(r, min, max) ==
    IF ~r.ok THEN r
    ELSE IF r.value > Quot(max, 10) \/ r.value < Quot(min, 10)
         THEN Throw("numeric_out_of_range") ELSE Ok(r.value * 10)

LEMMA AdjustScaleUnfolds ==
  ASSUME NEW val \in Int, NEW scale \in Int, scale <= 0, NEW min \in Int, NEW max \in Int,
         NEW h, h[0] = Ok(val), \A i \in 1 .. Abs(scale) : h[i] = TenTimes(h[i - 1], min, max)
  PROVE  AdjustScale(val, scale, min, max) = h[Abs(scale)]
<1> DEFINE n == Abs(scale)
           V == WholeOrThrown
           After(r) == TenTimes(r, min, max)
           Loop(g) == [i \in 0 .. n |-> IF i = 0 THEN Ok(val) ELSE After(g[i - 1])]
           step == [p \in (Nat \ {0}) \X V |-> After(p[2])]
           steps == CHOOSE g : g = Loop(g)
<1>1. n \in Nat
  BY DEF Abs
<1>2. \A r \in V : After(r) \in V
  <2>1. \A v \in Int : Ok(v).ok /\ Ok(v).value = v /\ v * 10 \in Int
    BY DEF Ok
  <2>2. ~Throw("numeric_out_of_range").ok
    BY DEF Throw
  <2> QED BY <2>1, <2>2 DEF TenTimes, WholeOrThrown
<1>3. StepsWithin(V, step) /\ Ok(val) \in V
  <2>1. ASSUME NEW i \in Nat \ {0}, NEW v \in V PROVE step[<<i, v>>] = After(v)
    <3> HIDE DEF After, V
    <3> QED OBVIOUS
  <2>2. Ok(val) \in V
    BY DEF WholeOrThrown
  <2> HIDE DEF After, step
  <2> QED BY <1>2, <2>1, <2>2 DEF StepsWithin
<1>4. PICK f \in [0 .. n -> V] : Unfolds(f, Ok(val), step, n)
  <2> HIDE DEF step, V, n
  <2> QED BY <1>1, <1>3, RecursionExists
<1>5. f[0] = Ok(val) /\ \A i \in 1 .. n : f[i] = After(f[i - 1])
  <2>1. ASSUME NEW i \in 1 .. n PROVE f[i] = After(f[i - 1])
    <3> HIDE DEF After, V, n
    <3>1. i \in Nat \ {0} /\ i - 1 \in 0 .. n
      BY <1>1
    <3>2. f[i - 1] \in V /\ f[i] = step[<<i, f[i - 1]>>]
      BY <1>4, <3>1 DEF Unfolds
    <3> QED BY <3>1, <3>2
  <2> QED BY <1>4, <2>1 DEF Unfolds
<1>6. f = Loop(f)
  <2> HIDE DEF After, V, n
  <2> QED BY <1>4, <1>5, <1>1
<1>7. steps = Loop(steps)
  <2> HIDE DEF Loop
  <2> QED BY <1>6
<1>8. steps[n] = h[n]
  <2> HIDE DEF steps, V
  <2>1. 0 \in 0 .. n /\ \A i \in 1 .. n : i \in 0 .. n /\ i # 0
    BY <1>1
  <2>2. steps[0] = Ok(val) /\ \A i \in 1 .. n : steps[i] = After(steps[i - 1])
    <3> HIDE DEF After, n
    <3> QED BY <1>7, <2>1
  <2>3. GoTogether(steps, h, n)
    BY <2>2 DEF GoTogether
  <2> HIDE DEF n
  <2> QED BY <1>1, <2>3, RecursionAgrees
<1>9. AdjustScale(val, scale, min, max) = steps[n]
  BY DEF AdjustScale, TenTimes
<1> HIDE DEF steps
<1> QED BY <1>8, <1>9

(* The limits of an integer type are those of a wider one, or cast to it.  *)
LEMMA LimitsKept ==
  ASSUME NEW from \in IntTypes, NEW to \in IntTypes
  PROVE  LET compute == GreaterNumberType(from, to)
         IN  /\ Cast(MinOf(to), compute) = MinOf(to) /\ Cast(MaxOf(to), compute) = MaxOf(to)
             /\ MinOf(to) \in Int /\ MaxOf(to) \in Int /\ MinOf(to) <= MaxOf(to)
             /\ MinOf(compute) <= MinOf(from) /\ MaxOf(from) <= MaxOf(compute)
<1> DEFINE compute == GreaterNumberType(from, to)
           w == Limit[compute]
           l == Limit[to]
<1>1. compute \in IntTypes /\ w \in Nat \ {0} /\ l \in Nat \ {0} /\ l <= w /\ Limit[from] <= w /\ Limit[from] \in Nat
  BY NumericAssumption DEF GreaterNumberType, NumberTypePriority, IntTypes
<1> HIDE DEF w, l, compute
<1>2. \A v \in Int : -w <= v /\ v <= w - 1 => -w + ((v - (-w)) % (2 * w)) = v
  BY <1>1
<1>3. -w + ((-l - (-w)) % (2 * w)) = -l
  BY <1>1, <1>2
<1>4. -w + (((l - 1) - (-w)) % (2 * w)) = l - 1
  BY <1>1, <1>2
<1>5. Cast(-l, compute) = -l /\ Cast(l - 1, compute) = l - 1
  BY <1>3, <1>4 DEF Cast, MinOf, w
<1>6. -w <= -Limit[from] /\ Limit[from] - 1 <= w - 1 /\ -l <= l - 1 /\ -l \in Int /\ l - 1 \in Int
  BY <1>1
<1> QED BY <1>5, <1>6 DEF MinOf, MaxOf, w, l, compute

-----------------------------------------------------------------------------
(* Nearest numbers. *)

(* Each power of ten is ten times the one before. *)
LEMMA PowerStep ==
  /\ PowerOfTen(0) = 1
  /\ \A n \in Nat : PowerOfTen(n + 1) = 10 * PowerOfTen(n)
<1>1. PowerOfTen(0) = 1
  <2> DEFINE z == 0
  <2>1. z \in Nat
    OBVIOUS
  <2> HIDE DEF z
  <2>2. PICK f \in [0 .. z -> Nat \ {0}] : f[0] = 1 /\ PowerOfTen(z) = f[z]
    BY <2>1, PowerUnfolds
  <2> QED BY <2>2 DEF z
<1>2. ASSUME NEW n \in Nat PROVE PowerOfTen(n + 1) = 10 * PowerOfTen(n)
  <2>1. PICK f \in [0 .. n -> Nat \ {0}] :
           f[0] = 1 /\ (\A i \in 1 .. n : f[i] = 10 * f[i - 1]) /\ PowerOfTen(n) = f[n]
    BY PowerUnfolds
  <2> DEFINE m == n + 1
  <2>2. m \in Nat
    OBVIOUS
  <2> HIDE DEF m
  <2>3. PICK g \in [0 .. m -> Nat \ {0}] :
           g[0] = 1 /\ (\A i \in 1 .. m : g[i] = 10 * g[i - 1]) /\ PowerOfTen(m) = g[m]
    BY <2>2, PowerUnfolds
  <2>4. \A i \in 1 .. n : i \in 1 .. m
    BY DEF m
  <2>5. GoTogether(g, f, n)
    BY <2>1, <2>3, <2>4 DEF GoTogether
  <2>6. g[n] = f[n]
    BY <2>5, RecursionAgrees
  <2>7. m \in 1 .. m /\ m - 1 = n
    BY DEF m
  <2> QED BY <2>1, <2>3, <2>6, <2>7 DEF m
<1> QED BY <1>1, <1>2

(* A quotient is known by the multiples it lies between. *)
LEMMA QuotientIs ==
  ASSUME NEW a \in Int, NEW b \in Nat \ {0}, NEW q \in Int, b * q <= a, a < b * q + b
  PROVE  a \div b = q
OBVIOUS

LEMMA QuotientMeans ==
  ASSUME NEW a \in Int, NEW b \in Nat \ {0}
  PROVE  /\ a \div b \in Int /\ b * (a \div b) <= a /\ a < b * (a \div b) + b
         /\ a \in Nat => a \div b \in Nat
OBVIOUS

(* Dropping digits one power at a time, and the digit that decides. *)
LEMMA RoundedDigits ==
  ASSUME NEW a \in Nat, NEW p \in Nat \ {0}
  PROVE  LET m == a \div p
             q == m \div 10
         IN  /\ m \in Nat /\ q \in Nat
             /\ a \div (10 * p) = q
             /\ (2 * a + 10 * p) \div (2 * (10 * p)) = q + (IF m - 10 * q > 4 THEN 1 ELSE 0)
<1> DEFINE m == a \div p
           q == m \div 10
           f == m - 10 * q
           r == a - p * m
           x == q * p
           e == IF f > 4 THEN 1 ELSE 0
<1>1. m \in Nat /\ p * m <= a /\ a < p * m + p
  BY QuotientMeans
<1>2. q \in Nat /\ 10 * q <= m /\ m < 10 * q + 10
  <2> HIDE DEF m
  <2> QED BY <1>1
<1>3. p * m \in Nat /\ x \in Nat
  <2> HIDE DEF m, q
  <2> QED BY <1>1, <1>2
<1>4. r \in Nat /\ r < p /\ a = p * m + r
  <2> HIDE DEF m
  <2>1. r = a - p * m
    OBVIOUS
  <2> DEFINE k == p * m
  <2> HIDE DEF k, r
  <2>2. r = a - k /\ k \in Nat /\ k <= a /\ a < k + p
    BY <1>1, <1>3, <2>1 DEF k
  <2>3. r \in Nat /\ r < p /\ a = k + r
    BY <2>2
  <2> QED BY <2>3 DEF k
<1>5. f \in 0 .. 9 /\ m = 10 * q + f
  <2> HIDE DEF m, q
  <2> QED BY <1>1, <1>2
<1> HIDE DEF m, q, f, r
<1>6. p * m = 10 * x + f * p
  <2>1. p * m = p * (10 * q + f)
    BY <1>5
  <2> QED BY <1>2, <1>5, <2>1
<1>7. f * p \in Nat /\ f * p <= 9 * p /\ (f > 4 => f * p >= 5 * p) /\ (f <= 4 => f * p <= 4 * p)
  BY <1>5
<1>8. (10 * p) * q = 10 * x /\ (2 * (10 * p)) * (q + e) = 20 * x + 20 * (e * p)
  BY <1>2
<1>9. e \in {0, 1} /\ q + e \in Nat /\ (f > 4 => e = 1 /\ e * p = p) /\ (f <= 4 => e = 0 /\ e * p = 0)
  BY <1>2, <1>5
<1> DEFINE y == f * p
           z == e * p
           b == 10 * p
<1> HIDE DEF x, y, z, e
<1>10. a = 10 * x + y + r
  BY <1>3, <1>4, <1>6 DEF y
<1>11. b * q <= a /\ a < b * q + b
  BY <1>3, <1>4, <1>7, <1>8, <1>10 DEF y
<1>12. b \in Nat \ {0} /\ 2 * b \in Nat \ {0}
  OBVIOUS
<1>13. (2 * b) * (q + e) <= 2 * a + b /\ 2 * a + b < (2 * b) * (q + e) + 2 * b
  <2>1. (2 * b) * (q + e) = 20 * x + 20 * z
    BY <1>8 DEF z
  <2>2. y \in Nat /\ y <= 9 * p /\ (f > 4 => y >= 5 * p /\ z = p) /\ (f <= 4 => y <= 4 * p /\ z = 0)
    BY <1>7, <1>9 DEF y, z
  <2>3. f > 4 \/ f <= 4
    BY <1>5
  <2> QED BY <1>3, <1>4, <1>10, <2>1, <2>2, <2>3
<1> HIDE DEF b
<1>14. a \div b = q
  BY <1>2, <1>11, <1>12, QuotientIs
<1>15. (2 * a + b) \div (2 * b) = q + e
  <2> DEFINE w == 2 * a + b
             c == 2 * b
             k == q + e
  <2>1. w \in Int /\ c \in Nat \ {0} /\ k \in Int /\ c * k <= w /\ w < c * k + c
    BY <1>9, <1>12, <1>13
  <2> HIDE DEF w, c, k
  <2>2. w \div c = k
    BY <2>1, QuotientIs
  <2> QED BY <2>2 DEF w, c, k
<1> QED BY <1>1, <1>2, <1>14, <1>15 DEF b, e, f, m, q

(* The whole number nearest to v / P, ties away from zero. *)
Rounded(v, P) == SignOf(v) * ((2 * Abs(v) + P) \div (2 * P))

(* Scaling down rounds to the nearest, though it looks at one digit only.  *)
LEMMA ScalesDown ==
  ASSUME NEW v \in Int, NEW n \in Nat \ {0}, NEW min, NEW max
  PROVE  AdjustScale(v, n, min, max) = Ok(Rounded(v, PowerOfTen(n))) /\ Rounded(v, PowerOfTen(n)) \in Int
<1> DEFINE a == Abs(v)
           s == SignOf(v)
           p == PowerOfTen(n - 1)
           P == PowerOfTen(n)
           m == a \div p
           q == m \div 10
           e == IF m - 10 * q > 4 THEN 1 ELSE 0
           fraction == Rem(Quot(v, p), 10)
<1>1. a \in Nat /\ s \in {1, -1}
  BY DEF Abs, SignOf
<1>2. p \in Nat \ {0} /\ P = 10 * p
  <2>1. n - 1 \in Nat /\ (n - 1) + 1 = n
    OBVIOUS
  <2> QED BY <2>1, PowerType, PowerStep
<1> HIDE DEF a, s, p, P
<1>3. m \in Nat /\ q \in Nat /\ a \div P = q /\ (2 * a + P) \div (2 * P) = q + e
  BY <1>1, <1>2, RoundedDigits
<1>4. Quot(v, p) = s * m /\ Quot(v, P) = s * q
  BY <1>3 DEF Quot, a, s
<1>5. q = m \div 10 /\ e = IF m - 10 * q > 4 THEN 1 ELSE 0
  OBVIOUS
<1>6. 10 * q <= m
  <2> HIDE DEF m
  <2> QED BY <1>3
<1> HIDE DEF m, e
<1>7. Quot(s * m, 10) = s * q
  <2>1. CASE s = 1
    <3>1. s * m = m /\ Abs(m) = m /\ SignOf(m) = 1 /\ s * q = q /\ 1 * q = q
      BY <1>3, <2>1 DEF Abs, SignOf
    <3> QED BY <3>1, <1>5 DEF Quot
  <2>2. CASE s = -1
    <3>1. s * m = -m /\ Abs(-m) = m /\ s * q = -q
      BY <1>3, <2>2 DEF Abs
    <3>2. SignOf(-m) = -1 \/ q = 0
      BY <1>3, <1>5, <1>6 DEF SignOf
    <3>3. SignOf(-m) * q = -q
      <4>1. CASE q = 0
        <5>1. SignOf(-m) \in Int
          BY DEF SignOf
        <5> QED BY <4>1, <5>1
      <4>2. CASE SignOf(-m) = -1
        BY <1>3, <4>2
      <4> QED BY <3>2, <4>1, <4>2
    <3> QED BY <3>1, <3>3, <1>5 DEF Quot
  <2> QED BY <1>1, <2>1, <2>2
<1> HIDE DEF q
<1>8. fraction = s * m - 10 * (s * q)
  BY <1>4, <1>7 DEF Rem
<1>9. fraction = s * (m - 10 * q)
  <2>1. s * m - 10 * (s * q) = s * (m - 10 * q)
    BY <1>1, <1>3
  <2> QED BY <1>8, <2>1
<1> DEFINE up == IF fraction > 4 THEN 1 ELSE IF fraction < -4 THEN -1 ELSE 0
<1>10. up = s * e
  <2>1. m - 10 * q \in Nat
    BY <1>3, <1>6
  <2> HIDE DEF fraction
  <2> QED BY <1>1, <1>5, <1>9, <2>1
<1>11. AdjustScale(v, n, min, max) = Ok(s * q + up)
  BY <1>4, <1>7 DEF AdjustScale, up, fraction, p, P
<1>12. s * q + s * e = s * (q + e) /\ s * (q + e) \in Int
  BY <1>1, <1>3, <1>5
<1>13. Rounded(v, P) = s * (q + e)
  BY <1>3 DEF Rounded, a, s
<1> HIDE DEF up
<1> QED BY <1>10, <1>11, <1>12, <1>13 DEF P

(* Scaling up multiplies exactly, or leaves the limits and is refused. *)
Bounded(x, min, max) == IF min <= x /\ x <= max THEN Ok(x) ELSE Throw("numeric_out_of_range")

LEMMA TenTimesBounded ==
  ASSUME NEW x \in Int, NEW min \in Int, NEW max \in Nat, min <= 0
  PROVE  /\ TenTimes(Ok(x), min, max) = Bounded(10 * x, min, max)
         /\ TenTimes(Bounded(x, min, max), min, max) = Bounded(10 * x, min, max)
<1> DEFINE high == Quot(max, 10)
           low == Quot(min, 10)
<1>1. high \in Int /\ (x > high <=> 10 * x > max)
  <2>1. high = max \div 10
    BY DEF Quot, Abs, SignOf
  <2> QED BY <2>1
<1>2. low \in Int /\ (x < low <=> 10 * x < min)
  <2>1. CASE min = 0
    <3>1. Abs(min) = 0 /\ SignOf(min) = 1 /\ 0 \div 10 = 0 /\ 1 * 0 = 0
      BY <2>1 DEF Abs, SignOf
    <3>2. low = 0
      BY <3>1 DEF Quot
    <3> HIDE DEF low
    <3> QED BY <2>1, <3>2
  <2>2. CASE min < 0
    <3> DEFINE k == -min
               q == k \div 10
    <3>1. Abs(min) = k /\ SignOf(min) = -1 /\ k \in Nat \ {0} /\ min = -k
      BY <2>2 DEF Abs, SignOf
    <3> HIDE DEF k
    <3>2. q \in Nat /\ 10 * q <= k /\ k < 10 * q + 10
      BY <3>1
    <3>3. low = -1 * q
      BY <3>1 DEF Quot
    <3> HIDE DEF low, q
    <3> QED BY <3>1, <3>2, <3>3
  <2> QED BY <2>1, <2>2
<1> HIDE DEF high, low
<1>3. Ok(x).ok = TRUE /\ Ok(x).value = x /\ x * 10 = 10 * x
  BY DEF Ok
<1>4. TenTimes(Ok(x), min, max) = IF x > high \/ x < low THEN Throw("numeric_out_of_range") ELSE Ok(10 * x)
  BY <1>3 DEF TenTimes, high, low
<1>5. TenTimes(Ok(x), min, max) = Bounded(10 * x, min, max)
  BY <1>1, <1>2, <1>4 DEF Bounded
<1>6. CASE min <= x /\ x <= max
  BY <1>5, <1>6 DEF Bounded
<1>7. CASE ~(min <= x /\ x <= max)
  <2>1. ~(min <= 10 * x /\ 10 * x <= max)
    BY <1>7
  <2>2. Bounded(x, min, max) = Throw("numeric_out_of_range") /\ Bounded(10 * x, min, max) = Throw("numeric_out_of_range")
    BY <1>7, <2>1 DEF Bounded
  <2>3. Throw("numeric_out_of_range").ok = FALSE
    BY DEF Throw
  <2>4. TenTimes(Throw("numeric_out_of_range"), min, max) = Throw("numeric_out_of_range")
    BY <2>3 DEF TenTimes
  <2> QED BY <1>5, <2>2, <2>4
<1> QED BY <1>5, <1>6, <1>7

LEMMA ScalesUp ==
  ASSUME NEW v \in Int, NEW n \in Nat, NEW min \in Int, NEW max \in Nat, min <= 0
  PROVE  /\ v * PowerOfTen(n) \in Int
         /\ AdjustScale(v, -n, min, max) =
               IF n = 0 THEN Ok(v) ELSE Bounded(v * PowerOfTen(n), min, max)
<1> DEFINE k == -n
           At(i) == IF i = 0 THEN Ok(v) ELSE Bounded(v * PowerOfTen(i), min, max)
<1>1. k \in Int /\ k <= 0 /\ Abs(k) = n
  BY DEF Abs
<1> HIDE DEF k
<1>3. ASSUME NEW i \in Nat PROVE v * PowerOfTen(i) \in Int
  BY PowerType
<1>4. ASSUME NEW i \in Nat \ {0} PROVE At(i) = TenTimes(At(i - 1), min, max)
  <2> DEFINE j == i - 1
             p == PowerOfTen(j)
             x == v * p
  <2>1. j \in Nat /\ i = j + 1 /\ (j = 0 <=> i = 1)
    OBVIOUS
  <2>2. p \in Nat \ {0} /\ PowerOfTen(i) = 10 * p
    BY <2>1, PowerType, PowerStep
  <2> HIDE DEF j, p
  <2>3. x \in Int /\ v * (10 * p) = 10 * x
    BY <2>2
  <2>4. j = 0 => x = v
    BY <2>2, PowerStep DEF p
  <2> HIDE DEF x
  <2>5. TenTimes(Ok(x), min, max) = Bounded(10 * x, min, max)
        /\ TenTimes(Bounded(x, min, max), min, max) = Bounded(10 * x, min, max)
    BY <2>3, TenTimesBounded
  <2>6. At(i) = Bounded(10 * x, min, max)
    BY <2>2, <2>3
  <2>7. At(j) = IF j = 0 THEN Ok(x) ELSE Bounded(x, min, max)
    BY <2>4 DEF x, p
  <2> QED BY <2>5, <2>6, <2>7 DEF j
<1> DEFINE g == [i \in 0 .. n |-> At(i)]
<1>5. g[0] = Ok(v) /\ \A i \in 1 .. n : g[i] = TenTimes(g[i - 1], min, max)
  <2>1. 0 \in 0 .. n /\ \A i \in 1 .. n : i \in Nat \ {0} /\ i \in 0 .. n /\ i - 1 \in 0 .. n
    OBVIOUS
  <2>2. \A i \in 0 .. n : g[i] = At(i)
    <3> HIDE DEF At
    <3> QED OBVIOUS
  <2>3. At(0) = Ok(v)
    OBVIOUS
  <2> HIDE DEF g, At
  <2> QED BY <1>4, <2>1, <2>2, <2>3
<1>6. g[n] = At(n)
  OBVIOUS
<1> HIDE DEF g
<1>7. AdjustScale(v, k, min, max) = g[n]
  BY <1>1, <1>5, AdjustScaleUnfolds
<1> QED BY <1>3, <1>6, <1>7 DEF k

(* A number between two scales, exact or the nearest. *)
Scaled(v, shift) == IF shift > 0 THEN Rounded(v, PowerOfTen(shift)) ELSE v * PowerOfTen(-shift)

(* The conversion of a scaled integer is the nearest number of the new     *)
(* scale if the target holds it, and refused if not.                       *)
LEMMA IntToIntMeans ==
  ASSUME NEW v \in Int, NEW from \in IntTypes, NEW fromScale \in Int,
         NEW to \in IntTypes, NEW toScale \in Int
  PROVE  LET exact == Scaled(v, toScale - fromScale)
         IN  /\ exact \in Int
             /\ IntToInt(v, from, fromScale, to, toScale) =
                  IF Fits(exact, to) THEN Ok(exact) ELSE Throw("numeric_out_of_range")
<1> DEFINE compute == GreaterNumberType(from, to)
           min == Cast(MinOf(to), compute)
           max == Cast(MaxOf(to), compute)
           shift == toScale - fromScale
           exact == Scaled(v, shift)
           adjusted == AdjustScale(v, shift, min, max)
           r == IF toScale = fromScale THEN Ok(v) ELSE adjusted
           result == IF r.ok /\ (r.value < min \/ r.value > max) THEN Throw("numeric_out_of_range") ELSE r
<1>1. min = MinOf(to) /\ max = MaxOf(to)
  BY LimitsKept
<1>2. min \in Int /\ max \in Nat /\ min <= 0
  BY <1>1, NumericAssumption DEF MinOf, MaxOf
<1>3. shift \in Int /\ (toScale = fromScale <=> shift = 0)
  OBVIOUS
<1>4. IntToInt(v, from, fromScale, to, toScale) = result
  BY DEF IntToInt, result, r, adjusted, min, max, compute, shift
<1> HIDE DEF shift, min, max
<1>5. Ok(exact).ok = TRUE /\ Ok(exact).value = exact /\ Throw("numeric_out_of_range").ok = FALSE
  BY DEF Ok, Throw
<1>6. exact \in Int /\ (r = Ok(exact) \/ r = Bounded(exact, min, max))
  <2>1. CASE shift > 0
    <3>1. shift \in Nat \ {0}
      BY <1>3, <2>1
    <3>2. adjusted = Ok(Rounded(v, PowerOfTen(shift))) /\ Rounded(v, PowerOfTen(shift)) \in Int
      BY <3>1, ScalesDown
    <3> QED BY <1>3, <2>1, <3>2 DEF Scaled
  <2>2. CASE ~(shift > 0)
    <3> DEFINE n == -shift
    <3>1. n \in Nat /\ -n = shift /\ (n = 0 <=> shift = 0)
      BY <1>3, <2>2
    <3> HIDE DEF n
    <3>2. v * PowerOfTen(n) \in Int /\ AdjustScale(v, -n, min, max) = IF n = 0 THEN Ok(v) ELSE Bounded(v * PowerOfTen(n), min, max)
      BY <1>2, <3>1, ScalesUp
    <3>3. exact = v * PowerOfTen(n)
      BY <2>2 DEF Scaled, n
    <3>4. n = 0 => exact = v
      BY <3>3, PowerStep
    <3> QED BY <1>3, <3>1, <3>2, <3>3, <3>4
  <2> QED BY <2>1, <2>2
<1> HIDE DEF exact, r
<1>7. Fits(exact, to) <=> min <= exact /\ exact <= max
  BY <1>1, <1>2, <1>6 DEF Fits
<1>8. result = IF Fits(exact, to) THEN Ok(exact) ELSE Throw("numeric_out_of_range")
  <2>1. CASE r = Ok(exact)
    BY <1>2, <1>5, <1>6, <1>7, <2>1
  <2>2. CASE r = Bounded(exact, min, max)
    BY <1>2, <1>5, <1>6, <1>7, <2>2 DEF Bounded
  <2> QED BY <1>6, <2>1, <2>2
<1> QED BY <1>4, <1>6, <1>8 DEF exact, shift

(* A number converted between two integer types fits the target.           *)
LEMMA IntToIntFits ==
  ASSUME NEW v \in Int, NEW from \in IntTypes, NEW fromScale \in Int,
         NEW to \in IntTypes, NEW toScale \in Int
  PROVE  LET r == IntToInt(v, from, fromScale, to, toScale)
         IN  /\ r.ok \in BOOLEAN
             /\ r.ok => r = Ok(r.value) /\ r.value \in Int /\ Fits(r.value, to)
<1> DEFINE exact == Scaled(v, toScale - fromScale)
           r == IntToInt(v, from, fromScale, to, toScale)
<1>1. exact \in Int /\ r = IF Fits(exact, to) THEN Ok(exact) ELSE Throw("numeric_out_of_range")
  BY IntToIntMeans
<1>2. Ok(exact).ok = TRUE /\ Ok(exact).value = exact /\ Throw("numeric_out_of_range").ok = FALSE
  BY DEF Ok, Throw
<1> HIDE DEF exact, r
<1>3. r.ok \in BOOLEAN /\ (r.ok => r = Ok(r.value) /\ r.value \in Int /\ Fits(r.value, to))
  BY <1>1, <1>2
<1> QED BY <1>3 DEF r

-----------------------------------------------------------------------------
(* Decimal text. *)

LEMMA DigitWorth ==
  ASSUME NEW c, IsDigit(c)
  PROVE  DigitValue(c) \in 0 .. 9
<1> DEFINE i == CHOOSE k \in 1 .. 10 : Digits[k] = c
<1>1. i \in 1 .. 10
  BY DEF IsDigit
<1> HIDE DEF i
<1>2. i - 1 \in 0 .. 9
  BY <1>1
<1> QED BY <1>2 DEF DigitValue, i

(* std::from_chars: where the digits start, and what they count as they    *)
(* are read.                                                               *)
FirstDigit(w) == IF w # <<>> /\ w[1] = "-" THEN 2 ELSE 1
Counts(h, w) ==
    h[0] = 0 /\ \A i \in 1 .. Len(w) : h[i] = IF i < FirstDigit(w) THEN 0 ELSE h[i - 1] * 10 + DigitValue(w[i])
WellFormed(w) == Len(w) >= FirstDigit(w) /\ \A i \in FirstDigit(w) .. Len(w) : IsDigit(w[i])
Signed(w, n) == (IF FirstDigit(w) = 2 THEN -1 ELSE 1) * n

LEMMA CountingExists ==
  ASSUME NEW S, NEW w \in Seq(S), WellFormed(w)
  PROVE  \E h \in [0 .. Len(w) -> Nat] : Counts(h, w)
<1> DEFINE n == Len(w)
           first == FirstDigit(w)
           step == [p \in (Nat \ {0}) \X Nat |-> IF p[1] \in first .. n THEN p[2] * 10 + DigitValue(w[p[1]]) ELSE 0]
           z == 0
<1>1. n \in Nat /\ first \in Nat /\ first > 0 /\ z \in Nat
  BY LenProperties DEF FirstDigit
<1>2. \A i \in first .. n : DigitValue(w[i]) \in 0 .. 9
  BY DigitWorth DEF WellFormed
<1> HIDE DEF n, first, z
<1>3. \A i \in Nat \ {0}, v \in Nat : step[<<i, v>>] = IF i \in first .. n THEN v * 10 + DigitValue(w[i]) ELSE 0
  OBVIOUS
<1> HIDE DEF step
<1>4. StepsWithin(Nat, step)
  <2>1. ASSUME NEW i \in Nat \ {0}, NEW v \in Nat PROVE step[<<i, v>>] \in Nat
    <3>1. CASE i \in first .. n
      <4> DEFINE digit == DigitValue(w[i])
      <4>1. digit \in 0 .. 9
        BY <1>2, <3>1
      <4>2. step[<<i, v>>] = v * 10 + digit
        BY <1>3, <3>1
      <4> HIDE DEF digit
      <4> QED BY <4>1, <4>2
    <3>2. CASE i \notin first .. n
      BY <1>3, <3>2
    <3> QED BY <3>1, <3>2
  <2> QED BY <2>1 DEF StepsWithin
<1>5. PICK h \in [0 .. n -> Nat] : Unfolds(h, z, step, n)
  BY <1>1, <1>4, RecursionExists
<1>6. ASSUME NEW i \in 1 .. n PROVE h[i] = IF i < first THEN 0 ELSE h[i - 1] * 10 + DigitValue(w[i])
  <2>1. i \in Nat \ {0} /\ i - 1 \in 0 .. n
    BY <1>1
  <2>2. h[i - 1] \in Nat /\ h[i] = step[<<i, h[i - 1]>>]
    BY <1>5, <2>1 DEF Unfolds
  <2>3. i \in first .. n <=> ~(i < first)
    BY <1>1
  <2> QED BY <1>3, <2>1, <2>2, <2>3
<1>7. h[0] = 0
  BY <1>5 DEF Unfolds, z
<1> QED BY <1>5, <1>6, <1>7 DEF Counts, n, first

(* It answers the number counted, if the text is well formed and the       *)
(* target's type holds it.                                                 *)
LEMMA FromCharsIs ==
  ASSUME NEW S, NEW w \in Seq(S), NEW t, NEW h \in [0 .. Len(w) -> Nat], Counts(h, w)
  PROVE  FromChars(w, t) = IF WellFormed(w) /\ Fits(Signed(w, h[Len(w)]), t)
                           THEN Ok(Signed(w, h[Len(w)])) ELSE Throw("convert_error")
<1> DEFINE n == Len(w)
           first == FirstDigit(w)
           Loop(g) == [i \in 0 .. n |-> IF i < first THEN 0 ELSE g[i - 1] * 10 + DigitValue(w[i])]
           total == CHOOSE g : g = Loop(g)
<1>1. n \in Nat /\ first \in Nat /\ first > 0
  BY LenProperties DEF FirstDigit
<1>2. h[0] = 0 /\ \A i \in 1 .. n : h[i] = IF i < first THEN 0 ELSE h[i - 1] * 10 + DigitValue(w[i])
  BY DEF Counts
<1> HIDE DEF n, first
<1>3. total = Loop(total)
  <2>1. h = [i \in 0 .. n |-> h[i]]
    BY DEF n
  <2>2. h = Loop(h)
    <3>1. ASSUME NEW i \in 0 .. n PROVE h[i] = IF i < first THEN 0 ELSE h[i - 1] * 10 + DigitValue(w[i])
      <4>1. CASE i = 0
        BY <1>1, <1>2, <4>1
      <4>2. CASE i # 0
        <5>1. i \in 1 .. n
          BY <1>1, <4>2
        <5> QED BY <1>2, <5>1
      <4> QED BY <4>1, <4>2
    <3> QED BY <2>1, <3>1
  <2> HIDE DEF Loop
  <2> QED BY <2>2
<1> HIDE DEF total
<1>4. total[0] = 0 /\ \A i \in 1 .. n : total[i] = IF i < first THEN 0 ELSE total[i - 1] * 10 + DigitValue(w[i])
  <2>1. 0 \in 0 .. n /\ 0 < first /\ \A i \in 1 .. n : i \in 0 .. n
    BY <1>1
  <2> QED BY <1>3, <2>1
<1>5. total[n] = h[n]
  <2>1. GoTogether(total, h, n)
    BY <1>2, <1>4 DEF GoTogether
  <2> QED BY <1>1, <2>1, RecursionAgrees
<1> DEFINE number == (IF first = 2 THEN -1 ELSE 1) * total[n]
           good == n >= first /\ (\A i \in first .. n : IsDigit(w[i])) /\ Fits(number, t)
<1>6. FromChars(w, t) = IF good THEN Ok(number) ELSE Throw("convert_error")
  BY DEF FromChars, n, first, FirstDigit, total, Loop
<1>7. number = Signed(w, h[n])
  BY <1>5 DEF Signed, first
<1>8. good <=> WellFormed(w) /\ Fits(Signed(w, h[n]), t)
  BY <1>7 DEF WellFormed, n, first
<1> HIDE DEF good, number
<1> QED BY <1>6, <1>7, <1>8 DEF n

LEMMA FromCharsRefuses ==
  ASSUME NEW w, NEW t, ~WellFormed(w)
  PROVE  FromChars(w, t) = Throw("convert_error")
BY DEF FromChars, WellFormed, FirstDigit

(* If it answers a number, the target's type holds it. *)
LEMMA FromCharsFits ==
  ASSUME NEW s \in Seq(STRING), NEW t \in IntTypes
  PROVE  LET r == FromChars(s, t)
         IN  /\ r.ok \in BOOLEAN
             /\ r.ok => r = Ok(r.value) /\ r.value \in Int /\ Fits(r.value, t)
<1>1. \A v : Ok(v).ok = TRUE /\ Ok(v).value = v /\ Throw("convert_error").ok = FALSE
  BY DEF Ok, Throw
<1>2. CASE ~WellFormed(s)
  BY <1>1, <1>2, FromCharsRefuses
<1>3. CASE WellFormed(s)
  <2>1. PICK h \in [0 .. Len(s) -> Nat] : Counts(h, s)
    BY <1>3, CountingExists
  <2> DEFINE number == Signed(s, h[Len(s)])
  <2>2. number \in Int
    <3> DEFINE m == h[Len(s)]
    <3>1. m \in Nat
      BY LenProperties
    <3> HIDE DEF m
    <3>2. number = (IF FirstDigit(s) = 2 THEN -1 ELSE 1) * m
      BY DEF Signed, m
    <3> QED BY <3>1, <3>2
  <2>3. FromChars(s, t) = IF Fits(number, t) THEN Ok(number) ELSE Throw("convert_error")
    BY <1>3, <2>1, FromCharsIs
  <2> HIDE DEF number
  <2> QED BY <1>1, <2>2, <2>3
<1> QED BY <1>2, <1>3

(* What is left of a text without its last dot.                            *)
BehindDot(s, j) == IF LastDot(s) = 0 \/ j < LastDot(s) THEN j ELSE j + 1
LEMMA WithoutDotMeans ==
  ASSUME NEW S, NEW s \in Seq(S)
  PROVE  /\ LastDot(s) \in 0 .. Len(s)
         /\ LastDot(s) # 0 => s[LastDot(s)] = "."
         /\ \A i \in 1 .. Len(s) : s[i] = "." => i <= LastDot(s)
         /\ WithoutDot(s) \in Seq(S)
         /\ Len(WithoutDot(s)) = IF LastDot(s) = 0 THEN Len(s) ELSE Len(s) - 1
         /\ \A j \in 1 .. Len(WithoutDot(s)) : WithoutDot(s)[j] = s[BehindDot(s, j)]
<1> DEFINE n == Len(s)
           dots == {i \in 1 .. n : s[i] = "."}
           dot == LastDot(s)
           front == SubSeq(s, 1, dot - 1)
           back == SubSeq(s, dot + 1, n)
<1>1. n \in Nat /\ dots \in SUBSET (1 .. n)
  BY LenProperties
<1>2. dots # {} => Max(dots) \in dots /\ \A y \in dots : y <= Max(dots)
  <2> HIDE DEF dots, n
  <2> QED BY <1>1, LargestIn
<1>3. dot = IF dots = {} THEN 0 ELSE Max(dots)
  BY DEF LastDot
<1> HIDE DEF dot
<1>4. dot \in 0 .. n /\ (dot # 0 => s[dot] = ".") /\ \A i \in 1 .. n : s[i] = "." => i <= dot
  <2>1. CASE dots = {}
    BY <1>1, <1>3, <2>1
  <2>2. CASE dots # {}
    <3>1. dot \in dots /\ \A y \in dots : y <= dot
      BY <1>2, <1>3, <2>2
    <3> QED BY <3>1
  <2> QED BY <2>1, <2>2
<1>5. front \in Seq(S) /\ Len(front) = (IF dot = 0 THEN 0 ELSE dot - 1) /\ \A j \in 1 .. dot - 1 : front[j] = s[j]
  <2>1. CASE dot = 0
    <3>1. 1 \in Int /\ dot - 1 \in Int /\ 1 > dot - 1
      BY <2>1
    <3>2. front = <<>>
      BY <3>1, SubSeqEmpty
    <3>3. 1 .. dot - 1 = {}
      BY <2>1
    <3> QED BY <2>1, <3>2, <3>3, EmptySeq
  <2>2. CASE dot # 0
    <3>1. 1 \in 1 .. n + 1 /\ dot - 1 \in 0 .. n
      BY <1>1, <1>4, <2>2
    <3>2. /\ front \in Seq(S)
          /\ Len(front) = IF 1 <= dot - 1 THEN (dot - 1) - 1 + 1 ELSE 0
          /\ \A i \in 1 .. (dot - 1) - 1 + 1 : front[i] = s[1 + i - 1]
      <4> DEFINE one == 1
                 e == dot - 1
      <4>1. one \in 1 .. Len(s) + 1 /\ e \in 0 .. Len(s)
        BY <3>1
      <4> HIDE DEF one, e
      <4>2. SubSeq(s, one, e) \in Seq(S) /\ Len(SubSeq(s, one, e)) = (IF one <= e THEN e - one + 1 ELSE 0)
            /\ \A i \in 1 .. e - one + 1 : SubSeq(s, one, e)[i] = s[one + i - 1]
        BY <4>1, PartOf
      <4> QED BY <4>2 DEF one, e
    <3> QED BY <1>1, <1>4, <2>2, <3>2
  <2> QED BY <2>1, <2>2
<1>6. back \in Seq(S) /\ Len(back) = n - dot /\ \A j \in 1 .. n - dot : back[j] = s[dot + j]
  <2>1. dot + 1 \in 1 .. Len(s) + 1 /\ n \in 0 .. Len(s)
    BY <1>1, <1>4
  <2> DEFINE a == dot + 1
  <2>2. a \in 1 .. Len(s) + 1
    BY <2>1
  <2> HIDE DEF a
  <2>3. /\ SubSeq(s, a, n) \in Seq(S)
        /\ Len(SubSeq(s, a, n)) = IF a <= n THEN n - a + 1 ELSE 0
        /\ \A i \in 1 .. n - a + 1 : SubSeq(s, a, n)[i] = s[a + i - 1]
    BY <2>1, <2>2, PartOf
  <2>4. back = SubSeq(s, a, n)
    BY DEF a
  <2>5. (IF a <= n THEN n - a + 1 ELSE 0) = n - dot /\ n - a + 1 = n - dot
    BY <1>1, <1>4 DEF a
  <2>6. \A j \in 1 .. n - dot : a + j - 1 = dot + j
    BY <1>1, <1>4 DEF a
  <2> HIDE DEF back, n
  <2> QED BY <2>3, <2>4, <2>5, <2>6
<1> DEFINE w == WithoutDot(s)
<1>7. w = front \o back
  BY DEF WithoutDot, dot
<1> HIDE DEF front, back, w
<1>8. w \in Seq(S) /\ Len(w) = Len(front) + Len(back)
      /\ \A j \in 1 .. Len(front) + Len(back) : w[j] = IF j <= Len(front) THEN front[j] ELSE back[j - Len(front)]
  BY <1>5, <1>6, <1>7, ConcatProperties
<1>9. Len(w) = IF dot = 0 THEN n ELSE n - 1
  BY <1>1, <1>4, <1>5, <1>6, <1>8
<1>10. ASSUME NEW j \in 1 .. Len(w) PROVE w[j] = s[IF dot = 0 \/ j < dot THEN j ELSE j + 1]
  <2>1. CASE dot = 0
    <3>1. j \in 1 .. n - dot /\ j - Len(front) = j /\ ~(j <= Len(front)) /\ dot + j = j
      BY <1>1, <1>5, <1>9, <2>1
    <3>2. w[j] = back[j]
      BY <1>8, <3>1
    <3> QED BY <1>6, <2>1, <3>1, <3>2
  <2>2. CASE dot # 0 /\ j < dot
    <3>1. j \in 1 .. dot - 1 /\ j <= Len(front)
      BY <1>1, <1>4, <1>5, <2>2
    <3>2. w[j] = front[j]
      BY <1>8, <3>1
    <3> QED BY <1>5, <2>2, <3>1, <3>2
  <2>3. CASE dot # 0 /\ ~(j < dot)
    <3>1. j - Len(front) \in 1 .. n - dot /\ ~(j <= Len(front)) /\ dot + (j - Len(front)) = j + 1
      BY <1>1, <1>4, <1>5, <1>9, <2>3
    <3>2. w[j] = back[j - Len(front)]
      BY <1>8, <3>1
    <3> QED BY <1>6, <2>3, <3>1, <3>2
  <2> QED BY <2>1, <2>2, <2>3
<1> QED BY <1>4, <1>8, <1>9, <1>10 DEF BehindDot, dot, n, w

(* The digits from a position on, which the scale of a text counts.        *)
PlacesOf(places, s) ==
    \A i \in 1 .. Len(s) + 1 : /\ places[i] \in Int
                              /\ places[i] = IF i > Len(s) \/ ~IsDigit(s[i]) THEN 0 ELSE 1 + places[i + 1]
LEMMA PlacesExist ==
  ASSUME NEW S, NEW s \in Seq(S)
  PROVE  \E places : /\ PlacesOf(places, s)
                     /\ ScaleOfText(s) = IF LastDot(s) = 0 THEN 0 ELSE -places[LastDot(s) + 1]
<1> DEFINE n == Len(s)
           dot == LastDot(s)
           Loop(g) == [i \in 1 .. n + 1 |-> IF i > n \/ ~IsDigit(s[i]) THEN 0 ELSE 1 + g[i + 1]]
           places == CHOOSE g : g = Loop(g)
           step == [p \in (Nat \ {0}) \X Int |-> IF ~IsDigit(s[n + 1 - p[1]]) THEN 0 ELSE 1 + p[2]]
           z == 0
<1>1. n \in Nat /\ dot \in 0 .. n
  BY LenProperties, WithoutDotMeans
<1> HIDE DEF n, dot
<1>2. \A i \in Nat \ {0}, v \in Int : step[<<i, v>>] = IF ~IsDigit(s[n + 1 - i]) THEN 0 ELSE 1 + v
  OBVIOUS
<1>3. StepsWithin(Int, step) /\ z \in Int
  <2> HIDE DEF step
  <2>1. ASSUME NEW i \in Nat \ {0}, NEW v \in Int PROVE step[<<i, v>>] \in Int
    <3> DEFINE b == IsDigit(s[n + 1 - i])
    <3>1. step[<<i, v>>] = IF ~b THEN 0 ELSE 1 + v
      BY <1>2
    <3> HIDE DEF b
    <3>2. 1 + v \in Int /\ 0 \in Int
      OBVIOUS
    <3> QED BY <3>1, <3>2
  <2>2. StepsWithin(Int, step)
    BY <2>1 DEF StepsWithin
  <2>3. z \in Int
    BY DEF z
  <2> QED BY <2>2, <2>3
<1> HIDE DEF step, z
<1>4. PICK g \in [0 .. n -> Int] : Unfolds(g, z, step, n)
  BY <1>1, <1>3, RecursionExists
<1>5. ASSUME NEW i \in 1 .. n PROVE g[i] = IF ~IsDigit(s[n + 1 - i]) THEN 0 ELSE 1 + g[i - 1]
  <2>1. i \in Nat \ {0} /\ i - 1 \in 0 .. n
    BY <1>1
  <2>2. g[i - 1] \in Int /\ g[i] = step[<<i, g[i - 1]>>]
    BY <1>4, <2>1 DEF Unfolds
  <2> QED BY <1>2, <2>1, <2>2
<1>6. g[0] = 0
  BY <1>4 DEF Unfolds, z
<1> DEFINE f == [i \in 1 .. n + 1 |-> g[n + 1 - i]]
<1>7. ASSUME NEW i \in 1 .. n + 1 PROVE f[i] = IF i > n \/ ~IsDigit(s[i]) THEN 0 ELSE 1 + f[i + 1]
  <2>1. CASE i = n + 1
    <3>1. n + 1 - i = 0 /\ i > n
      BY <1>1, <2>1
    <3> QED BY <1>6, <3>1
  <2>2. CASE i # n + 1
    <3> DEFINE j == n + 1 - i
    <3>1. j \in 1 .. n /\ n + 1 - j = i /\ ~(i > n) /\ i + 1 \in 1 .. n + 1 /\ n + 1 - (i + 1) = j - 1
      BY <1>1, <2>2
    <3>2. f[i] = g[j] /\ f[i + 1] = g[j - 1]
      BY <3>1
    <3> HIDE DEF j, f
    <3> QED BY <1>5, <3>1, <3>2
  <2> QED BY <2>1, <2>2
<1>8. f = Loop(f)
  <2>1. f = [i \in 1 .. n + 1 |-> f[i]]
    OBVIOUS
  <2> HIDE DEF f
  <2> QED BY <1>7, <2>1
<1>9. places = Loop(places)
  <2> HIDE DEF Loop, f
  <2> QED BY <1>8
<1> HIDE DEF places, f
<1> DEFINE h == [j \in 0 .. n |-> places[n + 1 - j]]
<1>10. ASSUME NEW i \in 1 .. n PROVE h[i] = IF ~IsDigit(s[n + 1 - i]) THEN 0 ELSE 1 + h[i - 1]
  <2> DEFINE j == n + 1 - i
  <2>1. j \in 1 .. n + 1 /\ ~(j > n) /\ j + 1 = n + 1 - (i - 1) /\ i \in 0 .. n /\ i - 1 \in 0 .. n
    BY <1>1
  <2>2. h[i] = places[j] /\ h[i - 1] = places[n + 1 - (i - 1)]
    BY <2>1
  <2> HIDE DEF h
  <2>3. places[j] = IF j > n \/ ~IsDigit(s[j]) THEN 0 ELSE 1 + places[j + 1]
    <3> HIDE DEF j
    <3> QED BY <1>9, <2>1
  <2> QED BY <2>1, <2>2, <2>3
<1>11. h[0] = 0
  <2>1. 0 \in 0 .. n /\ n + 1 - 0 = n + 1 /\ n + 1 \in 1 .. n + 1 /\ n + 1 > n
    BY <1>1
  <2>2. places[n + 1] = 0
    BY <1>9, <2>1
  <2> QED BY <2>1, <2>2
<1> HIDE DEF h
<1>12. ASSUME NEW k \in 1 .. n + 1 PROVE places[k] \in Int
  <2> DEFINE N == n + 1 - k
  <2>1. N \in 0 .. n /\ N \in Nat /\ n + 1 - N = k /\ \A i \in 1 .. N : i \in 1 .. n
    BY <1>1
  <2>2. h[N] = places[n + 1 - N]
    <3> HIDE DEF N
    <3> QED BY <2>1 DEF h
  <2> HIDE DEF N
  <2>3. GoTogether(h, g, N)
    BY <1>5, <1>6, <1>10, <1>11, <2>1 DEF GoTogether
  <2>4. h[N] = g[N]
    BY <2>1, <2>3, RecursionAgrees
  <2> QED BY <1>4, <2>1, <2>2, <2>4
<1>13. ScaleOfText(s) = IF dot = 0 THEN 0 ELSE -places[dot + 1]
  BY DEF ScaleOfText, places, Loop, n, dot
<1>14. \A i \in 1 .. n + 1 : places[i] = IF i > n \/ ~IsDigit(s[i]) THEN 0 ELSE 1 + places[i + 1]
  BY <1>9
<1>15. PlacesOf(places, s)
  BY <1>12, <1>14 DEF PlacesOf, n
<1> QED BY <1>13, <1>15 DEF dot

LEMMA ScaleOfTextType ==
  ASSUME NEW S, NEW s \in Seq(S)
  PROVE  ScaleOfText(s) \in Int
<1>1. PICK places : /\ PlacesOf(places, s)
                    /\ ScaleOfText(s) = IF LastDot(s) = 0 THEN 0 ELSE -places[LastDot(s) + 1]
  BY PlacesExist
<1>2. LastDot(s) + 1 \in 1 .. Len(s) + 1
  <2>1. Len(s) \in Nat /\ LastDot(s) \in 0 .. Len(s)
    BY LenProperties, WithoutDotMeans
  <2> QED BY <2>1
<1>3. places[LastDot(s) + 1] \in Int
  BY <1>1, <1>2 DEF PlacesOf
<1> QED BY <1>1, <1>3

(* Behind the dot are digits only, or a sign.                              *)
LEMMA ScaleOfTextIs ==
  ASSUME NEW S, NEW s \in Seq(S), LastDot(s) # 0
  PROVE  /\ (\A i \in LastDot(s) + 1 .. Len(s) : IsDigit(s[i])) => ScaleOfText(s) = -(Len(s) - LastDot(s))
         /\ LastDot(s) < Len(s) /\ ~IsDigit(s[LastDot(s) + 1]) => ScaleOfText(s) = 0
<1> DEFINE n == Len(s)
           dot == LastDot(s)
<1>1. n \in Nat /\ dot \in 1 .. n
  <2>1. Len(s) \in Nat /\ LastDot(s) \in 0 .. Len(s)
    BY LenProperties, WithoutDotMeans
  <2> QED BY <2>1
<1>2. PICK places : PlacesOf(places, s) /\ ScaleOfText(s) = IF dot = 0 THEN 0 ELSE -places[dot + 1]
  BY PlacesExist
<1>3. \A i \in 1 .. n + 1 : places[i] = IF i > n \/ ~IsDigit(s[i]) THEN 0 ELSE 1 + places[i + 1]
  BY <1>2 DEF PlacesOf
<1>4. ScaleOfText(s) = -places[dot + 1]
  BY <1>2
<1> HIDE DEF n, dot
<1>5. ASSUME \A i \in dot + 1 .. n : IsDigit(s[i]) PROVE -places[dot + 1] = -(n - dot)
  <2> DEFINE T == {k \in Nat : k <= n - dot => places[n + 1 - k] = k}
  <2>1. 0 \in T
    <3>1. n + 1 - 0 = n + 1 /\ n + 1 \in 1 .. n + 1 /\ n + 1 > n
      BY <1>1
    <3>2. places[n + 1] = 0
      BY <1>3, <3>1
    <3> QED BY <3>1, <3>2
  <2>2. ASSUME NEW k \in Nat, k \in T PROVE k + 1 \in T
    <3> SUFFICES ASSUME k + 1 <= n - dot PROVE places[n + 1 - (k + 1)] = k + 1
      OBVIOUS
    <3>1. places[n + 1 - k] = k
      BY <1>1, <2>2
    <3> DEFINE j == n + 1 - (k + 1)
    <3>2. j \in 1 .. n + 1 /\ ~(j > n) /\ j \in dot + 1 .. n /\ j + 1 = n + 1 - k
      BY <1>1
    <3>3. IsDigit(s[j])
      BY <1>5, <3>2
    <3>4. places[j] = 1 + places[j + 1]
      <4> HIDE DEF j
      <4> QED BY <1>3, <3>2, <3>3
    <3> QED BY <3>1, <3>2, <3>4
  <2>3. n - dot \in Nat /\ n + 1 - (n - dot) = dot + 1
    BY <1>1
  <2>4. Nat \subseteq T
    <3> HIDE DEF T
    <3> QED BY <2>1, <2>2, SetInduction
  <2>5. places[n + 1 - (n - dot)] = n - dot
    <3> DEFINE k == n - dot
    <3>1. k \in Nat /\ k <= n - dot
      BY <2>3
    <3>2. k \in T
      BY <2>4, <3>1
    <3> HIDE DEF k
    <3>3. places[n + 1 - k] = k
      BY <3>1, <3>2
    <3> QED BY <3>3 DEF k
  <2> QED BY <2>3, <2>5
<1>6. ASSUME dot < n, ~IsDigit(s[dot + 1]) PROVE -places[dot + 1] = 0
  <2>1. dot + 1 \in 1 .. n + 1
    BY <1>1
  <2>2. places[dot + 1] = 0
    BY <1>3, <1>6, <2>1
  <2>3. \A x \in Int : -x = 0 - x
    OBVIOUS
  <2>4. places[dot + 1] \in Int
    BY <1>2, <2>1 DEF PlacesOf, n
  <2>5. -places[dot + 1] = 0 - places[dot + 1]
    BY <2>3, <2>4
  <2> QED BY <2>2, <2>5
<1> QED BY <1>4, <1>5, <1>6 DEF n, dot

LEMMA TenDigits ==
  /\ \A k \in 1 .. 10 : IsDigit(Digits[k]) /\ DigitValue(Digits[k]) = k - 1
  /\ ~IsDigit(".") /\ ~IsDigit("-")
<1>1. \A i, k \in 1 .. 10 : Digits[i] = Digits[k] => i = k
  BY DEF Digits
<1>2. \A i \in 1 .. 10 : Digits[i] # "." /\ Digits[i] # "-"
  BY DEF Digits
<1>3. ASSUME NEW k \in 1 .. 10 PROVE DigitValue(Digits[k]) = k - 1
  <2> DEFINE i == CHOOSE j \in 1 .. 10 : Digits[j] = Digits[k]
  <2>1. i \in 1 .. 10 /\ Digits[i] = Digits[k]
    OBVIOUS
  <2> HIDE DEF i
  <2>2. i = k
    BY <1>1, <2>1
  <2> QED BY <2>2 DEF DigitValue, i
<1> QED BY <1>2, <1>3 DEF IsDigit

LEMMA Negated == \A x \in Int : -x = 0 - x
  OBVIOUS

LEMMA SameScale ==
  ASSUME NEW v \in Int, NEW scale \in Int
  PROVE  Scaled(v, scale - scale) = v
<1> DEFINE e == -(scale - scale)
<1>1. v * PowerOfTen(0) = v
  BY PowerStep
<1>2. e = 0
  <2>1. \A x \in Int : -x = 0 - x
    OBVIOUS
  <2>2. scale - scale \in Int /\ 0 - (scale - scale) = 0
    OBVIOUS
  <2> QED BY <2>1, <2>2
<1>3. ~(scale - scale > 0)
  OBVIOUS
<1> HIDE DEF e
<1>4. v * PowerOfTen(e) = v
  BY <1>1, <1>2
<1> QED BY <1>3, <1>4 DEF Scaled, e

(* What setString stores of a text that std::from_chars reads.             *)
LEMMA StringToIntMeans ==
  ASSUME NEW s, NEW n \in Int, FromChars(WithoutDot(s), "INT64") = Ok(n), ScaleOfText(s) \in Int,
         NEW to \in {"INT16", "INT32", "INT64"}, NEW toScale \in Int
  PROVE  LET exact == Scaled(n, toScale - ScaleOfText(s))
         IN  /\ exact \in Int
             /\ StringToInt(s, to, toScale) = IF Fits(exact, to) THEN Ok(exact) ELSE Throw("numeric_out_of_range")
<1> DEFINE scale == ScaleOfText(s)
           exact == Scaled(n, toScale - scale)
           parsed == FromChars(WithoutDot(s), "INT64")
           wide == IF parsed.ok THEN IntToInt(parsed.value, "INT64", scale, "INT64", toScale) ELSE parsed
           narrow(v) == IntToInt(v, "INT64", toScale, to, toScale)
<1>1. \A x : Ok(x).ok = TRUE /\ Ok(x).value = x
  BY DEF Ok
<1>2. \A e : Throw(e).ok = FALSE
  BY DEF Throw
<1>3. "INT64" \in IntTypes /\ to \in IntTypes
  BY DEF IntTypes
<1>4. exact \in Int /\ wide = IF Fits(exact, "INT64") THEN Ok(exact) ELSE Throw("numeric_out_of_range")
  <2>1. parsed.ok = TRUE /\ parsed.value = n
    BY <1>1
  <2>2. wide = IntToInt(n, "INT64", scale, "INT64", toScale)
    BY <2>1
  <2>3. scale \in Int
    OBVIOUS
  <2> HIDE DEF scale, wide, parsed
  <2>4. exact \in Int /\ IntToInt(n, "INT64", scale, "INT64", toScale)
           = IF Fits(exact, "INT64") THEN Ok(exact) ELSE Throw("numeric_out_of_range")
    BY <1>3, <2>3, IntToIntMeans
  <2> QED BY <2>2, <2>4
<1>5. StringToInt(s, to, toScale) = IF wide.ok THEN narrow(wide.value) ELSE wide
  BY DEF StringToInt
<1> HIDE DEF wide, exact, parsed, scale
<1>6. narrow(exact) = IF Fits(exact, to) THEN Ok(exact) ELSE Throw("numeric_out_of_range")
  <2>1. Scaled(exact, toScale - toScale) = exact
    BY <1>4, SameScale
  <2>2. exact \in Int
    BY <1>4
  <2> HIDE DEF exact
  <2>3. narrow(exact) = IF Fits(Scaled(exact, toScale - toScale), to) THEN Ok(Scaled(exact, toScale - toScale))
                        ELSE Throw("numeric_out_of_range")
    BY <1>3, <2>2, IntToIntMeans
  <2> QED BY <2>1, <2>3
<1>7. Fits(exact, to) => Fits(exact, "INT64")
  <2> DEFINE a == Limit[to]
             b == Limit["INT64"]
  <2>1. a \in Nat /\ b \in Nat /\ a <= b
    BY NumericAssumption DEF IntTypes
  <2>2. Fits(exact, to) <=> exact \in -a .. a - 1
    BY DEF Fits, MinOf, MaxOf
  <2>3. Fits(exact, "INT64") <=> exact \in -b .. b - 1
    BY DEF Fits, MinOf, MaxOf
  <2> HIDE DEF a, b
  <2> QED BY <1>4, <2>1, <2>2, <2>3
<1> QED BY <1>1, <1>2, <1>4, <1>5, <1>6, <1>7 DEF exact, scale

(* The text of a number bound to an integer column: what is stored fits.   *)
LEMMA StringToIntFits ==
  ASSUME NEW s \in Seq(STRING), NEW to \in IntTypes, NEW toScale \in Int
  PROVE  LET r == StringToInt(s, to, toScale)
         IN  /\ r.ok \in BOOLEAN
             /\ r.ok => r = Ok(r.value) /\ r.value \in Int /\ Fits(r.value, to)
<1> DEFINE parsed == FromChars(WithoutDot(s), "INT64")
           wide == IF parsed.ok THEN IntToInt(parsed.value, "INT64", ScaleOfText(s), "INT64", toScale) ELSE parsed
           r == IF wide.ok THEN IntToInt(wide.value, "INT64", toScale, to, toScale) ELSE wide
<1>1. "INT64" \in IntTypes /\ WithoutDot(s) \in Seq(STRING) /\ ScaleOfText(s) \in Int
  BY WithoutDotMeans, ScaleOfTextType DEF IntTypes
<1>2. parsed.ok \in BOOLEAN /\ (parsed.ok => parsed.value \in Int)
  BY <1>1, FromCharsFits
<1> HIDE DEF parsed
<1>3. wide.ok \in BOOLEAN /\ (wide.ok => wide.value \in Int)
  BY <1>1, <1>2, IntToIntFits
<1> HIDE DEF wide
<1>4. r.ok \in BOOLEAN /\ (r.ok => r = Ok(r.value) /\ r.value \in Int /\ Fits(r.value, to))
  BY <1>1, <1>3, IntToIntFits
<1>5. StringToInt(s, to, toScale) = r
  BY DEF StringToInt, r, wide, parsed
<1> HIDE DEF r
<1> QED BY <1>4, <1>5

-----------------------------------------------------------------------------
(* Numbers printed: the digit of a number at a power of ten.               *)

LEMMA PowersGrow ==
  /\ \A k \in Nat : k < PowerOfTen(k)
  /\ \A k \in Nat : \A j \in 0 .. k : PowerOfTen(j) <= PowerOfTen(k)
<1> DEFINE S == {k \in Nat : k < PowerOfTen(k)}
           T == {k \in Nat : \A j \in 0 .. k : PowerOfTen(j) <= PowerOfTen(k)}
<1>1. 0 \in S /\ 0 \in T
  <2>1. \A j \in 0 .. 0 : j = 0
    OBVIOUS
  <2> QED BY <2>1, PowerStep
<1>2. ASSUME NEW k \in Nat, k \in S PROVE k + 1 \in S
  <2>1. PowerOfTen(k + 1) = 10 * PowerOfTen(k) /\ PowerOfTen(k) \in Nat
    BY PowerStep, PowerType
  <2> QED BY <1>2, <2>1
<1>3. ASSUME NEW k \in Nat, k \in T PROVE k + 1 \in T
  <2>1. PowerOfTen(k + 1) = 10 * PowerOfTen(k) /\ PowerOfTen(k) \in Nat
    BY PowerStep, PowerType
  <2>2. ASSUME NEW j \in 0 .. k + 1 PROVE PowerOfTen(j) <= PowerOfTen(k + 1)
    <3>1. CASE j = k + 1
      BY <2>1, <3>1
    <3>2. CASE j # k + 1
      <4>1. j \in 0 .. k /\ j \in Nat
        BY <3>2
      <4>2. PowerOfTen(j) <= PowerOfTen(k) /\ PowerOfTen(j) \in Nat
        BY <1>3, <4>1, PowerType
      <4> QED BY <2>1, <4>2
    <3> QED BY <3>1, <3>2
  <2> QED BY <2>2
<1>4. Nat \subseteq S /\ Nat \subseteq T
  <2> HIDE DEF S, T
  <2> QED BY <1>1, <1>2, <1>3, SetInduction
<1> QED BY <1>4

(* What is left of a number without its last places, and the next place.   *)
LEMMA PlacesLeft ==
  ASSUME NEW a \in Nat, NEW m \in Nat
  PROVE  LET q == a \div PowerOfTen(m)
         IN  /\ q \in Nat /\ q % 10 \in 0 .. 9
             /\ q = (a \div PowerOfTen(m + 1)) * 10 + (q % 10)
             /\ a < PowerOfTen(m) => q = 0
<1> DEFINE b == PowerOfTen(m)
           q == a \div b
           p == q \div 10
           r == q % 10
<1>1. b \in Nat \ {0} /\ PowerOfTen(m + 1) = 10 * b /\ 10 * b \in Nat \ {0}
  BY PowerStep, PowerType
<1> HIDE DEF b
<1>2. q \in Nat /\ b * q <= a /\ a < b * q + b
  BY <1>1, QuotientMeans
<1>3. a < b => q = 0
  <2>1. b * 0 = 0
    BY <1>1
  <2> DEFINE z == 0
  <2>2. ASSUME a < b PROVE a \div b = z
    <3>1. z \in Int /\ b * z <= a /\ a < b * z + b
      BY <1>1, <2>1, <2>2
    <3> HIDE DEF z
    <3> QED BY <1>1, <3>1, QuotientIs
  <2> QED BY <2>2
<1> HIDE DEF q
<1>4. p \in Nat /\ r \in 0 .. 9 /\ q = p * 10 + r
  BY <1>2
<1> HIDE DEF p, r
<1>5. a \div (10 * b) = p
  <2>1. (10 * b) * p = b * (p * 10) /\ b * q = b * (p * 10) + b * r /\ b * r \in Nat /\ b * r <= b * 9
    <3>1. b * q = b * (p * 10) + b * r
      BY <1>1, <1>4
    <3>2. (10 * b) * p = b * (p * 10)
      BY <1>1, <1>4
    <3>3. b * r \in Nat /\ b * r <= b * 9
      BY <1>1, <1>4
    <3> QED BY <3>1, <3>2, <3>3
  <2> DEFINE x == b * (p * 10)
             y == b * r
             w == b * q
  <2>2. x \in Int /\ y \in Nat /\ w = x + y /\ y <= 9 * b /\ w <= a /\ a < w + b /\ (10 * b) * p = x
    BY <1>1, <1>2, <1>4, <2>1
  <2>3. x <= a /\ a < x + 10 * b
    <3> HIDE DEF x, y, w
    <3> QED BY <1>1, <2>2
  <2>4. (10 * b) * p <= a /\ a < (10 * b) * p + 10 * b
    BY <2>2, <2>3
  <2> DEFINE c == 10 * b
  <2>5. c \in Nat \ {0} /\ p \in Int /\ c * p <= a /\ a < c * p + c
    BY <1>1, <1>4, <2>4
  <2> HIDE DEF c
  <2>6. a \div c = p
    BY <2>5, QuotientIs
  <2> QED BY <2>6 DEF c
<1> QED BY <1>1, <1>2, <1>3, <1>4, <1>5 DEF b, q, r

Place(a, m) == Digits[((a \div PowerOfTen(m)) % 10) + 1]
Chars == {Digits[k] : k \in 1 .. 10} \union {".", "-"}

LEMMA PlaceIs ==
  ASSUME NEW a \in Nat, NEW m \in Nat
  PROVE  /\ Place(a, m) \in Chars /\ IsDigit(Place(a, m))
         /\ Place(a, m) # "." /\ Place(a, m) # "-"
         /\ DigitValue(Place(a, m)) = (a \div PowerOfTen(m)) % 10
         /\ a < PowerOfTen(m) => Place(a, m) = "0"
<1> DEFINE r == (a \div PowerOfTen(m)) % 10
<1>1. r \in 0 .. 9 /\ (a < PowerOfTen(m) => r = 0)
  <2> DEFINE q == a \div PowerOfTen(m)
  <2>1. q \in Nat /\ q % 10 \in 0 .. 9 /\ (a < PowerOfTen(m) => q = 0)
    BY PlacesLeft
  <2> HIDE DEF q
  <2>2. q = 0 => q % 10 = 0
    OBVIOUS
  <2> QED BY <2>1, <2>2 DEF q
<1> HIDE DEF r
<1> DEFINE k == r + 1
<1>2. k \in 1 .. 10 /\ k - 1 = r
  BY <1>1
<1>3. Digits[k] \in Chars /\ IsDigit(Digits[k]) /\ DigitValue(Digits[k]) = r
  BY <1>2, TenDigits DEF Chars
<1>4. Digits[k] # "." /\ Digits[k] # "-"
  BY <1>3, TenDigits
<1>5. r = 0 => Digits[k] = "0"
  BY DEF Digits
<1>6. Place(a, m) = Digits[k]
  BY DEF Place, r
<1> HIDE DEF k
<1> QED BY <1>1, <1>3, <1>4, <1>5, <1>6 DEF r

LEMMA DigitsOfMeans ==
  ASSUME NEW a \in Nat
  PROVE  \E len \in Nat \ {0} : a < PowerOfTen(len) /\ DigitsOf(a) = [i \in 1 .. len |-> Place(a, len - i)]
<1> DEFINE good(k) == a < PowerOfTen(k) /\ (k = 1 \/ a >= PowerOfTen(k - 1))
           len == CHOOSE k \in 1 .. a + 1 : good(k)
           S == {k \in 1 .. a + 1 : a < PowerOfTen(k)}
<1>1. S \in SUBSET Nat /\ S # {}
  <2>1. a + 1 \in Nat /\ a + 1 < PowerOfTen(a + 1) /\ PowerOfTen(a + 1) \in Nat
    BY PowersGrow, PowerType
  <2>2. a + 1 \in S
    BY <2>1
  <2> QED BY <2>2
<1> DEFINE k == Min(S)
<1>2. k \in S /\ \A y \in S : k <= y
  <2> HIDE DEF S
  <2> QED BY <1>1, SmallestIn
<1> HIDE DEF k
<1>3. k \in 1 .. a + 1 /\ good(k)
  <2>1. CASE k = 1
    BY <1>2, <2>1
  <2>2. CASE k # 1
    <3>1. k - 1 \in 1 .. a + 1 /\ ~(k <= k - 1) /\ k - 1 \in Nat
      BY <1>2, <2>2
    <3>2. k - 1 \notin S
      BY <1>2, <3>1
    <3>3. ~(a < PowerOfTen(k - 1)) /\ PowerOfTen(k - 1) \in Nat
      BY <3>1, <3>2, PowerType
    <3> QED BY <1>2, <3>3
  <2> QED BY <2>1, <2>2
<1>4. len \in 1 .. a + 1 /\ good(len)
  <2> HIDE DEF good
  <2> QED BY <1>3
<1>5. DigitsOf(a) = [i \in 1 .. len |-> Place(a, len - i)]
  BY DEF DigitsOf, Place
<1> HIDE DEF len
<1>6. len \in Nat \ {0}
  BY <1>4
<1> QED BY <1>4, <1>5, <1>6

(* A text of signs and places is read as the number they are of.           *)
Writes(w, a) ==
    /\ Len(w) >= FirstDigit(w) /\ a < PowerOfTen(Len(w) - FirstDigit(w) + 1)
    /\ \A i \in FirstDigit(w) .. Len(w) : w[i] = Place(a, Len(w) - i)

LEMMA WrittenIsRead ==
  ASSUME NEW S, NEW w \in Seq(S), NEW a \in Nat, Writes(w, a), NEW t
  PROVE  FromChars(w, t) = IF Fits(Signed(w, a), t) THEN Ok(Signed(w, a)) ELSE Throw("convert_error")
<1> DEFINE n == Len(w)
           first == FirstDigit(w)
           h == [i \in 0 .. n |-> a \div PowerOfTen(n - i)]
<1>1. n \in Nat /\ first \in {1, 2} /\ n >= first
  BY LenProperties DEF FirstDigit, Writes
<1>2. a < PowerOfTen(n - first + 1) /\ \A i \in first .. n : w[i] = Place(a, n - i)
  BY DEF Writes
<1> HIDE DEF n, first
<1>3. WellFormed(w)
  <2>1. ASSUME NEW i \in first .. n PROVE IsDigit(w[i])
    <3>1. n - i \in Nat
      BY <1>1
    <3> QED BY <1>2, <3>1, PlaceIs
  <2> QED BY <1>1, <2>1 DEF WellFormed, n, first
<1>4. \A i \in 0 .. n : n - i \in Nat
  BY <1>1
<1>5. h \in [0 .. n -> Nat]
  <2>1. \A i \in 0 .. n : a \div PowerOfTen(n - i) \in Nat
    BY <1>4, PlacesLeft
  <2> QED BY <2>1
<1>6. ASSUME NEW i \in 0 .. n, i < first PROVE h[i] = 0
  <2>1. n - i \in Nat /\ n - first + 1 \in 0 .. n - i /\ n - first + 1 \in Nat
    BY <1>1, <1>6
  <2>2. PowerOfTen(n - first + 1) <= PowerOfTen(n - i) /\ PowerOfTen(n - i) \in Nat /\ PowerOfTen(n - first + 1) \in Nat
    BY <2>1, PowersGrow, PowerType
  <2>3. a < PowerOfTen(n - i)
    BY <1>2, <2>2
  <2> QED BY <2>1, <2>3, PlacesLeft
<1>7. ASSUME NEW i \in first .. n PROVE h[i] = h[i - 1] * 10 + DigitValue(w[i])
  <2>1. n - i \in Nat /\ n - (i - 1) = (n - i) + 1 /\ i \in 0 .. n /\ i - 1 \in 0 .. n
    BY <1>1
  <2> DEFINE m == n - i
  <2>2. m \in Nat /\ h[i] = a \div PowerOfTen(m) /\ h[i - 1] = a \div PowerOfTen(m + 1)
    BY <2>1
  <2>3. w[i] = Place(a, m)
    BY <1>2
  <2> HIDE DEF m, h
  <2>4. DigitValue(w[i]) = (a \div PowerOfTen(m)) % 10
    BY <2>2, <2>3, PlaceIs
  <2>5. a \div PowerOfTen(m) = (a \div PowerOfTen(m + 1)) * 10 + ((a \div PowerOfTen(m)) % 10)
    BY <2>2, PlacesLeft
  <2> QED BY <2>2, <2>4, <2>5
<1>8. Counts(h, w)
  <2>1. 0 \in 0 .. n /\ 0 < first
    BY <1>1
  <2>2. h[0] = 0
    BY <1>6, <2>1
  <2>3. ASSUME NEW i \in 1 .. n PROVE h[i] = IF i < first THEN 0 ELSE h[i - 1] * 10 + DigitValue(w[i])
    <3>1. i \in 0 .. n /\ (~(i < first) => i \in first .. n)
      BY <1>1
    <3> HIDE DEF h
    <3> QED BY <1>6, <1>7, <3>1
  <2> HIDE DEF h
  <2> QED BY <2>2, <2>3 DEF Counts, n, first
<1>9. h[n] = a
  <2>1. n \in 0 .. n /\ n - n = 0
    BY <1>1
  <2>2. h[n] = a \div PowerOfTen(0)
    BY <2>1
  <2>3. a \div 1 = a
    OBVIOUS
  <2> HIDE DEF h
  <2> QED BY <2>2, <2>3, PowerStep
<1> HIDE DEF h
<1> QED BY <1>3, <1>5, <1>8, <1>9, FromCharsIs DEF n

(* Where the point is put: places digits follow it, and at least one is in *)
(* front of it.                                                            *)
PointIn(q, a, long, places) ==
    /\ q \in Seq(Chars) /\ Len(q) = long + 1 /\ q[long + 1 - places] = "."
    /\ \A i \in 1 .. long - places : q[i] = Place(a, long - i)
    /\ \A i \in long - places + 2 .. long + 1 : q[i] = Place(a, long + 1 - i)

LEMMA CharsAre == "." \in Chars /\ "-" \in Chars /\ "0" \in Chars
<1>1. Digits[1] = "0" /\ 1 \in 1 .. 10
  BY DEF Digits
<1> QED BY <1>1 DEF Chars

(* One text and then the other.                                            *)
Joined(r, x, y, S, k, n) ==
    /\ r \in Seq(S) /\ Len(r) = k + n
    /\ \A i \in 1 .. k + n : r[i] = IF i <= k THEN x[i] ELSE y[i - k]
LEMMA JoinedAt ==
  ASSUME NEW S, NEW x \in Seq(S), NEW y \in Seq(S), NEW k, NEW n, Len(x) = k, Len(y) = n
  PROVE  Joined(x \o y, x, y, S, k, n)
<1>1. /\ x \o y \in Seq(S) /\ Len(x \o y) = Len(x) + Len(y)
      /\ \A i \in 1 .. Len(x) + Len(y) : (x \o y)[i] = IF i <= Len(x) THEN x[i] ELSE y[i - Len(x)]
  BY ConcatProperties
<1> QED BY <1>1 DEF Joined

LEMMA PlacePointMeans ==
  ASSUME NEW a \in Nat, NEW places \in Nat \ {0}
  PROVE  \E long \in Nat : places < long /\ a < PowerOfTen(long) /\ PointIn(PlacePoint(DigitsOf(a), places), a, long, places)
<1>1. PICK len \in Nat \ {0} : a < PowerOfTen(len) /\ DigitsOf(a) = [i \in 1 .. len |-> Place(a, len - i)]
  BY DigitsOfMeans
<1> DEFINE d == DigitsOf(a)
           q == PlacePoint(d, places)
           whole == Len(d) - places
<1>2. d \in Seq(Chars) /\ Len(d) = len /\ \A i \in 1 .. len : d[i] = Place(a, len - i)
  <2>1. \A i \in 1 .. len : Place(a, len - i) \in Chars
    <3>1. \A i \in 1 .. len : len - i \in Nat
      OBVIOUS
    <3> QED BY <3>1, PlaceIs
  <2>2. \A i \in 1 .. len : d[i] = Place(a, len - i)
    BY <1>1
  <2>3. d = [i \in 1 .. len |-> d[i]]
    BY <1>1
  <2>4. d \in [1 .. len -> Chars]
    BY <2>1, <2>2, <2>3
  <2> HIDE DEF d
  <2>5. d \in Seq(Chars) /\ Len(d) = len
    BY <2>3, <2>4, LengthOfFunction, SeqDef
  <2> QED BY <2>2, <2>5
<1>3. q = IF whole <= 0 THEN <<"0", ".">> \o Zeros(-whole) \o d
          ELSE SubSeq(d, 1, whole) \o <<".">> \o SubSeq(d, whole + 1, Len(d))
  BY DEF PlacePoint
<1> HIDE DEF d, q
<1>4. CASE len <= places
  <2> DEFINE n == places - len
             z == Zeros(n)
             o == <<"0", ".">>
             long == places + 1
  <2>1. n \in Nat /\ -whole = n /\ whole <= 0
    <3>1. whole \in Int /\ -whole = 0 - whole
      BY <1>2, Negated
    <3> QED BY <1>2, <1>4, <3>1
  <2>2. z \in Seq(Chars) /\ Len(z) = n /\ \A i \in 1 .. n : z[i] = "0"
    <3> HIDE DEF n
    <3>1. z = [i \in 1 .. n |-> z[i]] /\ z \in [1 .. n -> Chars] /\ \A i \in 1 .. n : z[i] = "0"
      BY CharsAre DEF Zeros
    <3> HIDE DEF z
    <3> QED BY <2>1, <3>1, LengthOfFunction, SeqDef
  <2>3. o \in Seq(Chars) /\ Len(o) = 2 /\ o[1] = "0" /\ o[2] = "."
    BY CharsAre
  <2>4. q = o \o z \o d
    BY <1>3, <2>1
  <2> HIDE DEF n, z, o
  <2>5. o \o z \in Seq(Chars) /\ Len(o \o z) = 2 + n
        /\ \A i \in 1 .. 2 + n : (o \o z)[i] = IF i <= 2 THEN o[i] ELSE z[i - 2]
    <3>1. Joined(o \o z, o, z, Chars, 2, n)
      BY <2>2, <2>3, JoinedAt
    <3> QED BY <3>1 DEF Joined
  <2>6. q \in Seq(Chars) /\ Len(q) = 2 + n + len
        /\ \A i \in 1 .. 2 + n + len : q[i] = IF i <= 2 + n THEN (o \o z)[i] ELSE d[i - (2 + n)]
    <3> DEFINE x == o \o z
    <3>1. x \in Seq(Chars) /\ Len(x) = 2 + n
      BY <2>5
    <3>2. q = x \o d
      BY <2>4
    <3> HIDE DEF x
    <3>3. q \in Seq(Chars) /\ Len(q) = 2 + n + len
          /\ \A i \in 1 .. 2 + n + len : q[i] = IF i <= 2 + n THEN x[i] ELSE d[i - (2 + n)]
      <4>1. Joined(x \o d, x, d, Chars, 2 + n, len)
        BY <1>2, <3>1, JoinedAt
      <4> QED BY <3>2, <4>1 DEF Joined
    <3> QED BY <3>3 DEF x
  <2>7. 2 + n + len = long + 1 /\ long + 1 - places = 2 /\ long - places = 1 /\ long - places + 2 = 3
    BY <2>1 DEF n
  <2>8. \A m \in Nat : len <= m => a < PowerOfTen(m) /\ Place(a, m) = "0"
    <3> SUFFICES ASSUME NEW m \in Nat, len <= m PROVE a < PowerOfTen(m) /\ Place(a, m) = "0"
      OBVIOUS
    <3>1. len \in 0 .. m
      OBVIOUS
    <3>2. PowerOfTen(len) <= PowerOfTen(m) /\ PowerOfTen(len) \in Nat /\ PowerOfTen(m) \in Nat
      BY <3>1, PowersGrow, PowerType
    <3>3. a < PowerOfTen(m)
      BY <1>1, <3>2
    <3> QED BY <3>3, PlaceIs
  <2>9. q[1] = "0" /\ q[2] = "."
    <3>1. 1 \in 1 .. 2 + n + len /\ 2 \in 1 .. 2 + n + len /\ 1 \in 1 .. 2 + n /\ 2 \in 1 .. 2 + n
      BY <2>1
    <3>2. 1 <= 2 + n /\ 2 <= 2 + n
      BY <2>1
    <3> QED BY <2>3, <2>5, <2>6, <3>1, <3>2
  <2>10. ASSUME NEW i \in 3 .. long + 1 PROVE q[i] = Place(a, long + 1 - i)
    <3>1. CASE i <= 2 + n
      <4>1. i \in 1 .. 2 + n + len /\ i \in 1 .. 2 + n /\ ~(i <= 2) /\ i - 2 \in 1 .. n
        BY <2>1, <3>1
      <4>2. q[i] = "0"
        BY <2>2, <2>5, <2>6, <3>1, <4>1
      <4>3. long + 1 - i \in Nat /\ len <= long + 1 - i
        <5>1. long + 1 = 2 + n + len /\ n \in Nat /\ i \in 3 .. 2 + n
          BY <2>1, <2>7, <3>1
        <5> DEFINE l == long + 1
        <5>2. l = 2 + n + len
          BY <5>1
        <5> HIDE DEF l
        <5>3. l - i \in Nat /\ len <= l - i
          BY <5>1, <5>2
        <5> QED BY <5>3 DEF l
      <4> QED BY <2>8, <4>2, <4>3
    <3>2. CASE ~(i <= 2 + n)
      <4>1. i \in 1 .. 2 + n + len /\ i - (2 + n) \in 1 .. len /\ len - (i - (2 + n)) = long + 1 - i
        BY <2>1, <2>7, <3>2
      <4>2. q[i] = d[i - (2 + n)]
        BY <2>6, <3>2, <4>1
      <4> QED BY <1>2, <4>1, <4>2
    <3> QED BY <3>1, <3>2
  <2>11. ASSUME NEW i \in 1 .. long - places PROVE q[i] = Place(a, long - i)
    <3>1. i = 1 /\ long - i = places
      BY <2>7
    <3> QED BY <1>4, <2>8, <2>9, <3>1
  <2>12. long \in Nat /\ places < long /\ len <= long
    BY <1>4
  <2> HIDE DEF long
  <2>13. PointIn(q, a, long, places)
    BY <2>6, <2>7, <2>9, <2>10, <2>11 DEF PointIn
  <2> QED BY <2>8, <2>12, <2>13 DEF q, d
<1>5. CASE ~(len <= places)
  <2> DEFINE front == SubSeq(d, 1, whole)
             back == SubSeq(d, whole + 1, Len(d))
             o == <<".">>
  <2>1. whole = len - places /\ whole \in 1 .. len - 1 /\ ~(whole <= 0)
    BY <1>2, <1>5
  <2>2. q = front \o o \o back
    BY <1>3, <2>1
  <2>3. front \in Seq(Chars) /\ Len(front) = whole /\ \A i \in 1 .. whole : front[i] = d[i]
    <3> DEFINE one == 1
               w == whole
    <3>1. one \in 1 .. Len(d) + 1 /\ w \in 0 .. Len(d)
      BY <1>2, <2>1
    <3> HIDE DEF one, w
    <3>2. /\ SubSeq(d, one, w) \in Seq(Chars)
          /\ Len(SubSeq(d, one, w)) = IF one <= w THEN w - one + 1 ELSE 0
          /\ \A i \in 1 .. w - one + 1 : SubSeq(d, one, w)[i] = d[one + i - 1]
      BY <1>2, <3>1, PartOf
    <3>3. (IF one <= w THEN w - one + 1 ELSE 0) = whole /\ w - one + 1 = whole /\ \A i \in 1 .. whole : one + i - 1 = i
      BY <2>1 DEF one, w
    <3>4. front = SubSeq(d, one, w)
      BY DEF one, w
    <3> HIDE DEF front, whole
    <3> QED BY <3>2, <3>3, <3>4
  <2>4. back \in Seq(Chars) /\ Len(back) = places /\ \A i \in 1 .. places : back[i] = d[whole + i]
    <3> DEFINE b == whole + 1
    <3>1. b \in 1 .. Len(d) + 1 /\ len \in 0 .. Len(d)
      BY <1>2, <2>1
    <3>2. back = SubSeq(d, b, len)
      BY <1>2
    <3>3. b \in Int /\ b <= len /\ len - b + 1 = places /\ \A i \in 1 .. places : b + i - 1 = whole + i
      BY <1>5, <2>1
    <3> HIDE DEF b, back, whole
    <3>4. /\ SubSeq(d, b, len) \in Seq(Chars)
          /\ Len(SubSeq(d, b, len)) = IF b <= len THEN len - b + 1 ELSE 0
          /\ \A i \in 1 .. len - b + 1 : SubSeq(d, b, len)[i] = d[b + i - 1]
      BY <1>2, <3>1, PartOf
    <3> QED BY <3>2, <3>3, <3>4
  <2>5. o \in Seq(Chars) /\ Len(o) = 1 /\ o[1] = "."
    BY CharsAre
  <2> HIDE DEF front, back, o, whole
  <2> DEFINE x == front \o o
  <2>6. x \in Seq(Chars) /\ Len(x) = whole + 1
        /\ \A i \in 1 .. whole + 1 : x[i] = IF i <= whole THEN front[i] ELSE o[i - whole]
    <3>1. Joined(front \o o, front, o, Chars, whole, 1)
      BY <2>3, <2>5, JoinedAt
    <3> QED BY <3>1 DEF Joined
  <2>7. q = x \o back
    BY <2>2
  <2> HIDE DEF x
  <2>8. q \in Seq(Chars) /\ Len(q) = whole + 1 + places
        /\ \A i \in 1 .. whole + 1 + places : q[i] = IF i <= whole + 1 THEN x[i] ELSE back[i - (whole + 1)]
    <3>1. Joined(x \o back, x, back, Chars, whole + 1, places)
      BY <2>4, <2>6, JoinedAt
    <3> QED BY <2>7, <3>1 DEF Joined
  <2>9. whole + 1 + places = len + 1 /\ len + 1 - places = whole + 1 /\ len - places = whole /\ len - places + 2 = whole + 2
    BY <2>1
  <2>10. q[whole + 1] = "."
    <3>1. whole + 1 \in 1 .. whole + 1 + places /\ whole + 1 <= whole + 1 /\ whole + 1 \in 1 .. whole + 1
          /\ ~(whole + 1 <= whole) /\ (whole + 1) - whole = 1
      BY <2>1
    <3>2. q[whole + 1] = x[whole + 1]
      BY <2>8, <3>1
    <3>3. x[whole + 1] = o[(whole + 1) - whole]
      <4> DEFINE j == whole + 1
      <4>1. j \in 1 .. whole + 1 /\ ~(j <= whole)
        BY <3>1
      <4> HIDE DEF j
      <4>2. x[j] = o[j - whole]
        BY <2>6, <4>1
      <4> QED BY <4>2 DEF j
    <3> QED BY <2>5, <3>1, <3>2, <3>3
  <2>11. ASSUME NEW i \in 1 .. whole PROVE q[i] = Place(a, len - i)
    <3>1. i \in 1 .. whole + 1 + places /\ i <= whole + 1 /\ i \in 1 .. whole + 1 /\ i <= whole /\ i \in 1 .. len
      BY <2>1
    <3> QED BY <1>2, <2>3, <2>6, <2>8, <3>1
  <2>12. ASSUME NEW i \in whole + 2 .. len + 1 PROVE q[i] = Place(a, len + 1 - i)
    <3>1. i \in 1 .. whole + 1 + places /\ ~(i <= whole + 1) /\ i - (whole + 1) \in 1 .. places
          /\ whole + (i - (whole + 1)) = i - 1 /\ i - 1 \in 1 .. len /\ len - (i - 1) = len + 1 - i
      BY <2>1, <2>9
    <3>2. q[i] = back[i - (whole + 1)]
      BY <2>8, <3>1
    <3>3. back[i - (whole + 1)] = d[i - 1]
      BY <2>4, <3>1
    <3> QED BY <1>2, <3>1, <3>2, <3>3
  <2>13. PointIn(q, a, len, places)
    BY <2>8, <2>9, <2>10, <2>11, <2>12 DEF PointIn
  <2>14. places < len /\ len \in Nat
    BY <1>5
  <2> QED BY <1>1, <2>13, <2>14 DEF q, d
<1> QED BY <1>4, <1>5

(* The text of a number, signed and pointed.                               *)
LEMMA NumberToStringMeans ==
  ASSUME NEW v \in Int, NEW scale \in Int, scale <= 0
  PROVE  /\ NumberToString(v, scale) \in Seq(Chars)
         /\ ScaleOfText(NumberToString(v, scale)) = scale
         /\ \E w \in Seq(Chars) :
               /\ WithoutDot(NumberToString(v, scale)) = w /\ Writes(w, Abs(v))
               /\ FirstDigit(w) = IF v < 0 THEN 2 ELSE 1
<1> DEFINE a == Abs(v)
           g == IF v < 0 THEN 1 ELSE 0
           sign == IF v < 0 THEN <<"-">> ELSE <<>>
           places == 0 - scale
           u == NumberToString(v, scale)
           w == WithoutDot(u)
           body == IF scale >= 0 THEN DigitsOf(a) \o Zeros(scale) ELSE PlacePoint(DigitsOf(a), -scale)
<1>1. a \in Nat /\ g \in 0 .. 1 /\ places \in Nat /\ -scale = places
  BY Negated DEF Abs
<1>2. sign \in Seq(Chars) /\ Len(sign) = g /\ (g = 1 => sign[1] = "-")
  BY CharsAre
<1>3. u = sign \o body
  BY DEF NumberToString
<1> DEFINE Shown(long, dot) ==
             /\ long \in Nat \ {0} /\ places < long /\ a < PowerOfTen(long) /\ u \in Seq(Chars)
             /\ g = 1 => u[1] = "-"
             /\ dot = 0 => /\ places = 0 /\ Len(u) = g + long
                           /\ \A i \in g + 1 .. g + long : u[i] = Place(a, (g + long) - i)
             /\ dot # 0 => /\ dot = (g + long + 1) - places /\ u[dot] = "." /\ Len(u) = g + long + 1
                           /\ \A i \in g + 1 .. dot - 1 : u[i] = Place(a, (g + long) - i)
                           /\ \A i \in dot + 1 .. g + long + 1 : u[i] = Place(a, (g + long + 1) - i)
<1>4. \E long, dot : Shown(long, dot)
  <2>1. CASE scale = 0
    <3>1. PICK len \in Nat \ {0} : a < PowerOfTen(len) /\ DigitsOf(a) = [i \in 1 .. len |-> Place(a, len - i)]
      BY <1>1, DigitsOfMeans
    <3> DEFINE d == DigitsOf(a)
               z == Zeros(scale)
    <3>2. d \in Seq(Chars) /\ Len(d) = len /\ \A i \in 1 .. len : d[i] = Place(a, len - i)
      <4>1. \A i \in 1 .. len : Place(a, len - i) \in Chars
        <5>1. \A i \in 1 .. len : len - i \in Nat
          OBVIOUS
        <5> HIDE DEF a
        <5> QED BY <1>1, <5>1, PlaceIs
      <4>2. \A i \in 1 .. len : d[i] = Place(a, len - i)
        BY <3>1
      <4>3. d = [i \in 1 .. len |-> d[i]]
        BY <3>1
      <4>4. d \in [1 .. len -> Chars]
        BY <4>1, <4>2, <4>3
      <4> HIDE DEF d
      <4>5. d \in Seq(Chars) /\ Len(d) = len
        BY <4>3, <4>4, LengthOfFunction, SeqDef
      <4> QED BY <4>2, <4>5
    <3>3. z = <<>>
      <4>1. z = [i \in 1 .. 0 |-> z[i]] /\ z \in [1 .. 0 -> Chars]
        BY <2>1 DEF Zeros
      <4> DEFINE zero == 0
      <4>2. zero \in Nat /\ z = [i \in 1 .. zero |-> z[i]] /\ z \in [1 .. zero -> Chars]
        BY <4>1
      <4> HIDE DEF zero, z
      <4>3. Len(z) = zero /\ z \in Seq(Chars)
        BY <4>2, LengthOfFunction, SeqDef
      <4> QED BY <4>3, EmptySeq DEF zero
    <3>4. body = d \o z
      BY <2>1
    <3> HIDE DEF d, z, body, a, sign, u
    <3>5. body = d
      BY <3>2, <3>3, <3>4, ConcatEmptySeq
    <3>6. Joined(u, sign, d, Chars, g, len)
      BY <1>2, <1>3, <3>2, <3>5, JoinedAt
    <3> HIDE DEF g, places
    <3>7. u \in Seq(Chars) /\ Len(u) = g + len /\ \A i \in 1 .. g + len : u[i] = IF i <= g THEN sign[i] ELSE d[i - g]
      BY <3>6 DEF Joined
    <3>8. ASSUME NEW i \in g + 1 .. g + len PROVE u[i] = Place(a, (g + len) - i)
      <4>1. i \in 1 .. g + len /\ ~(i <= g) /\ i - g \in 1 .. len /\ len - (i - g) = (g + len) - i
        BY <1>1
      <4> QED BY <3>2, <3>7, <4>1
    <3>9. g = 1 => u[1] = "-"
      <4>1. g = 1 => 1 \in 1 .. g + len /\ 1 <= g
        OBVIOUS
      <4> QED BY <1>2, <3>7, <4>1
    <3>10. places = 0 /\ places < len
      BY <2>1 DEF places
    <3> WITNESS len, 0
    <3> QED BY <3>1, <3>7, <3>8, <3>9, <3>10
  <2>2. CASE scale # 0
    <3>1. places \in Nat \ {0} /\ body = PlacePoint(DigitsOf(a), places)
      <4>1. ~(scale >= 0) /\ places # 0
        BY <2>2
      <4> QED BY <1>1, <4>1
    <3> HIDE DEF body, a, sign, u, places
    <3>2. PICK long \in Nat : places < long /\ a < PowerOfTen(long) /\ PointIn(body, a, long, places)
      BY <1>1, <3>1, PlacePointMeans
    <3>3. /\ body \in Seq(Chars) /\ Len(body) = long + 1 /\ body[long + 1 - places] = "."
          /\ \A i \in 1 .. long - places : body[i] = Place(a, long - i)
          /\ \A i \in long - places + 2 .. long + 1 : body[i] = Place(a, long + 1 - i)
      BY <3>2 DEF PointIn
    <3>4. Joined(u, sign, body, Chars, g, long + 1)
      BY <1>2, <1>3, <3>3, JoinedAt
    <3> HIDE DEF g
    <3>5. u \in Seq(Chars) /\ Len(u) = g + (long + 1) /\ \A i \in 1 .. g + (long + 1) : u[i] = IF i <= g THEN sign[i] ELSE body[i - g]
      BY <3>4 DEF Joined
    <3> DEFINE dot == (g + long + 1) - places
    <3>6. dot \in 1 .. g + (long + 1) /\ ~(dot <= g) /\ dot - g = long + 1 - places /\ dot # 0
      BY <1>1, <3>1, <3>2
    <3>7. u[dot] = "."
      BY <3>3, <3>5, <3>6
    <3>8. ASSUME NEW i \in g + 1 .. dot - 1 PROVE u[i] = Place(a, (g + long) - i)
      <4>1. i \in 1 .. g + (long + 1) /\ ~(i <= g) /\ i - g \in 1 .. long - places /\ long - (i - g) = (g + long) - i
        BY <1>1, <3>1, <3>2
      <4> QED BY <3>3, <3>5, <4>1
    <3>9. ASSUME NEW i \in dot + 1 .. g + long + 1 PROVE u[i] = Place(a, (g + long + 1) - i)
      <4>1. i \in 1 .. g + (long + 1) /\ ~(i <= g) /\ i - g \in long - places + 2 .. long + 1 /\ long + 1 - (i - g) = (g + long + 1) - i
        BY <1>1, <3>1, <3>2
      <4> QED BY <3>3, <3>5, <4>1
    <3>10. g = 1 => u[1] = "-"
      <4>1. g = 1 => 1 \in 1 .. g + (long + 1) /\ 1 <= g
        BY <3>1, <3>2
      <4> QED BY <1>2, <3>5, <4>1
    <3>11. Len(u) = g + long + 1 /\ long # 0
      BY <1>1, <3>1, <3>2, <3>5
    <3> WITNESS long, dot
    <3> HIDE DEF dot
    <3> QED BY <3>2, <3>5, <3>6, <3>7, <3>8, <3>9, <3>10, <3>11 DEF dot
  <2> QED BY <2>1, <2>2
<1>5. PICK long, dot : Shown(long, dot)
  BY <1>4
<1> HIDE DEF body, a, sign, u
<1>6. u \in Seq(Chars) /\ long \in Nat \ {0} /\ places < long /\ a < PowerOfTen(long)
  BY <1>5
<1>7. \A m \in Nat : Place(a, m) # "." /\ Place(a, m) # "-" /\ IsDigit(Place(a, m))
  BY <1>1, PlaceIs
<1> DEFINE last == LastDot(u)
<1>8. /\ last \in 0 .. Len(u) /\ (last # 0 => u[last] = ".")
      /\ \A i \in 1 .. Len(u) : u[i] = "." => i <= last
      /\ w \in Seq(Chars) /\ Len(w) = (IF last = 0 THEN Len(u) ELSE Len(u) - 1)
      /\ \A j \in 1 .. Len(w) : w[j] = u[BehindDot(u, j)]
  BY <1>6, WithoutDotMeans
<1>9. \A j : BehindDot(u, j) = IF last = 0 \/ j < last THEN j ELSE j + 1
  BY DEF BehindDot
<1> HIDE DEF w, last
<1>10. /\ last = dot /\ Len(w) = g + long /\ (g = 1 => w[1] = "-") /\ ScaleOfText(u) = scale
       /\ \A j \in g + 1 .. g + long : w[j] = Place(a, (g + long) - j)
  <2>1. g = 1 => u[1] = "-"
    BY <1>5
  <2>2. CASE dot = 0
    <3>1. places = 0 /\ Len(u) = g + long /\ \A i \in g + 1 .. g + long : u[i] = Place(a, (g + long) - i)
      BY <1>5, <2>2
    <3> HIDE DEF g, places
    <3>2. last = 0
      <4> SUFFICES ASSUME last # 0 PROVE FALSE
        OBVIOUS
      <4>1. last \in 1 .. g + long /\ u[last] = "."
        BY <1>1, <1>6, <1>8, <3>1
      <4>2. CASE last <= g
        <5>1. g = 1 /\ last = 1
          BY <1>1, <4>1, <4>2
        <5> QED BY <2>1, <4>1, <5>1
      <4>3. CASE ~(last <= g)
        <5>1. last \in g + 1 .. g + long /\ (g + long) - last \in Nat
          BY <1>1, <1>6, <4>1, <4>3
        <5> QED BY <1>7, <3>1, <4>1, <5>1
      <4> QED BY <4>2, <4>3
    <3>3. \A j \in 1 .. g + long : w[j] = u[j]
      BY <1>8, <1>9, <3>1, <3>2
    <3>4. (g = 1 => 1 \in 1 .. g + long) /\ \A j \in g + 1 .. g + long : j \in 1 .. g + long
      BY <1>1, <1>6
    <3>5. scale = 0
      BY <3>1 DEF places
    <3>6. ScaleOfText(u) = 0
      BY <3>2 DEF ScaleOfText, last
    <3> QED BY <1>8, <2>1, <2>2, <3>1, <3>2, <3>3, <3>4, <3>5, <3>6
  <2>3. CASE dot # 0
    <3>1. /\ dot = (g + long + 1) - places /\ u[dot] = "." /\ Len(u) = g + long + 1
          /\ \A i \in g + 1 .. dot - 1 : u[i] = Place(a, (g + long) - i)
          /\ \A i \in dot + 1 .. g + long + 1 : u[i] = Place(a, (g + long + 1) - i)
      BY <1>5, <2>3
    <3> HIDE DEF g, places
    <3>2. dot \in g + 2 .. g + long + 1
      BY <1>1, <1>6, <3>1
    <3>3. last = dot
      <4>1. dot \in 1 .. Len(u)
        BY <1>1, <3>1, <3>2
      <4>2. dot <= last
        BY <1>8, <3>1, <4>1
      <4>3. ~(dot < last)
        <5> SUFFICES ASSUME dot < last PROVE FALSE
          OBVIOUS
        <5>1. last \in dot + 1 .. g + long + 1 /\ (g + long + 1) - last \in Nat /\ last # 0
          BY <1>1, <1>6, <1>8, <3>1, <3>2
        <5> QED BY <1>7, <1>8, <3>1, <5>1
      <4> QED BY <1>8, <4>1, <4>2, <4>3
    <3>4. Len(w) = g + long
      BY <1>1, <1>6, <1>8, <3>1, <3>2, <3>3
    <3>5. g = 1 => w[1] = "-"
      <4>1. g = 1 => 1 \in 1 .. Len(w) /\ 1 < last
        BY <1>6, <3>2, <3>3, <3>4
      <4> QED BY <1>8, <1>9, <2>1, <4>1
    <3>6. ASSUME NEW j \in g + 1 .. g + long PROVE w[j] = Place(a, (g + long) - j)
      <4>1. j \in 1 .. Len(w)
        BY <1>1, <1>6, <3>4
      <4>2. CASE j < dot
        <5>1. w[j] = u[j] /\ j \in g + 1 .. dot - 1
          BY <1>1, <1>6, <1>8, <1>9, <3>2, <3>3, <4>1, <4>2
        <5> QED BY <3>1, <5>1
      <4>3. CASE ~(j < dot)
        <5>1. w[j] = u[j + 1]
          <6>1. last # 0 /\ ~(j < last)
            BY <1>1, <3>2, <3>3, <4>3
          <6>2. BehindDot(u, j) = j + 1
            BY <1>9, <6>1
          <6> QED BY <1>8, <4>1, <6>2
        <5>2. j + 1 \in dot + 1 .. g + long + 1 /\ (g + long + 1) - (j + 1) = (g + long) - j
          BY <1>1, <1>6, <3>2, <4>3
        <5> QED BY <3>1, <5>1, <5>2
      <4> QED BY <4>2, <4>3
    <3>7. ScaleOfText(u) = scale
      <4>1. ASSUME NEW i \in dot + 1 .. Len(u) PROVE IsDigit(u[i])
        <5>1. i \in dot + 1 .. g + long + 1 /\ (g + long + 1) - i \in Nat
          BY <1>1, <1>6, <3>1, <3>2
        <5> QED BY <1>7, <3>1, <5>1
      <4>2. Len(u) - dot = places
        BY <1>1, <1>6, <3>1
      <4>3. LastDot(u) # 0 /\ LastDot(u) = dot
        BY <2>3, <3>3 DEF last
      <4>4. ScaleOfText(u) = -(Len(u) - dot)
        BY <1>6, <4>1, <4>3, ScaleOfTextIs
      <4>5. -places = scale
        BY Negated DEF places
      <4> QED BY <4>2, <4>4, <4>5
    <3> QED BY <3>3, <3>4, <3>5, <3>6, <3>7
  <2> QED BY <2>2, <2>3
<1>11. FirstDigit(w) = g + 1
  <2>1. CASE g = 1
    <3>1. w # <<>>
      <4>1. Len(w) # 0
        BY <1>6, <1>10, <2>1
      <4> QED BY <1>8, <4>1, EmptySeq
    <3>2. w[1] = "-"
      BY <1>10, <2>1
    <3>3. FirstDigit(w) = 2
      BY <3>1, <3>2 DEF FirstDigit
    <3> QED BY <2>1, <3>3
  <2>2. CASE g = 0
    <3>1. 1 \in g + 1 .. g + long /\ (g + long) - 1 \in Nat
      BY <1>6, <2>2
    <3>2. w[1] = Place(a, (g + long) - 1)
      BY <1>10, <3>1
    <3>3. w[1] # "-"
      BY <1>7, <3>1, <3>2
    <3>4. FirstDigit(w) = 1
      BY <3>3 DEF FirstDigit
    <3> QED BY <2>2, <3>4
  <2> QED BY <1>1, <2>1, <2>2
<1>12. Writes(w, a)
  <2>1. Len(w) >= FirstDigit(w) /\ Len(w) - FirstDigit(w) + 1 = long /\ FirstDigit(w) = g + 1 /\ Len(w) = g + long
    BY <1>1, <1>6, <1>10, <1>11
  <2> HIDE DEF g
  <2> QED BY <1>6, <1>10, <2>1 DEF Writes
<1>13. g + 1 = IF v < 0 THEN 2 ELSE 1
  OBVIOUS
<1> HIDE DEF g
<1> QED BY <1>6, <1>8, <1>10, <1>11, <1>12, <1>13 DEF u, w, a

(* A number printed is read as that number, by the parser and with the     *)
(* scale found in the text.                                                *)
LEMMA PrintedIsItself ==
  ASSUME NEW v \in Int, NEW scale \in Int, scale <= 0, NEW t \in IntTypes, Fits(v, t)
  PROVE  /\ FromChars(WithoutDot(NumberToString(v, scale)), t) = Ok(v)
         /\ ScaleOfText(NumberToString(v, scale)) = scale
<1>1. PICK w \in Seq(Chars) : /\ WithoutDot(NumberToString(v, scale)) = w /\ Writes(w, Abs(v))
                              /\ FirstDigit(w) = IF v < 0 THEN 2 ELSE 1
  BY NumberToStringMeans
<1>2. Abs(v) \in Nat /\ Signed(w, Abs(v)) = v
  <2>1. CASE v < 0
    <3>1. Signed(w, Abs(v)) = (-1) * (-v) /\ Abs(v) = -v
      BY <1>1, <2>1 DEF Signed, Abs
    <3> QED BY <2>1, <3>1
  <2>2. CASE ~(v < 0)
    <3>1. Signed(w, Abs(v)) = 1 * v /\ Abs(v) = v
      BY <1>1, <2>2 DEF Signed, Abs
    <3> QED BY <2>2, <3>1
  <2> QED BY <2>1, <2>2
<1>3. FromChars(w, t) = Ok(v)
  BY <1>1, <1>2, WrittenIsRead
<1> QED BY <1>1, <1>3, NumberToStringMeans

LEMMA PrintedStored ==
  ASSUME NEW v \in Int, NEW scale \in Int, scale <= 0, NEW t \in {"INT16", "INT32", "INT64"}, Fits(v, t)
  PROVE  StringToInt(NumberToString(v, scale), t, scale) = Ok(v)
<1> DEFINE u == NumberToString(v, scale)
<1>1. "INT64" \in IntTypes /\ Fits(v, "INT64")
  <2> DEFINE a == Limit[t]
             b == Limit["INT64"]
  <2>1. a \in Nat /\ b \in Nat /\ a <= b
    BY NumericAssumption DEF IntTypes
  <2>2. Fits(v, t) <=> v \in -a .. a - 1
    BY DEF Fits, MinOf, MaxOf
  <2>3. Fits(v, "INT64") <=> v \in -b .. b - 1
    BY DEF Fits, MinOf, MaxOf
  <2> HIDE DEF a, b
  <2>4. Fits(v, "INT64")
    BY <2>1, <2>2, <2>3
  <2> QED BY <2>4 DEF IntTypes
<1>2. FromChars(WithoutDot(u), "INT64") = Ok(v) /\ ScaleOfText(u) = scale
  BY <1>1, PrintedIsItself
<1> HIDE DEF u
<1>3. Scaled(v, scale - scale) = v
  BY SameScale
<1>4. StringToInt(u, t, scale) = IF Fits(Scaled(v, scale - scale), t) THEN Ok(Scaled(v, scale - scale))
                                 ELSE Throw("numeric_out_of_range")
  <2>1. ScaleOfText(u) \in Int
    BY <1>2
  <2>2. StringToInt(u, t, scale) = IF Fits(Scaled(v, scale - ScaleOfText(u)), t) THEN Ok(Scaled(v, scale - ScaleOfText(u)))
                                   ELSE Throw("numeric_out_of_range")
    BY <1>2, <2>1, StringToIntMeans
  <2> QED BY <1>2, <2>2
<1> QED BY <1>3, <1>4 DEF u

-----------------------------------------------------------------------------
(* Quotients and remainders. *)

LEMMA DivMod ==
  ASSUME NEW b \in Nat \ {0}, NEW q \in Int, NEW r \in 0 .. b - 1
  PROVE  (q * b + r) \div b = q /\ (q * b + r) % b = r
<1>1. q * b \in Int /\ b * q = q * b
  OBVIOUS
<1> DEFINE k == q * b
           a == k + r
<1>2. a \in Int /\ b * q <= a /\ a < b * q + b
  <2>1. k \in Int /\ b * q = k
    BY <1>1
  <2> HIDE DEF k
  <2> QED BY <2>1
<1>3. a = k + r /\ k \in Int /\ k = b * q
  BY <1>1
<1> HIDE DEF a, k
<1>4. a \div b = q
  BY <1>2, QuotientIs
<1>5. a % b = a - b * (a \div b)
  BY <1>2
<1> QED BY <1>3, <1>4, <1>5 DEF a, k

LEMMA DivModParts ==
  ASSUME NEW a \in Int, NEW b \in Nat \ {0}
  PROVE  /\ a \div b \in Int /\ a % b \in 0 .. b - 1
         /\ a = (a \div b) * b + (a % b)
<1> DEFINE q == a \div b
<1>1. q \in Int /\ b * q <= a /\ a < b * q + b
  BY QuotientMeans
<1>2. a % b = a - b * (a \div b)
  OBVIOUS
<1> DEFINE k == b * q
<1>3. k \in Int /\ q * b = k
  <2> HIDE DEF q
  <2> QED BY <1>1
<1>4. a % b = a - k /\ k <= a /\ a < k + b
  BY <1>1, <1>2
<1> HIDE DEF k
<1>5. a % b \in 0 .. b - 1 /\ a = k + (a % b)
  BY <1>3, <1>4
<1> QED BY <1>1, <1>3, <1>5

(* A digit in front of what is below its place. *)
LEMMA BelowNext ==
  ASSUME NEW b \in Nat \ {0}, NEW n \in Nat \ {0}, NEW k \in 0 .. n - 1, NEW r \in 0 .. b - 1
  PROVE  k * b + r \in 0 .. n * b - 1 /\ k * b \in Nat /\ n * b \in Nat \ {0}
<1>1. k * b \in Nat /\ n * b \in Nat /\ k * b + b <= n * b
  <2>1. k + 1 <= n /\ (k + 1) * b = k * b + b
    OBVIOUS
  <2>2. (k + 1) * b <= n * b
    BY <2>1
  <2> QED BY <2>1, <2>2
<1> DEFINE x == k * b
           y == n * b
<1>2. x \in Nat /\ y \in Nat /\ x + b <= y
  BY <1>1
<1> HIDE DEF x, y
<1>3. x + r \in 0 .. y - 1 /\ y # 0
  BY <1>2
<1> QED BY <1>2, <1>3 DEF x, y

(* Around the day and back. *)
LEMMA ThereAndBack ==
  ASSUME NEW b \in Nat \ {0}, NEW t \in 0 .. b - 1, NEW o \in Int
  PROVE  (t - o) % b \in 0 .. b - 1 /\ (((t - o) % b) + o) % b = t
<1> DEFINE a == t - o
           q == a \div b
           r == a % b
           k == q * b
           p == -q
<1>1. a \in Int
  OBVIOUS
<1> HIDE DEF a
<1>2. q \in Int /\ r \in 0 .. b - 1 /\ a = k + r
  BY <1>1, DivModParts
<1> HIDE DEF q, r
<1>3. k \in Int /\ p \in Int /\ p * b = -k
  BY <1>2
<1> HIDE DEF k, p
<1>4. r + o = p * b + t
  BY <1>2, <1>3 DEF a
<1>5. (p * b + t) % b = t
  BY <1>3, DivMod
<1> QED BY <1>2, <1>4, <1>5 DEF a, r

-----------------------------------------------------------------------------
(* Digits of a fraction of a second. *)

(* Digits are read one by one, each ten times below the one before. *)
Reads(h, start, d, n) == h[0] = start /\ \A i \in 1 .. n : h[i] = h[i - 1] * 10 + d[i]

LEMMA ReadingExists ==
  ASSUME NEW n \in Nat, NEW d \in [1 .. n -> 0 .. 9], NEW start \in Nat
  PROVE  \E h \in [0 .. n -> Nat] : Reads(h, start, d, n)
<1> DEFINE step == [p \in (Nat \ {0}) \X Nat |-> IF p[1] \in 1 .. n THEN p[2] * 10 + d[p[1]] ELSE 0]
<1>1. ASSUME NEW i \in Nat \ {0}, NEW v \in Nat
      PROVE  step[<<i, v>>] = IF i \in 1 .. n THEN v * 10 + d[i] ELSE 0
  OBVIOUS
<1> HIDE DEF step
<1>2. StepsWithin(Nat, step)
  <2>1. ASSUME NEW i \in Nat \ {0}, NEW v \in Nat PROVE step[<<i, v>>] \in Nat
    <3>1. CASE i \in 1 .. n
      <4>1. d[i] \in 0 .. 9
        BY <3>1
      <4>2. v * 10 + d[i] \in Nat
        BY <4>1
      <4> QED BY <1>1, <3>1, <4>2
    <3>2. CASE i \notin 1 .. n
      BY <1>1, <3>2
    <3> QED BY <3>1, <3>2
  <2> QED BY <2>1 DEF StepsWithin
<1>3. PICK h \in [0 .. n -> Nat] : Unfolds(h, start, step, n)
  BY <1>2, RecursionExists
<1>4. ASSUME NEW i \in 1 .. n PROVE h[i] = h[i - 1] * 10 + d[i]
  <2>1. i \in Nat \ {0} /\ i - 1 \in 0 .. n
    OBVIOUS
  <2>2. h[i - 1] \in Nat /\ h[i] = step[<<i, h[i - 1]>>]
    BY <1>3, <2>1 DEF Unfolds
  <2> QED BY <1>1, <2>1, <2>2
<1> QED BY <1>3, <1>4 DEF Unfolds, Reads

LEMMA FractionReads ==
  ASSUME NEW d \in Seq(0 .. 9), Len(d) <= FractionDigits, NEW h, Reads(h, 0, d, Len(d))
  PROVE  Fraction(d) = h[Len(d)] * PowerOfTen(FractionDigits - Len(d))
<1> DEFINE n == Len(d)
           Loop(g) == [i \in 0 .. n |-> IF i = 0 THEN 0 ELSE g[i - 1] * 10 + d[i]]
           number == CHOOSE g : g = Loop(g)
           z == 0
<1>1. n \in Nat /\ z \in Nat /\ d \in [1 .. n -> 0 .. 9]
  BY LenProperties
<1> HIDE DEF n, z
<1>2. PICK f \in [0 .. n -> Nat] : Reads(f, z, d, n)
  BY <1>1, ReadingExists
<1>3. f = Loop(f)
  BY <1>2, <1>1 DEF Reads, z
<1>4. number = Loop(number)
  <2> HIDE DEF Loop
  <2> QED BY <1>3
<1> HIDE DEF number
<1>5. Reads(number, 0, d, n)
  <2>1. 0 \in 0 .. n /\ \A i \in 1 .. n : i \in 0 .. n /\ i # 0
    BY <1>1
  <2> QED BY <1>4, <2>1 DEF Reads
<1>6. number[n] = h[n]
  <2>1. GoTogether(number, h, n)
    BY <1>5 DEF Reads, GoTogether, n
  <2> QED BY <1>1, <2>1, RecursionAgrees
<1>7. Fraction(d) = number[n] * PowerOfTen(FractionDigits - n)
  BY DEF Fraction, number, n
<1> QED BY <1>6, <1>7 DEF n

(* Behind the same digits, a start weighs its power of ten. *)
LEMMA StartWeighs ==
  ASSUME NEW n \in Nat, NEW d \in [1 .. n -> 0 .. 9], NEW x \in Nat,
         NEW h \in [0 .. n -> Nat], Reads(h, x, d, n), NEW g \in [0 .. n -> Nat], Reads(g, 0, d, n)
  PROVE  h[n] = x * PowerOfTen(n) + g[n] /\ g[n] < PowerOfTen(n)
<1> DEFINE S == {i \in Nat : i \in 0 .. n => h[i] = x * PowerOfTen(i) + g[i] /\ g[i] < PowerOfTen(i)}
<1>1. 0 \in S
  <2>1. h[0] = x /\ g[0] = 0 /\ PowerOfTen(0) = 1
    BY PowerStep DEF Reads
  <2>2. x = x * 1 + 0 /\ 0 < 1
    OBVIOUS
  <2> QED BY <2>1, <2>2
<1>2. ASSUME NEW i \in Nat, i \in S PROVE i + 1 \in S
  <2> SUFFICES ASSUME i + 1 \in 0 .. n
               PROVE  h[i + 1] = x * PowerOfTen(i + 1) + g[i + 1] /\ g[i + 1] < PowerOfTen(i + 1)
    OBVIOUS
  <2> DEFINE a == g[i]
             b == h[i]
             p == PowerOfTen(i)
             c == d[i + 1]
             k == x * p
  <2>1. i \in 0 .. n /\ i + 1 \in 1 .. n /\ (i + 1) - 1 = i
    OBVIOUS
  <2>2. a \in Nat /\ b \in Nat /\ p \in Nat \ {0} /\ c \in 0 .. 9
    BY <2>1, PowerType
  <2>3. g[i + 1] = a * 10 + c /\ h[i + 1] = b * 10 + c
    BY <2>1 DEF Reads
  <2>4. b = k + a /\ a < p
    BY <1>2, <2>1
  <2>5. PowerOfTen(i + 1) = 10 * p
    BY PowerStep
  <2> HIDE DEF a, b, p, c
  <2>6. k \in Nat /\ x * (10 * p) = 10 * k
    BY <2>2
  <2> HIDE DEF k
  <2>7. b * 10 + c = 10 * k + (a * 10 + c) /\ a * 10 + c < 10 * p
    BY <2>2, <2>4, <2>6
  <2> QED BY <2>3, <2>5, <2>6, <2>7
<1>3. Nat \subseteq S
  <2> HIDE DEF S
  <2> QED BY <1>1, <1>2, SetInduction
<1> QED BY <1>3

(* Zeros behind the digits, up to the full width, change nothing. *)
Padded(d) == [i \in 1 .. FractionDigits |-> IF i <= Len(d) THEN d[i] ELSE 0]

LEMMA PaddedReads ==
  ASSUME NEW d \in Seq(0 .. 9), Len(d) <= FractionDigits
  PROVE  /\ Padded(d) \in Seq(0 .. 9) /\ Len(Padded(d)) = FractionDigits
         /\ Padded(d) \in [1 .. FractionDigits -> 0 .. 9]
         /\ Fraction(Padded(d)) = Fraction(d)
         /\ \A g : Reads(g, 0, Padded(d), FractionDigits) => Fraction(d) = g[FractionDigits]
<1> DEFINE n == FractionDigits
           k == Len(d)
           e == Padded(d)
           z == 0
<1>1. n \in Nat /\ k \in Nat /\ k <= n /\ z \in Nat
  BY CalendarAssumption, LenProperties
<1>2. ASSUME NEW i \in 1 .. n PROVE e[i] = IF i <= k THEN d[i] ELSE 0
  BY DEF Padded
<1>3. e \in [1 .. n -> 0 .. 9] /\ e = [i \in 1 .. n |-> e[i]]
  <2>1. ASSUME NEW i \in 1 .. n PROVE e[i] \in 0 .. 9
    <3>1. CASE i <= k
      <4>1. i \in 1 .. Len(d)
        BY <1>1, <3>1
      <4>2. d[i] \in 0 .. 9
        BY <4>1, ElementOfSeq
      <4> QED BY <1>2, <3>1, <4>2
    <3>2. CASE ~(i <= k)
      BY <1>2, <3>2
    <3> QED BY <3>1, <3>2
  <2>2. e = [i \in 1 .. n |-> e[i]]
    BY DEF Padded
  <2> HIDE DEF e
  <2> QED BY <2>1, <2>2
<1>4. e \in Seq(0 .. 9) /\ Len(e) = n
  <2> HIDE DEF e, n
  <2>1. Len(e) = n
    BY <1>1, <1>3, LengthOfFunction
  <2>2. e \in Seq(0 .. 9)
    BY <1>1, <1>3, SeqDef
  <2> QED BY <2>1, <2>2
<1> HIDE DEF e, z
<1>5. PICK g \in [0 .. n -> Nat] : Reads(g, z, e, n)
  <2> HIDE DEF n
  <2> QED BY <1>1, <1>3, ReadingExists
<1>6. Fraction(e) = g[n]
  <2>1. Len(e) <= FractionDigits /\ FractionDigits - Len(e) = 0
    BY <1>1, <1>4
  <2>2. Reads(g, 0, e, Len(e))
    BY <1>4, <1>5 DEF z
  <2>3. Fraction(e) = g[Len(e)] * PowerOfTen(FractionDigits - Len(e))
    BY <1>4, <2>1, <2>2, FractionReads
  <2>4. g[n] \in Nat
    BY <1>1
  <2> QED BY <1>4, <2>1, <2>3, <2>4, PowerStep
<1>7. Fraction(d) = g[k] * PowerOfTen(n - k)
  <2>1. Reads(g, 0, d, k)
    <3>1. ASSUME NEW i \in 1 .. k PROVE g[i] = g[i - 1] * 10 + d[i]
      <4>1. i \in 1 .. n /\ i <= k
        BY <1>1
      <4> QED BY <4>1, <1>2, <1>5 DEF Reads, e
    <3> QED BY <3>1, <1>5 DEF Reads, z
  <2> QED BY <1>1, <2>1, FractionReads
<1>8. g[n] = g[k] * PowerOfTen(n - k)
  <2> HIDE DEF n, k
  <2> DEFINE S == {j \in Nat : j <= n - k => g[k + j] = g[k] * PowerOfTen(j)}
  <2>0. k \in 0 .. n /\ g[k] \in Nat
    BY <1>1
  <2>1. 0 \in S
    BY <2>0, <1>1, PowerStep
  <2>2. ASSUME NEW j \in Nat, j \in S PROVE j + 1 \in S
    <3> SUFFICES ASSUME j + 1 <= n - k PROVE g[k + (j + 1)] = g[k] * PowerOfTen(j + 1)
      OBVIOUS
    <3> DEFINE i == k + (j + 1)
               p == PowerOfTen(j)
               a == g[k]
    <3>1. i \in 1 .. n /\ ~(i <= k) /\ i - 1 = k + j /\ j <= n - k /\ k + j \in 0 .. n
      BY <1>1
    <3>2. e[i] = 0
      BY <3>1, <1>2 DEF e, n, k
    <3>3. g[i] = g[k + j] * 10 + e[i]
      BY <3>1, <1>5 DEF Reads
    <3>4. g[k + j] = a * p
      BY <2>2, <3>1
    <3>5. a \in Nat /\ p \in Nat /\ PowerOfTen(j + 1) = 10 * p
      BY <2>0, PowerType, PowerStep
    <3> HIDE DEF i, p, a
    <3>6. (a * p) * 10 + 0 = a * (10 * p)
      BY <3>5
    <3> QED BY <3>2, <3>3, <3>4, <3>5, <3>6 DEF i, a
  <2>3. Nat \subseteq S
    <3> HIDE DEF S
    <3> QED BY <2>1, <2>2, SetInduction
  <2>4. n - k \in Nat /\ k + (n - k) = n
    BY <1>1
  <2> QED BY <2>3, <2>4
<1>9. ASSUME NEW f, Reads(f, 0, e, n) PROVE g[n] = f[n]
  <2>1. GoTogether(g, f, n)
    BY <1>5, <1>9 DEF Reads, GoTogether, z
  <2> QED BY <1>1, <2>1, RecursionAgrees
<1> QED BY <1>3, <1>4, <1>6, <1>7, <1>8, <1>9 DEF e

(* The digits of the number read, and what stands before them. *)
LEMMA DigitsReadBack ==
  ASSUME NEW d \in Seq(0 .. 9), Len(d) <= FractionDigits, NEW x \in Nat
  PROVE  LET a == x * PowerOfTen(FractionDigits) + Fraction(d)
         IN  /\ Fraction(d) \in 0 .. PowerOfTen(FractionDigits) - 1
             /\ \A i \in 1 .. FractionDigits : (a \div PowerOfTen(FractionDigits - i)) % 10 = Padded(d)[i]
<1> DEFINE n == FractionDigits
           e == Padded(d)
           z == 0
           a == x * PowerOfTen(n) + Fraction(d)
<1>1. n \in Nat /\ e \in [1 .. n -> 0 .. 9] /\ z \in Nat
  BY CalendarAssumption, PaddedReads
<1> HIDE DEF n, e, z
<1>2. PICK g \in [0 .. n -> Nat] : Reads(g, z, e, n)
  BY <1>1, ReadingExists
<1>3. PICK h \in [0 .. n -> Nat] : Reads(h, x, e, n)
  BY <1>1, ReadingExists
<1>4. Fraction(d) = g[n]
  BY <1>2, PaddedReads DEF n, e, z
<1>5. a = h[n] /\ g[n] < PowerOfTen(n) /\ g[n] \in Nat
  <2>1. Reads(g, 0, e, n)
    BY <1>2 DEF z
  <2>2. h[n] = x * PowerOfTen(n) + g[n] /\ g[n] < PowerOfTen(n)
    BY <1>1, <1>2, <1>3, <2>1, StartWeighs
  <2>3. n \in 0 .. n
    BY <1>1
  <2> QED BY <1>2, <1>4, <2>2, <2>3
<1>6. Fraction(d) \in 0 .. PowerOfTen(n) - 1
  BY <1>1, <1>4, <1>5, PowerType
<1> HIDE DEF a
<1>7. ASSUME NEW i \in 1 .. n PROVE h[i] \div 10 = h[i - 1] /\ h[i] % 10 = e[i]
  <2> DEFINE q == h[i - 1]
             r == e[i]
  <2>1. q \in Nat /\ r \in 0 .. 9 /\ h[i] = q * 10 + r
    BY <1>1, <1>3 DEF Reads
  <2> HIDE DEF q, r
  <2>2. (q * 10 + r) \div 10 = q /\ (q * 10 + r) % 10 = r
    BY <2>1
  <2> QED BY <2>1, <2>2 DEF q, r
<1> DEFINE S == {j \in Nat : j <= n => a \div PowerOfTen(j) = h[n - j]}
<1>8. 0 \in S
  <2>1. h[n] \in Nat
    BY <1>1
  <2>2. h[n] \div 1 = h[n]
    <3> DEFINE b == h[n]
    <3>1. b \in Nat
      BY <2>1
    <3> HIDE DEF b
    <3>2. b \div 1 = b
      BY <3>1
    <3> QED BY <3>2 DEF b
  <2> QED BY <1>1, <1>5, <2>2, PowerStep
<1>9. ASSUME NEW j \in Nat, j \in S PROVE j + 1 \in S
  <2> SUFFICES ASSUME j + 1 <= n PROVE a \div PowerOfTen(j + 1) = h[n - (j + 1)]
    OBVIOUS
  <2> DEFINE p == PowerOfTen(j)
             i == n - j
  <2>1. i \in 1 .. n /\ i - 1 = n - (j + 1) /\ j <= n
    BY <1>1
  <2>2. p \in Nat \ {0} /\ PowerOfTen(j + 1) = 10 * p /\ a \in Nat
    <3>1. n \in 0 .. n
      BY <1>1
    <3>2. a \in Nat
      BY <1>3, <1>5, <3>1
    <3> QED BY <3>2, PowerType, PowerStep
  <2>3. a \div p = h[i]
    BY <1>9, <2>1
  <2> HIDE DEF p, i
  <2>4. a \div (10 * p) = (a \div p) \div 10
    BY <2>2, RoundedDigits
  <2> QED BY <1>7, <2>1, <2>2, <2>3, <2>4
<1>10. Nat \subseteq S
  <2> HIDE DEF S
  <2> QED BY <1>8, <1>9, SetInduction
<1>11. ASSUME NEW i \in 1 .. n PROVE (a \div PowerOfTen(n - i)) % 10 = e[i]
  <2>1. n - i \in Nat /\ n - i <= n /\ n - (n - i) = i
    BY <1>1
  <2>2. a \div PowerOfTen(n - i) = h[i]
    BY <1>10, <2>1
  <2> QED BY <1>7, <2>2
<1> QED BY <1>6, <1>11 DEF n, e, a

-----------------------------------------------------------------------------
(* Dates and times of day. *)

LEMMA CalendarSizes ==
  /\ {TicksPerSecond, TicksPerMinute, TicksPerHour, TICKS_PER_DAY, MicrosPerDay} \subseteq Nat \ {0}
  /\ {MicrosPerTick, FractionDigits, SecondsPerMinute, MinutesPerHour,
      HoursPerDay, DaysPerMonth, MonthsPerYear, LastYear, MaxYear, WordSize} \subseteq Nat \ {0}
<1>1. ASSUME NEW a \in Nat \ {0}, NEW b \in Nat \ {0} PROVE a * b \in Nat \ {0}
  OBVIOUS
<1>2. MicrosPerTick \in Nat \ {0} /\ SecondsPerMinute \in Nat \ {0} /\ MinutesPerHour \in Nat \ {0} /\ HoursPerDay \in Nat \ {0}
  BY CalendarAssumption
<1>3. TicksPerSecond \in Nat \ {0}
  BY CalendarAssumption, PowerType DEF TicksPerSecond
<1>4. TicksPerMinute \in Nat \ {0}
  BY <1>1, <1>2, <1>3 DEF TicksPerMinute
<1>5. TicksPerHour \in Nat \ {0}
  BY <1>1, <1>2, <1>4 DEF TicksPerHour
<1>6. TICKS_PER_DAY \in Nat \ {0}
  BY <1>1, <1>2, <1>5 DEF TICKS_PER_DAY
<1>7. MicrosPerDay \in Nat \ {0}
  BY <1>1, <1>2, <1>6 DEF MicrosPerDay
<1> QED BY <1>3, <1>4, <1>5, <1>6, <1>7, CalendarAssumption, YearsAssumption

(* A date is the day it encodes, and each day a date. *)
LEMMA DateReadBack ==
  ASSUME NEW y \in Int, NEW m \in 1 .. MonthsPerYear, NEW d \in 1 .. DaysPerMonth
  PROVE  daysOf(y, m, d) \in Int /\ dateOf(daysOf(y, m, d)) = [y |-> y, m |-> m, d |-> d]
<1> DEFINE M == MonthsPerYear
           D == DaysPerMonth
           n == daysOf(y, m, d)
           months == y * M + (m - 1)
<1>1. M \in Nat \ {0} /\ D \in Nat \ {0}
  BY CalendarSizes
<1>2. m - 1 \in 0 .. M - 1 /\ d - 1 \in 0 .. D - 1 /\ (m - 1) + 1 = m /\ (d - 1) + 1 = d
  BY <1>1
<1>3. months \in Int /\ months * D \in Int
  <2>1. y * M \in Int
    BY <1>1
  <2>2. months \in Int
    <3> DEFINE k == y * M
    <3> HIDE DEF k
    <3> QED BY <2>1 DEF k
  <2> HIDE DEF months
  <2> QED BY <1>1, <2>2
<1>4. n = months * D + (d - 1)
  <2>1. y * M + m - 1 = months
    <3>1. y * M \in Int
      BY <1>1
    <3> DEFINE k == y * M
    <3> HIDE DEF k, M
    <3> QED BY <3>1 DEF k
  <2> DEFINE k == months * D
  <2>2. n = k + d - 1 /\ k \in Int
    BY <1>3, <2>1 DEF daysOf
  <2> HIDE DEF k, n
  <2>3. n = k + (d - 1)
    BY <2>2, <1>2
  <2> QED BY <2>3 DEF k
<1>5. months \div M = y /\ months % M = m - 1
  <2> HIDE DEF M
  <2> QED BY <1>1, <1>2, DivMod
<1> HIDE DEF M, D, n, months
<1>6. n \div D = months /\ n % D = d - 1
  BY <1>1, <1>2, <1>3, <1>4, DivMod
<1>7. n \in Int
  BY <1>2, <1>3, <1>4, <1>1
<1>8. dateOf(n) = [y |-> y, m |-> (m - 1) + 1, d |-> (d - 1) + 1]
  BY <1>5, <1>6 DEF dateOf, M, D
<1> QED BY <1>2, <1>7, <1>8 DEF n

LEMMA DayReadBack ==
  ASSUME NEW n \in Int
  PROVE  LET date == dateOf(n)
         IN  /\ date.y \in Int /\ DateOk(date)
             /\ daysOf(date.y, date.m, date.d) = n
             /\ date.y = (n \div DaysPerMonth) \div MonthsPerYear
<1> DEFINE M == MonthsPerYear
           D == DaysPerMonth
           q == n \div D
           r == n % D
           y == q \div M
           m == q % M
           date == dateOf(n)
<1>1. M \in Nat \ {0} /\ D \in Nat \ {0}
  BY CalendarSizes
<1> HIDE DEF M, D
<1>2. q \in Int /\ r \in 0 .. D - 1 /\ n = q * D + r
  BY <1>1, DivModParts
<1> HIDE DEF q, r
<1>3. y \in Int /\ m \in 0 .. M - 1 /\ q = y * M + m
  BY <1>1, <1>2, DivModParts
<1> HIDE DEF y, m
<1>4. date.y = y /\ date.m = m + 1 /\ date.d = r + 1
  BY DEF dateOf, y, m, r, q, M, D
<1> HIDE DEF date
<1>5. m + 1 \in 1 .. M /\ r + 1 \in 1 .. D
  BY <1>1, <1>2, <1>3
<1>6. daysOf(y, m + 1, r + 1) = n
  <2> DEFINE k == y * M
             l == q * D
  <2>1. k \in Int /\ l \in Int
    BY <1>1, <1>2, <1>3
  <2>2. k + (m + 1) - 1 = q
    <3> HIDE DEF k
    <3> QED BY <1>1, <1>3, <2>1 DEF k
  <2>3. l + (r + 1) - 1 = n
    <3> HIDE DEF l
    <3> QED BY <1>1, <1>2, <2>1 DEF l
  <2> QED BY <2>2, <2>3 DEF daysOf, M, D
<1> QED BY <1>3, <1>4, <1>5, <1>6 DEF DateOk, date, y, q, M, D

(* The client library agrees with that count from year 0 on.               *)
LEMMA LibraryDays ==
  ASSUME NEW n \in Nat
  PROVE  decodeDate(n) = dateOf(n)
BY DEF decodeDate

LEMMA LibraryDates ==
  ASSUME NEW y \in 0 .. MaxYear, NEW m \in 1 .. MonthsPerYear, NEW d \in 1 .. DaysPerMonth
  PROVE  LET n == encodeDate(y, m, d)
         IN  /\ n \in Nat /\ n = daysOf(y, m, d)
             /\ decodeDate(n) = [y |-> y, m |-> m, d |-> d]
<1> DEFINE M == MonthsPerYear
           D == DaysPerMonth
           n == daysOf(y, m, d)
<1>1. M \in Nat \ {0} /\ D \in Nat \ {0} /\ MaxYear \in Nat /\ WordSize \in Nat /\ 2 * MaxYear < WordSize
  BY CalendarSizes, YearsAssumption
<1>2. 2 * y < WordSize
  BY <1>1
<1>3. encodeDate(y, m, d) = n
  BY <1>2 DEF encodeDate
<1>4. n \in Nat
  <2> DEFINE x == y * M
             z == (x + m - 1) * D
  <2>1. x \in Nat
    BY <1>1
  <2> HIDE DEF x
  <2>2. x + m - 1 \in Nat
    BY <1>1, <2>1
  <2>3. z \in Nat
    BY <1>1, <2>2
  <2> HIDE DEF z
  <2>4. n = z + d - 1
    BY DEF daysOf, z, x, M, D
  <2> HIDE DEF n
  <2> QED BY <1>1, <2>3, <2>4
<1>5. y \in Int
  BY <1>1
<1>6. dateOf(n) = [y |-> y, m |-> m, d |-> d]
  BY <1>5, DateReadBack
<1> HIDE DEF n
<1> QED BY <1>3, <1>4, <1>6, LibraryDays DEF n

LEMMA DayThroughLibrary ==
  ASSUME NEW n \in Nat, decodeDate(n).y \in 0 .. MaxYear
  PROVE  LET date == decodeDate(n)
         IN  DateOk(date) /\ encodeDate(date.y, date.m, date.d) = n
<1> DEFINE date == decodeDate(n)
<1>1. date = dateOf(n) /\ n \in Int
  BY LibraryDays
<1>2. DateOk(date) /\ daysOf(date.y, date.m, date.d) = n
  BY <1>1, DayReadBack
<1> HIDE DEF date
<1>3. date.y \in 0 .. MaxYear /\ date.m \in 1 .. MonthsPerYear /\ date.d \in 1 .. DaysPerMonth
  BY <1>2 DEF DateOk, date
<1>4. encodeDate(date.y, date.m, date.d) = daysOf(date.y, date.m, date.d)
  BY <1>3, LibraryDates
<1> QED BY <1>2, <1>4 DEF date

(* The fields of a time of day, from those that were written. *)
TypedFields(t) == /\ t.h \in Nat /\ t.m \in Nat /\ t.s \in Nat
                  /\ t.fraction \in Seq(0 .. 9) /\ Len(t.fraction) <= FractionDigits

LEMMA TimeReadBack ==
  ASSUME NEW t, TypedFields(t), ValidTimeFields(t)
  PROVE  /\ TicksOfFields(t) \in 0 .. TICKS_PER_DAY - 1
         /\ TimeFields(TicksOfFields(t)) = [h |-> t.h, m |-> t.m, s |-> t.s, fraction |-> Padded(t.fraction)]
         /\ Fraction(Padded(t.fraction)) = Fraction(t.fraction)
         /\ \A i \in 1 .. Len(t.fraction) : Padded(t.fraction)[i] = t.fraction[i]
<1> DEFINE h == t.h
           m == t.m
           s == t.s
           d == t.fraction
           f == Fraction(d)
           S == SecondsPerMinute
           M == MinutesPerHour
           H == HoursPerDay
           T == TicksPerSecond
           TM == TicksPerMinute
           TH == TicksPerHour
           low == s * T + f
           mid == m * TM + low
           ticks == h * TH + mid
           Y == h * M + m
           X == Y * S + s
<1>1. /\ S \in Nat \ {0} /\ M \in Nat \ {0} /\ H \in Nat \ {0}
      /\ T \in Nat \ {0} /\ TM \in Nat \ {0} /\ TH \in Nat \ {0} /\ TM = S * T /\ TH = M * TM /\ TICKS_PER_DAY = H * TH
  <2>1. ASSUME NEW a \in Nat, NEW b \in Nat PROVE a * b = b * a
    OBVIOUS
  <2> QED BY <2>1, CalendarSizes DEF TicksPerMinute, TicksPerHour, TICKS_PER_DAY
<1>2. h \in 0 .. H - 1 /\ m \in 0 .. M - 1 /\ s \in 0 .. S - 1
  <2>1. h \in Nat /\ m \in Nat /\ s \in Nat /\ h < H /\ m < M /\ s < S
    BY DEF TypedFields, ValidTimeFields
  <2>2. S \in Nat /\ M \in Nat /\ H \in Nat
    BY <1>1
  <2> HIDE DEF h, m, s, S, M, H
  <2> QED BY <2>1, <2>2
<1>3. d \in Seq(0 .. 9) /\ Len(d) <= FractionDigits
  BY DEF TypedFields
<1>4. f \in 0 .. T - 1
  <2>1. 0 \in Nat
    OBVIOUS
  <2> QED BY <1>3, <2>1, DigitsReadBack DEF TicksPerSecond
<1> HIDE DEF h, m, s, d, f, S, M, H, T, TM, TH
<1>5. low \in 0 .. TM - 1 /\ s * T \in Nat
  BY <1>1, <1>2, <1>4, BelowNext
<1>6. mid \in 0 .. TH - 1 /\ m * TM \in Nat
  <2> HIDE DEF low
  <2> QED BY <1>1, <1>2, <1>5, BelowNext
<1>7. ticks \in 0 .. H * TH - 1 /\ h * TH \in Nat /\ ticks \div TH = h
  <2> HIDE DEF mid
  <2>1. h \in Int
    BY <1>2
  <2> QED BY <1>1, <1>2, <1>6, <2>1, BelowNext, DivMod
<1>8. Y \in Nat /\ ticks = Y * TM + low /\ Y % M = m
  <2>1. h \in Nat /\ m \in Nat /\ M \in Nat /\ TM \in Nat
    BY <1>1, <1>2
  <2>2. h * (M * TM) + m * TM = Y * TM /\ Y \in Nat
    BY <2>1
  <2>3. Y % M = m
    BY <1>1, <1>2, DivMod
  <2> DEFINE a == h * TH
             b == m * TM
             c == Y * TM
  <2>4. a \in Nat /\ b \in Nat /\ c \in Nat /\ low \in Nat /\ a + b = c
    BY <1>1, <1>5, <1>6, <1>7, <2>1, <2>2
  <2> HIDE DEF a, b, c, low, Y
  <2>5. a + (b + low) = c + low
    BY <2>4
  <2> QED BY <2>2, <2>3, <2>5 DEF a, b, c
<1>9. ticks \div TM = Y
  <2> HIDE DEF Y, low, ticks
  <2>1. Y \in Int
    BY <1>8
  <2> QED BY <1>1, <1>5, <1>8, <2>1, DivMod
<1>10. X \in Nat /\ ticks = X * T + f /\ X % S = s
  <2> HIDE DEF Y, ticks
  <2>1. Y \in Nat /\ s \in Nat /\ S \in Nat /\ T \in Nat
    BY <1>1, <1>2, <1>8
  <2>2. Y * (S * T) + s * T = X * T /\ X \in Nat
    BY <2>1
  <2>3. X % S = s
    BY <1>1, <1>2, <1>8, DivMod
  <2> DEFINE a == Y * TM
             b == s * T
             c == X * T
  <2>4. a \in Nat /\ b \in Nat /\ c \in Nat /\ f \in Nat /\ a + b = c /\ ticks = a + (b + f)
    BY <1>1, <1>4, <1>5, <1>8, <2>1, <2>2
  <2> HIDE DEF a, b, c, X
  <2>5. a + (b + f) = c + f
    BY <2>4
  <2> QED BY <2>2, <2>3, <2>4, <2>5 DEF c
<1>11. ticks \div T = X
  <2> HIDE DEF X, ticks
  <2>1. X \in Int
    BY <1>10
  <2> QED BY <1>1, <1>4, <1>10, <2>1, DivMod
<1> HIDE DEF X, Y
<1>12. TicksOfFields(t) = ticks
  <2> DEFINE a == h * TH
             b == m * TM
             c == s * T
  <2>1. TicksOfFields(t) = a + b + c + f
    BY DEF TicksOfFields, encodeTime, h, m, s, d, f, T, TM, TH
  <2>2. a \in Nat /\ b \in Nat /\ c \in Nat /\ f \in Nat
    BY <1>4, <1>5, <1>6, <1>7
  <2>3. ticks = a + (b + (c + f))
    OBVIOUS
  <2> HIDE DEF a, b, c, ticks
  <2> QED BY <2>1, <2>2, <2>3
<1> HIDE DEF ticks
<1>13. \A i \in 1 .. FractionDigits : (ticks \div PowerOfTen(FractionDigits - i)) % 10 = Padded(d)[i]
  BY <1>3, <1>10, DigitsReadBack DEF T, TicksPerSecond, f
<1>14. TimeFields(ticks) = [h |-> h, m |-> m, s |-> s, fraction |-> Padded(d)]
  <2>1. [i \in 1 .. FractionDigits |-> (ticks \div PowerOfTen(FractionDigits - i)) % 10] = Padded(d)
    BY <1>13 DEF Padded
  <2>2. TimeFields(ticks) = [h |-> h, m |-> Y % M, s |-> X % S, fraction |-> Padded(d)]
    BY <1>7, <1>9, <1>11, <2>1 DEF TimeFields, M, S, T, TM, TH
  <2> QED BY <1>8, <1>10, <2>2
<1>15. \A i \in 1 .. Len(d) : Padded(d)[i] = d[i]
  <2>1. \A i \in 1 .. Len(d) : i \in 1 .. FractionDigits /\ i <= Len(d)
    BY <1>3, LenProperties, CalendarSizes
  <2> QED BY <2>1 DEF Padded
<1>16. Fraction(Padded(d)) = Fraction(d)
  BY <1>3, PaddedReads
<1> QED BY <1>1, <1>7, <1>12, <1>14, <1>15, <1>16 DEF h, m, s, d

-----------------------------------------------------------------------------
(* What the setters store and the getters read. *)

LEMMA Outcomes ==
  /\ \A v : Fine(v).ok = TRUE /\ Fine(v).value = v
  /\ \A e : Invalid(e).ok = FALSE
BY DEF Fine, Invalid

(* Whole ticks are microseconds and back. *)
LEMMA TicksAndMicros ==
  /\ \A n \in Nat : n * MicrosPerTick \in Nat /\ (n * MicrosPerTick) \div MicrosPerTick = n /\ (n * MicrosPerTick) % MicrosPerTick = 0
  /\ \A n \in 0 .. TICKS_PER_DAY - 1 : n * MicrosPerTick < MicrosPerDay
  /\ \A t \in Nat : t \div MicrosPerTick \in Nat /\ (t % MicrosPerTick = 0 => (t \div MicrosPerTick) * MicrosPerTick = t)
<1> DEFINE P == MicrosPerTick
           T == TICKS_PER_DAY
<1>1. P \in Nat \ {0} /\ T \in Nat \ {0} /\ MicrosPerDay = T * P
  BY CalendarSizes DEF MicrosPerDay
<1> HIDE DEF P, T
<1>2. ASSUME NEW n \in Nat PROVE n * P \in Nat /\ (n * P) \div P = n /\ (n * P) % P = 0
  <2> DEFINE r == 0
  <2>1. r \in 0 .. P - 1
    BY <1>1
  <2> HIDE DEF r
  <2>2. (n * P + r) \div P = n /\ (n * P + r) % P = r
    BY <1>1, <2>1, DivMod
  <2>3. n * P \in Nat
    BY <1>1
  <2> DEFINE k == n * P
  <2> HIDE DEF k
  <2>4. k + r = k
    BY <2>3 DEF k, r
  <2> QED BY <2>2, <2>3, <2>4 DEF k, r
<1>3. ASSUME NEW n \in 0 .. T - 1 PROVE n * P < T * P
  BY <1>1
<1>4. ASSUME NEW t \in Nat PROVE t \div P \in Nat /\ (t % P = 0 => (t \div P) * P = t)
  <2> DEFINE q == t \div P
             k == q * P
             r == t % P
  <2>1. q \in Nat
    BY <1>1, QuotientMeans
  <2>2. r \in 0 .. P - 1 /\ t = k + r
    BY <1>1, DivModParts
  <2>3. k \in Nat
    <3> HIDE DEF q
    <3> QED BY <1>1, <2>1
  <2> HIDE DEF k, r
  <2>4. r = 0 => k = t
    BY <2>2, <2>3
  <2> QED BY <2>1, <2>4 DEF k, r
<1> QED BY <1>1, <1>2, <1>3, <1>4 DEF P, T

(* The day stored of a date: unknown before year 0, which the cast turns   *)
(* into a year past the client library's calendar.                         *)
DayStored(v) == IF v.y < 0 THEN DayBeyond ELSE encodeDate(v.y, v.m, v.d)

LEMMA DateStored ==
  ASSUME NEW v, v.y \in -MaxYear .. MaxYear
  PROVE  dateToOpaqueDate(v) = IF DateOk(v) /\ v.y # 0 THEN Fine(DayStored(v)) ELSE Invalid("invalid_date_val")
<1> DEFINE W == WordSize
           y == v.y
<1>1. W \in Nat \ {0} /\ MaxYear \in Nat \ {0} /\ 2 * MaxYear < W /\ y \in -MaxYear .. MaxYear
  BY CalendarSizes, YearsAssumption
<1>2. dateToOpaqueDate(v) = IF ~DateOk(v) \/ y % W <= 0 THEN Invalid("invalid_date_val")
                            ELSE Fine(encodeDate(y % W, v.m, v.d))
  BY DEF dateToOpaqueDate, y, W
<1> HIDE DEF W, y
<1>3. CASE y >= 0
  <2>1. y % W = y
    BY <1>1, <1>3
  <2>2. y % W <= 0 <=> y = 0
    BY <1>1, <1>3, <2>1
  <2>3. y = v.y /\ ~(v.y < 0)
    BY <1>1, <1>3 DEF y
  <2> QED BY <1>2, <2>1, <2>2, <2>3 DEF DayStored
<1>4. CASE y < 0
  <2>1. y + W \in 0 .. W - 1 /\ -1 \in Int /\ y = (-1) * W + (y + W)
    BY <1>1, <1>4
  <2>2. y % W = y + W
    <3> DEFINE x == (-1) * W + (y + W)
    <3>1. x % W = y + W
      BY <1>1, <2>1, DivMod
    <3> QED BY <2>1, <3>1
  <2>3. ~(y % W <= 0) /\ ~(2 * (y % W) < W)
    BY <1>1, <1>4, <2>2
  <2>4. encodeDate(y % W, v.m, v.d) = DayBeyond
    BY <2>3 DEF encodeDate, W
  <2>5. v.y < 0 /\ v.y # 0
    BY <1>1, <1>4 DEF y
  <2> QED BY <1>2, <2>3, <2>4, <2>5 DEF DayStored
<1> QED BY <1>1, <1>3, <1>4

LEMMA DateIsItsFields ==
  ASSUME NEW v \in Dates
  PROVE  v.y \in -MaxYear .. MaxYear /\ v.y \in Int /\ v = [y |-> v.y, m |-> v.m, d |-> v.d]
<1>1. v.y \in -MaxYear .. MaxYear /\ v = [y |-> v.y, m |-> v.m, d |-> v.d]
  BY DEF Dates
<1> QED BY <1>1, CalendarSizes

BadDate(v) == ~DateOk(v) \/ v.y = 0
Backward(v) == v.y < 0 /\ ~BadDate(v)
BadTime(t) == t < 0 \/ t >= MicrosPerDay \/ t % MicrosPerTick # 0

LEMMA DateAnswered ==
  ASSUME NEW v \in Dates
  PROVE  dateToOpaqueDate(v) = IF BadDate(v) THEN Invalid("invalid_date_val") ELSE Fine(DayStored(v))
BY DateIsItsFields, DateStored DEF BadDate

LEMMA GoodDateBack ==
  ASSUME NEW v \in Dates, ~BadDate(v), v.y >= 0
  PROVE  /\ dateToOpaqueDate(v) = Fine(encodeDate(v.y, v.m, v.d))
         /\ DayStored(v) = encodeDate(v.y, v.m, v.d)
         /\ encodeDate(v.y, v.m, v.d) \in Nat
         /\ decodeDate(encodeDate(v.y, v.m, v.d)) = v
         /\ dateOf(encodeDate(v.y, v.m, v.d)) = v
<1>1. v.y \in -MaxYear .. MaxYear /\ v = [y |-> v.y, m |-> v.m, d |-> v.d] /\ MaxYear \in Nat
  BY DateIsItsFields, CalendarSizes
<1>2. v.y \in 0 .. MaxYear /\ ~(v.y < 0)
  BY <1>1
<1>3. v.m \in 1 .. MonthsPerYear /\ v.d \in 1 .. DaysPerMonth
  BY DEF BadDate, DateOk
<1>4. DayStored(v) = encodeDate(v.y, v.m, v.d)
  BY <1>2 DEF DayStored
<1>5. encodeDate(v.y, v.m, v.d) \in Nat /\ decodeDate(encodeDate(v.y, v.m, v.d)) = v
  BY <1>1, <1>2, <1>3, LibraryDates
<1> QED BY <1>4, <1>5, DateAnswered, LibraryDays

(* Through a setter and a getter. *)
Through(kind, v) == LET stored == There(kind, v) IN IF stored.ok THEN Back(kind, stored.value) ELSE stored
Refused(r) == \E e : r = Invalid(e)

LEMMA DateKept ==
  ASSUME NEW v \in Dates
  PROVE  \/ Through("date", v) = Fine(v)
         \/ BadDate(v) /\ Refused(Through("date", v))
         \/ Backward(v) /\ \E w : Through("date", v) = Fine(w)
<1>1. Through("date", v) = IF dateToOpaqueDate(v).ok THEN opaqueDateToDate(dateToOpaqueDate(v).value) ELSE dateToOpaqueDate(v)
  BY DEF Through, There, Back
<1>2. CASE BadDate(v)
  <2>1. Through("date", v) = Invalid("invalid_date_val")
    BY <1>1, <1>2, DateAnswered, Outcomes
  <2> QED BY <1>2, <2>1 DEF Refused
<1>3. CASE ~BadDate(v)
  <2>1. Through("date", v) = Fine(decodeDate(DayStored(v)))
    BY <1>1, <1>3, DateAnswered, Outcomes DEF opaqueDateToDate
  <2>2. v.y \in Int
    BY DateIsItsFields
  <2>3. CASE v.y < 0
    BY <1>3, <2>1, <2>3 DEF Backward
  <2>4. CASE v.y >= 0
    BY <1>3, <2>1, <2>4, GoodDateBack
  <2> QED BY <2>2, <2>3, <2>4
<1> QED BY <1>2, <1>3

LEMMA TimeKept ==
  ASSUME NEW v \in Int
  PROVE  \E w \in Int : Through("time", v) = Fine(w) /\ (v >= 0 /\ v % MicrosPerTick = 0 => w = v)
<1> DEFINE m == IF v < 0 THEN -v ELSE v
           w == (m \div MicrosPerTick) * MicrosPerTick
<1>1. m \in Nat /\ (v >= 0 => m = v)
  OBVIOUS
<1> HIDE DEF m
<1>2. w \in Int /\ (m % MicrosPerTick = 0 => w = m)
  <2>1. m \div MicrosPerTick \in Nat /\ (m % MicrosPerTick = 0 => w = m)
    BY <1>1, TicksAndMicros
  <2> DEFINE q == m \div MicrosPerTick
  <2>2. q \in Nat
    BY <2>1
  <2> HIDE DEF q
  <2>3. q * MicrosPerTick \in Nat
    BY <2>2, TicksAndMicros
  <2> QED BY <2>1, <2>3 DEF q
<1>3. timeToOpaqueTime(v) = Fine(m \div MicrosPerTick)
  BY DEF timeToOpaqueTime, m
<1>4. Through("time", v) = Fine(w)
  BY <1>3, Outcomes DEF Through, There, Back, opaqueTimeToTime
<1> HIDE DEF w
<1> QED BY <1>1, <1>2, <1>4

LEMMA TimeTzKept ==
  ASSUME NEW v, v.utc \in Int, v = [utc |-> v.utc, zone |-> v.zone]
  PROVE  Through("timeTz", v) = Fine(v) \/ ((BadTime(v.utc) \/ ~knownZone(v.zone)) /\ Refused(Through("timeTz", v)))
<1> DEFINE n == v.utc \div MicrosPerTick
<1>1. v.utc \in Int /\ v = [utc |-> v.utc, zone |-> v.zone]
  OBVIOUS
<1>2. CASE BadTime(v.utc) \/ ~knownZone(v.zone)
  <2>1. timeTzToOpaqueTimeTz(v) = Invalid("invalid_time_val") \/ timeTzToOpaqueTimeTz(v) = Invalid("invalid_zone")
    BY <1>2 DEF timeTzToOpaqueTimeTz, BadTime
  <2>2. Through("timeTz", v) = timeTzToOpaqueTimeTz(v)
    BY <2>1, Outcomes DEF Through, There
  <2> QED BY <1>2, <2>1, <2>2 DEF Refused
<1>3. CASE ~(BadTime(v.utc) \/ ~knownZone(v.zone))
  <2>1. timeTzToOpaqueTimeTz(v) = Fine([utc |-> n, zone |-> v.zone])
    BY <1>3 DEF timeTzToOpaqueTimeTz, BadTime
  <2>2. n * MicrosPerTick = v.utc
    <3>1. v.utc \in Nat /\ v.utc % MicrosPerTick = 0
      BY <1>1, <1>3 DEF BadTime
    <3> QED BY <3>1, TicksAndMicros
  <2> HIDE DEF n
  <2>3. Through("timeTz", v) = Fine([utc |-> n * MicrosPerTick, zone |-> v.zone])
    BY <2>1, Outcomes DEF Through, There, Back, opaqueTimeTzToTimeTz
  <2> QED BY <1>1, <2>2, <2>3
<1> QED BY <1>2, <1>3

(* What is stored of a timestamp. *)
LEMMA TimestampStored ==
  ASSUME NEW v, v.date \in Dates, v.time \in Int
  PROVE  IF BadDate(v.date) \/ BadTime(v.time)
         THEN Refused(timestampToOpaqueTimestamp(v))
         ELSE /\ timestampToOpaqueTimestamp(v) =
                    Fine([date |-> DayStored(v.date), time |-> v.time \div MicrosPerTick])
              /\ (v.time \div MicrosPerTick) * MicrosPerTick = v.time /\ v.time \in 0 .. MicrosPerDay - 1
<1> DEFINE d == v.date
           t == v.time
           stored == dateToOpaqueDate(d)
<1>1. /\ d \in Dates /\ t \in Int
      /\ timestampToOpaqueTimestamp(v) =
           IF ~DateOk(d) THEN Invalid("invalid_timestamp_val")
           ELSE IF ~stored.ok THEN stored
           ELSE IF BadTime(t) THEN Invalid("invalid_timestamp_val")
           ELSE Fine([date |-> stored.value, time |-> t \div MicrosPerTick])
  BY DEF timestampToOpaqueTimestamp, BadTime
<1> HIDE DEF d, t
<1>2. CASE BadDate(d)
  <2>1. stored = Invalid("invalid_date_val")
    BY <1>1, <1>2, DateAnswered
  <2>2. Refused(timestampToOpaqueTimestamp(v))
    BY <1>1, <2>1, Outcomes DEF Refused
  <2> QED BY <1>2, <2>2 DEF d
<1>3. CASE ~BadDate(d)
  <2>1. stored = Fine(DayStored(d)) /\ DateOk(d)
    BY <1>1, <1>3, DateAnswered DEF BadDate
  <2>2. stored.ok = TRUE /\ stored.value = DayStored(d)
    BY <2>1, Outcomes
  <2>3. CASE BadTime(t)
    <3>1. Refused(timestampToOpaqueTimestamp(v))
      BY <1>1, <2>1, <2>2, <2>3 DEF Refused
    <3> QED BY <2>3, <3>1 DEF t
  <2>4. CASE ~BadTime(t)
    <3>1. timestampToOpaqueTimestamp(v) = Fine([date |-> DayStored(d), time |-> t \div MicrosPerTick])
      BY <1>1, <2>1, <2>2, <2>4
    <3>2. t \in Nat /\ t % MicrosPerTick = 0 /\ t \in 0 .. MicrosPerDay - 1
      BY <1>1, <2>4, CalendarSizes DEF BadTime
    <3>3. (t \div MicrosPerTick) * MicrosPerTick = t
      BY <3>2, TicksAndMicros
    <3> QED BY <1>3, <2>4, <3>1, <3>2, <3>3 DEF d, t
  <2> QED BY <2>3, <2>4
<1> QED BY <1>2, <1>3

LEMMA TimestampKept ==
  ASSUME NEW v, v.date \in Dates, v.time \in Int, v = [date |-> v.date, time |-> v.time]
  PROVE  \/ Through("timestamp", v) = Fine(v)
         \/ (BadDate(v.date) \/ BadTime(v.time)) /\ Refused(Through("timestamp", v))
         \/ Backward(v.date) /\ (Refused(Through("timestamp", v)) \/ \E w : Through("timestamp", v) = Fine(w))
<1>1. v.date \in Dates /\ v.time \in Int /\ v = [date |-> v.date, time |-> v.time] /\ v.date.y \in Int
  BY DateIsItsFields
<1> DEFINE n == DayStored(v.date)
           t == v.time \div MicrosPerTick
<1>2. CASE BadDate(v.date) \/ BadTime(v.time)
  <2>1. PICK e : timestampToOpaqueTimestamp(v) = Invalid(e)
    BY <1>1, <1>2, TimestampStored DEF Refused
  <2>2. Through("timestamp", v) = Invalid(e)
    BY <2>1, Outcomes DEF Through, There
  <2> QED BY <1>2, <2>2 DEF Refused
<1>3. CASE ~(BadDate(v.date) \/ BadTime(v.time))
  <2>1. timestampToOpaqueTimestamp(v) = Fine([date |-> n, time |-> t]) /\ t * MicrosPerTick = v.time
    BY <1>1, <1>3, TimestampStored
  <2>2. Through("timestamp", v) = opaqueTimestampToTimestamp([date |-> n, time |-> t])
    <3> HIDE DEF n, t
    <3> QED BY <2>1, Outcomes DEF Through, There, Back
  <2>3. CASE v.date.y >= 0
    <3>1. decodeDate(n) = v.date /\ DateOk(v.date)
      BY <1>1, <1>3, <2>3, GoodDateBack DEF BadDate
    <3> HIDE DEF n, t
    <3>2. opaqueTimestampToTimestamp([date |-> n, time |-> t]) = Fine([date |-> v.date, time |-> v.time])
      BY <2>1, <3>1 DEF opaqueTimestampToTimestamp
    <3> QED BY <1>1, <2>2, <3>2
  <2>4. CASE v.date.y < 0
    <3> HIDE DEF n, t
    <3>1. \/ opaqueTimestampToTimestamp([date |-> n, time |-> t]) = Invalid("invalid_timestamp_val")
          \/ \E w : opaqueTimestampToTimestamp([date |-> n, time |-> t]) = Fine(w)
      BY DEF opaqueTimestampToTimestamp
    <3> QED BY <1>3, <2>2, <2>4, <3>1 DEF Backward, Refused
  <2> QED BY <1>1, <2>3, <2>4
<1> QED BY <1>2, <1>3

LEMMA TimestampTzKept ==
  ASSUME NEW d \in Dates, NEW t \in Int, NEW z
  PROVE  LET v == [utc |-> [date |-> d, time |-> t], zone |-> z]
         IN  \/ Through("timestampTz", v) = Fine(v)
             \/ (BadDate(d) \/ BadTime(t) \/ ~knownZone(z)) /\ Refused(Through("timestampTz", v))
             \/ Backward(d) /\ \E w : Through("timestampTz", v) = Fine(w)
<1> DEFINE u == [date |-> d, time |-> t]
           v == [utc |-> u, zone |-> z]
           P == MicrosPerTick
           n == DayStored(d)
           k == t \div P
           stored == timestampToOpaqueTimestamp(u)
<1>1. u.date = d /\ u.time = t /\ t \in Int /\ v.utc = u /\ v.zone = z /\ d.y \in Int
  BY DateIsItsFields
<1>2. /\ BadDate(d) \/ BadTime(t) => Refused(stored)
      /\ ~(BadDate(d) \/ BadTime(t)) =>
            stored = Fine([date |-> n, time |-> k]) /\ k * P = t /\ t \in 0 .. MicrosPerDay - 1
  BY <1>1, TimestampStored
<1>3. timestampTzToOpaqueTimestampTz(v) =
        IF ~knownZone(z) THEN Invalid("invalid_zone") ELSE IF ~stored.ok THEN stored
        ELSE Fine([utc |-> stored.value, zone |-> z])
  BY <1>1 DEF timestampTzToOpaqueTimestampTz
<1> HIDE DEF stored
<1>4. CASE BadDate(d) \/ BadTime(t) \/ ~knownZone(z)
  <2>1. Refused(timestampTzToOpaqueTimestampTz(v))
    BY <1>2, <1>3, <1>4, Outcomes DEF Refused
  <2> HIDE DEF v
  <2>2. Through("timestampTz", v) = timestampTzToOpaqueTimestampTz(v)
    BY <2>1, Outcomes DEF Through, There, Refused
  <2>3. Refused(Through("timestampTz", v))
    BY <2>1, <2>2
  <2> QED BY <1>4, <2>3 DEF v
<1>5. CASE ~(BadDate(d) \/ BadTime(t) \/ ~knownZone(z))
  <2>1. stored = Fine([date |-> n, time |-> k]) /\ k * P = t /\ t \in 0 .. MicrosPerDay - 1
    BY <1>2, <1>5
  <2>2. timestampTzToOpaqueTimestampTz(v) = Fine([utc |-> [date |-> n, time |-> k], zone |-> z])
    BY <1>3, <1>5, <2>1, Outcomes
  <2>3. Through("timestampTz", v) = opaqueTimestampTzToTimestampTz([utc |-> [date |-> n, time |-> k], zone |-> z])
    <3> HIDE DEF v
    <3> QED BY <2>2, Outcomes DEF Through, There, Back
  <2>4. Through("timestampTz", v) = Fine([utc |-> fromLocalTime(joinTicks([date |-> n, time |-> k]) * P), zone |-> z])
    <3> HIDE DEF v
    <3> QED BY <2>3 DEF opaqueTimestampTzToTimestampTz, P
  <2>5. CASE d.y < 0
    <3>1. Backward(d)
      BY <1>5, <2>5 DEF Backward
    <3>2. \E w : Through("timestampTz", v) = Fine(w)
      <4> HIDE DEF v
      <4> QED BY <2>4
    <3> QED BY <3>1, <3>2
  <2>6. CASE d.y >= 0
    <3>1. n \in Int /\ dateOf(n) = d
      BY <1>5, <2>6, GoodDateBack
    <3> DEFINE D == TICKS_PER_DAY
    <3>2. D \in Nat \ {0} /\ P \in Nat \ {0} /\ MicrosPerDay \in Nat \ {0} /\ MicrosPerDay = D * P
      BY CalendarSizes DEF MicrosPerDay
    <3>3. k \in Nat
      <4>1. t \in Nat
        BY <2>1, <3>2
      <4> QED BY <4>1, TicksAndMicros
    <3> HIDE DEF n, k, D, P
    <3>4. (n * D + k) * P = n * MicrosPerDay + t
      <4>1. (n * D + k) * P = n * (D * P) + k * P
        BY <3>1, <3>2, <3>3
      <4> QED BY <2>1, <3>2, <4>1
    <3>5. (n * MicrosPerDay + t) \div MicrosPerDay = n /\ (n * MicrosPerDay + t) % MicrosPerDay = t
      BY <2>1, <3>1, <3>2, DivMod
    <3>6. joinTicks([date |-> n, time |-> k]) * P = n * MicrosPerDay + t
      BY <3>4 DEF joinTicks, D
    <3>7. fromLocalTime(n * MicrosPerDay + t) = u
      BY <3>1, <3>5 DEF fromLocalTime
    <3> QED BY <2>4, <3>6, <3>7
  <2> QED BY <1>1, <2>5, <2>6
<1> QED BY <1>4, <1>5

-----------------------------------------------------------------------------
(* What setString stores of a text and getString reads of it. *)

TextFields(d, t, z) == [matches |-> TRUE, date |-> d, time |-> t, zone |-> z]
FieldsBack(t) == [h |-> t.h, m |-> t.m, s |-> t.s, fraction |-> Padded(t.fraction)]
ThroughString(kind, s) ==
    LET stored == Parsed(kind, s) IN IF stored.ok THEN Fine(Printed(kind, stored.value)) ELSE stored

LEMMA NoMatchRefused ==
  ASSUME NEW kind \in {"date", "time", "timeTz", "timestamp", "timestampTz"}
  PROVE  Refused(ThroughString(kind, NoMatch))
<1>1. NoMatch.matches = FALSE
  BY DEF NoMatch
<1>2. /\ stringToDate(NoMatch) = Invalid("convert_error") /\ stringToTime(NoMatch) = Invalid("convert_error")
      /\ stringToTimeTz(NoMatch) = Invalid("convert_error") /\ stringToTimestamp(NoMatch) = Invalid("convert_error")
  BY <1>1 DEF stringToDate, stringToTime, stringToTimeTz, stringToTimestamp
<1>3. stringToTimestampTz(NoMatch) = Invalid("convert_error")
  BY <1>1 DEF stringToTimestampTz
<1>4. /\ stringToOpaqueDate(NoMatch) = Invalid("convert_error") /\ stringToOpaqueTime(NoMatch) = Invalid("convert_error")
      /\ stringToOpaqueTimeTz(NoMatch) = Invalid("convert_error") /\ stringToOpaqueTimestamp(NoMatch) = Invalid("convert_error")
      /\ stringToOpaqueTimestampTz(NoMatch) = Invalid("convert_error")
  BY <1>2, <1>3, Outcomes
     DEF stringToOpaqueDate, stringToOpaqueTime, stringToOpaqueTimeTz, stringToOpaqueTimestamp, stringToOpaqueTimestampTz
<1>5. Parsed(kind, NoMatch) = Invalid("convert_error")
  BY <1>4 DEF Parsed
<1> QED BY <1>5, Outcomes DEF ThroughString, Refused

(* The years of texts are years of the client library's calendar.          *)
LEMMA YearsOfTexts ==
  ASSUME NEW y, FourDigits(y)
  PROVE  y \in 0 .. MaxYear /\ y \in Nat /\ y >= 0 /\ FourDigits(y) = TRUE
BY CalendarSizes, YearsAssumption DEF FourDigits

LEMMA DateTextKept ==
  ASSUME NEW d \in Dates, FourDigits(d.y), NEW t, NEW z
  PROVE  LET r == ThroughString("date", TextFields(d, t, z))
         IN  Refused(r) \/ r = Fine([matches |-> TRUE, date |-> d])
<1> DEFINE s == TextFields(d, t, z)
           n == encodeDate(d.y, d.m, d.d)
<1>1. s.matches = TRUE /\ s.date = d
  BY DEF TextFields
<1>2. stringToDate(s) = IF ~DateOk(d) THEN Invalid("invalid_date_val") ELSE Fine(d)
  BY <1>1 DEF stringToDate
<1> HIDE DEF s
<1>3. CASE BadDate(d)
  <2>1. stringToOpaqueDate(s) = Invalid("invalid_date_val")
    BY <1>2, <1>3, DateAnswered, Outcomes DEF stringToOpaqueDate
  <2>2. Refused(ThroughString("date", s))
    BY <2>1, Outcomes DEF ThroughString, Parsed, Refused
  <2> QED BY <2>2 DEF s
<1>4. CASE ~BadDate(d)
  <2>1. dateToOpaqueDate(d) = Fine(n) /\ decodeDate(n) = d /\ stringToDate(s) = Fine(d)
    BY <1>2, <1>4, YearsOfTexts, GoodDateBack DEF BadDate
  <2> HIDE DEF n
  <2>2. stringToOpaqueDate(s) = Fine(n)
    BY <2>1, Outcomes DEF stringToOpaqueDate
  <2>3. ThroughString("date", s) = Fine(opaqueDateToString(n))
    BY <2>2, Outcomes DEF ThroughString, Parsed, Printed
  <2>4. opaqueDateToString(n) = [matches |-> TRUE, date |-> d]
    BY <2>1, YearsOfTexts DEF opaqueDateToString
  <2> QED BY <2>3, <2>4 DEF s
<1> QED BY <1>3, <1>4

LEMMA TimeTextKept ==
  ASSUME NEW d, NEW t, TypedFields(t), NEW z
  PROVE  LET r == ThroughString("time", TextFields(d, t, z))
         IN  Refused(r) \/ r = Fine([matches |-> TRUE, time |-> FieldsBack(t)])
<1> DEFINE s == TextFields(d, t, z)
           n == TicksOfFields(t)
<1>1. s.matches = TRUE /\ s.time = t
  BY DEF TextFields
<1>2. stringToTime(s) = IF ~ValidTimeFields(t) THEN Invalid("invalid_time_val") ELSE Fine(n * MicrosPerTick)
  BY <1>1 DEF stringToTime
<1> HIDE DEF s
<1>3. CASE ~ValidTimeFields(t)
  <2>1. stringToOpaqueTime(s) = Invalid("invalid_time_val")
    BY <1>2, <1>3, Outcomes DEF stringToOpaqueTime
  <2>2. Refused(ThroughString("time", s))
    BY <2>1, Outcomes DEF ThroughString, Parsed, Refused
  <2> QED BY <2>2 DEF s
<1>4. CASE ValidTimeFields(t)
  <2>1. n \in Nat /\ TimeFields(n) = FieldsBack(t)
    BY <1>4, TimeReadBack, CalendarSizes DEF FieldsBack
  <2> DEFINE k == n * MicrosPerTick
  <2>2. k \in Nat /\ k \div MicrosPerTick = n
    BY <2>1, TicksAndMicros
  <2>3. stringToTime(s) = Fine(k)
    BY <1>2, <1>4
  <2> HIDE DEF n, k
  <2>4. timeToOpaqueTime(k) = Fine(n)
    BY <2>2 DEF timeToOpaqueTime
  <2>5. stringToOpaqueTime(s) = Fine(n)
    BY <2>3, <2>4, Outcomes DEF stringToOpaqueTime
  <2>6. ThroughString("time", s) = Fine(opaqueTimeToString(n))
    BY <2>5, Outcomes DEF ThroughString, Parsed, Printed
  <2> QED BY <2>1, <2>6 DEF opaqueTimeToString, s
<1> QED BY <1>3, <1>4

LEMMA TimeTzTextKept ==
  ASSUME NEW d, NEW t, TypedFields(t), NEW z
  PROVE  LET r == ThroughString("timeTz", TextFields(d, t, z))
         IN  Refused(r) \/ r = Fine([matches |-> TRUE, zone |-> z, time |-> FieldsBack(t)])
<1> DEFINE s == TextFields(d, t, z)
           n == TicksOfFields(t)
           u == toUtc(n, z) % TICKS_PER_DAY
           read == [utc |-> u * MicrosPerTick, zone |-> z]
<1>1. s.matches = TRUE /\ s.time = t /\ s.zone = z
  BY DEF TextFields
<1>2. stringToTimeTz(s) = IF ~ValidTimeFields(t) THEN Invalid("invalid_time_val")
                          ELSE IF ~knownZone(z) THEN Invalid("invalid_zone") ELSE Fine(read)
  <2>1. opaqueTimeTzToTimeTz([utc |-> u, zone |-> z]) = Fine(read)
    BY DEF opaqueTimeTzToTimeTz
  <2> QED BY <1>1, <2>1 DEF stringToTimeTz
<1> HIDE DEF s
<1>3. CASE ~ValidTimeFields(t) \/ ~knownZone(z)
  <2>1. PICK e : stringToTimeTz(s) = Invalid(e)
    BY <1>2, <1>3
  <2>2. stringToOpaqueTimeTz(s) = Invalid(e)
    BY <2>1, Outcomes DEF stringToOpaqueTimeTz
  <2>3. Refused(ThroughString("timeTz", s))
    BY <2>2, Outcomes DEF ThroughString, Parsed, Refused
  <2> QED BY <2>3 DEF s
<1>4. CASE ValidTimeFields(t) /\ knownZone(z)
  <2>1. n \in 0 .. TICKS_PER_DAY - 1 /\ TimeFields(n) = FieldsBack(t)
    BY <1>4, TimeReadBack DEF FieldsBack
  <2>2. Zones[z] \in Int /\ TICKS_PER_DAY \in Nat \ {0} /\ MicrosPerDay \in Nat
    BY <1>4, ZonesAssumption, CalendarSizes DEF knownZone
  <2> HIDE DEF n
  <2>3. u \in 0 .. TICKS_PER_DAY - 1 /\ toLocal(u, z) % TICKS_PER_DAY = n
    BY <2>1, <2>2, ThereAndBack DEF toUtc, toLocal
  <2> HIDE DEF u
  <2> DEFINE k == u * MicrosPerTick
  <2>4. k \in Nat /\ k \div MicrosPerTick = u /\ k % MicrosPerTick = 0 /\ k < MicrosPerDay
    <3>1. u \in Nat
      BY <2>2, <2>3
    <3> QED BY <2>3, <3>1, TicksAndMicros
  <2>5. read.utc = k /\ read.zone = z
    OBVIOUS
  <2>6. stringToTimeTz(s) = Fine(read)
    BY <1>2, <1>4
  <2> HIDE DEF k, read
  <2>7. ~(k < 0) /\ ~(k >= MicrosPerDay)
    BY <2>2, <2>4
  <2>8. timeTzToOpaqueTimeTz(read) = Fine([utc |-> u, zone |-> z])
    BY <1>4, <2>4, <2>5, <2>7 DEF timeTzToOpaqueTimeTz
  <2>9. stringToOpaqueTimeTz(s) = Fine([utc |-> u, zone |-> z])
    BY <2>6, <2>8, Outcomes DEF stringToOpaqueTimeTz
  <2>10. ThroughString("timeTz", s) = Fine(opaqueTimeTzToString([utc |-> u, zone |-> z]))
    BY <2>9, Outcomes DEF ThroughString, Parsed, Printed
  <2>11. opaqueTimeTzToString([utc |-> u, zone |-> z]) = [matches |-> TRUE, zone |-> z, time |-> FieldsBack(t)]
    BY <2>1, <2>3 DEF opaqueTimeTzToString
  <2> QED BY <2>10, <2>11 DEF s
<1> QED BY <1>3, <1>4

LEMMA TimestampTextKept ==
  ASSUME NEW d \in Dates, FourDigits(d.y), NEW t, TypedFields(t), NEW z
  PROVE  LET r == ThroughString("timestamp", TextFields(d, t, z))
         IN  Refused(r) \/ r = Fine([matches |-> TRUE, date |-> d, time |-> FieldsBack(t)])
<1> DEFINE s == TextFields(d, t, z)
           n == TicksOfFields(t)
           k == n * MicrosPerTick
           read == [date |-> d, time |-> k]
<1>1. s.matches = TRUE /\ s.time = t /\ s.date = d
  BY DEF TextFields
<1>2. stringToTimestamp(s) = IF ~DateOk(d) \/ ~ValidTimeFields(t) THEN Invalid("invalid_timestamp_val") ELSE Fine(read)
  BY <1>1 DEF stringToTimestamp
<1> HIDE DEF s
<1>3. CASE ~DateOk(d) \/ ~ValidTimeFields(t)
  <2>1. stringToOpaqueTimestamp(s) = Invalid("invalid_timestamp_val")
    BY <1>2, <1>3, Outcomes DEF stringToOpaqueTimestamp
  <2>2. Refused(ThroughString("timestamp", s))
    BY <2>1, Outcomes DEF ThroughString, Parsed, Refused
  <2> QED BY <2>2 DEF s
<1>4. CASE DateOk(d) /\ ValidTimeFields(t)
  <2>1. n \in Nat /\ TimeFields(n) = FieldsBack(t)
    BY <1>4, TimeReadBack, CalendarSizes DEF FieldsBack
  <2> HIDE DEF n
  <2>2. k \in Int /\ k \div MicrosPerTick = n
    <3>1. k \in Nat /\ k \div MicrosPerTick = n
      BY <2>1, TicksAndMicros
    <3> HIDE DEF k
    <3> QED BY <3>1
  <2>3. read.date = d /\ read.time = k
    OBVIOUS
  <2>4. stringToTimestamp(s) = Fine(read)
    BY <1>2, <1>4
  <2> HIDE DEF k, read
  <2> DEFINE m == encodeDate(d.y, d.m, d.d)
  <2>5. IF BadDate(read.date) \/ BadTime(read.time) THEN Refused(timestampToOpaqueTimestamp(read))
        ELSE timestampToOpaqueTimestamp(read) = Fine([date |-> m, time |-> n])
    <3>1. IF BadDate(read.date) \/ BadTime(read.time) THEN Refused(timestampToOpaqueTimestamp(read))
          ELSE timestampToOpaqueTimestamp(read) = Fine([date |-> DayStored(read.date), time |-> read.time \div MicrosPerTick])
      BY <2>2, <2>3, TimestampStored
    <3>2. ~BadDate(d) => DayStored(d) = m
      BY YearsOfTexts, GoodDateBack
    <3> QED BY <2>2, <2>3, <3>1, <3>2
  <2>6. stringToOpaqueTimestamp(s) = timestampToOpaqueTimestamp(read)
    BY <2>4, Outcomes DEF stringToOpaqueTimestamp
  <2>7. ~BadDate(d) => decodeDate(m) = d
    BY YearsOfTexts, GoodDateBack
  <2> HIDE DEF m
  <2>8. CASE BadDate(read.date) \/ BadTime(read.time)
    <3>1. PICK e : stringToOpaqueTimestamp(s) = Invalid(e)
      BY <2>5, <2>6, <2>8 DEF Refused
    <3>2. Refused(ThroughString("timestamp", s))
      BY <3>1, Outcomes DEF ThroughString, Parsed, Refused
    <3> QED BY <3>2 DEF s
  <2>9. CASE ~(BadDate(read.date) \/ BadTime(read.time))
    <3>1. stringToOpaqueTimestamp(s) = Fine([date |-> m, time |-> n]) /\ decodeDate(m) = d
      BY <2>3, <2>5, <2>6, <2>7, <2>9
    <3>2. ThroughString("timestamp", s) = Fine(opaqueTimestampToString([date |-> m, time |-> n]))
      BY <3>1, Outcomes DEF ThroughString, Parsed, Printed
    <3>3. opaqueTimestampToString([date |-> m, time |-> n]) = [matches |-> TRUE, date |-> d, time |-> FieldsBack(t)]
      BY <2>1, <3>1, YearsOfTexts DEF opaqueTimestampToString
    <3> QED BY <3>2, <3>3 DEF s
  <2> QED BY <2>8, <2>9
<1> QED BY <1>3, <1>4

(* A quotient lies where its dividend does. *)
LEMMA QuotientBetween ==
  ASSUME NEW a \in Int, NEW b \in Nat \ {0}, NEW lo \in Int, NEW hi \in Int,
         lo * b <= a, a < (hi + 1) * b
  PROVE  a \div b \in lo .. hi
<1> DEFINE q == a \div b
<1>1. q \in Int /\ b * q <= a /\ a < b * q + b
  BY QuotientMeans
<1> HIDE DEF q
<1>2. b * q = q * b /\ b * q + b = (q + 1) * b
  BY <1>1
<1>3. ~(q < lo)
  <2> SUFFICES ASSUME q < lo PROVE FALSE
    OBVIOUS
  <2>1. q + 1 <= lo
    BY <1>1
  <2>2. (q + 1) * b <= lo * b
    BY <1>1, <2>1
  <2> DEFINE x == (q + 1) * b
             y == lo * b
  <2>3. x \in Int /\ y \in Int /\ x <= y /\ y <= a /\ a < x
    BY <1>1, <1>2, <2>2
  <2> HIDE DEF x, y
  <2> QED BY <2>3
<1>4. ~(q > hi)
  <2> SUFFICES ASSUME q > hi PROVE FALSE
    OBVIOUS
  <2>1. hi + 1 <= q
    BY <1>1
  <2>2. (hi + 1) * b <= q * b
    BY <1>1, <2>1
  <2> DEFINE x == (hi + 1) * b
             y == q * b
  <2>3. x \in Int /\ y \in Int /\ x <= y /\ y <= a /\ a < x
    BY <1>1, <1>2, <2>2
  <2> HIDE DEF x, y
  <2> QED BY <2>3
<1>5. q \in lo .. hi
  BY <1>1, <1>3, <1>4
<1> QED BY <1>5 DEF q

(* A zone moves the date of a text a day at most: not before year 0, and   *)
(* not beyond the first day of five digits.                                *)
LEMMA YearInUtc ==
  ASSUME NEW d \in Dates, ~BadDate(d), FourDigits(d.y), NEW ticks \in 0 .. TICKS_PER_DAY - 1,
         NEW offset \in -TICKS_PER_DAY .. TICKS_PER_DAY
  PROVE  LET n == encodeDate(d.y, d.m, d.d)
             day == ((n * TICKS_PER_DAY + ticks) - offset) \div TICKS_PER_DAY
         IN  n \in Nat /\ day \in Nat /\ decodeDate(day).y \in 0 .. LastYear + 1
<1> DEFINE W == LastYear + 1
           M == MonthsPerYear
           D == DaysPerMonth
           T == TICKS_PER_DAY
           y == d.y
           m == d.m - 1
           k == d.d - 1
           months == y * M + m
           n == daysOf(d.y, d.m, d.d)
           a == (n * T + ticks) - offset
           day == a \div T
<1>1. W \in Nat \ {0} /\ M \in Nat \ {0} /\ D \in Nat \ {0} /\ T \in Nat \ {0}
  BY CalendarSizes
<1>2. y \in 1 .. W - 1 /\ m \in 0 .. M - 1 /\ k \in 0 .. D - 1 /\ d.m \in Nat /\ d.d \in Nat
  <2>1. d.y \in 0 .. W - 1 /\ d.y # 0 /\ d.m \in 1 .. M /\ d.d \in 1 .. D
    BY CalendarSizes DEF BadDate, DateOk, FourDigits
  <2> HIDE DEF W, M, D
  <2> QED BY <1>1, <2>1
<1> HIDE DEF W, M, D, y
<1>3. months \in 1 .. W * M - 1
  <2> HIDE DEF m
  <2>1. months \in 0 .. W * M - 1 /\ y * M \in Nat
    BY <1>1, <1>2, BelowNext
  <2>2. y * M >= 1
    BY <1>1, <1>2
  <2> DEFINE x == y * M
  <2>3. x \in Nat /\ x >= 1 /\ m \in Nat
    BY <1>2, <2>1, <2>2
  <2> HIDE DEF x
  <2>4. x + m >= 1
    BY <2>3
  <2> QED BY <2>1, <2>4 DEF x
<1>4. n = months * D + k
  <2> DEFINE x == y * M
  <2>1. x \in Nat
    BY <1>1, <1>2
  <2>2. n = (x + d.m - 1) * D + d.d - 1
    BY DEF daysOf, y, M, D
  <2>3. x + d.m - 1 = x + m
    <3> HIDE DEF x
    <3> QED BY <1>2, <2>1
  <2> DEFINE z == months * D
  <2>4. z \in Nat
    <3> HIDE DEF months
    <3> QED BY <1>1, <1>3
  <2>5. n = z + d.d - 1
    BY <2>2, <2>3
  <2> HIDE DEF z, n
  <2>6. n = z + k
    BY <1>2, <2>4, <2>5
  <2> QED BY <2>6 DEF z
<1>5. n \in 1 .. (W * M) * D - 1
  <2> DEFINE L == W * M
  <2>1. L \in Nat \ {0} /\ months \in 0 .. L - 1 /\ months >= 1
    <3>1. L \in Nat
      BY <1>1
    <3> HIDE DEF L, months
    <3> QED BY <1>3, <3>1 DEF L
  <2> HIDE DEF L, months, n, m, k
  <2>2. months * D + k \in 0 .. L * D - 1 /\ months * D \in Nat
    BY <1>1, <1>2, <2>1, BelowNext
  <2>3. months * D >= 1
    BY <1>1, <2>1
  <2> DEFINE x == months * D
  <2>4. x \in Nat /\ x >= 1 /\ k \in Nat /\ n = x + k
    BY <1>2, <1>4, <2>2, <2>3
  <2> HIDE DEF x
  <2>5. n >= 1
    BY <2>4
  <2> QED BY <1>4, <2>2, <2>5 DEF L
<1> HIDE DEF n, months, m, k
<1> DEFINE L == W * M
           Q == L * D
<1>6. L \in Nat /\ Q \in Nat /\ n \in 1 .. Q - 1
  <2>1. L \in Nat
    BY <1>1
  <2> HIDE DEF L
  <2> QED BY <1>1, <1>5, <2>1 DEF L
<1> HIDE DEF L, Q
<1>7. a \in Int /\ day \in n - 1 .. n + 1
  <2> DEFINE x == n * T
  <2>1. x \in Int /\ (n - 1) * T = x - T /\ ((n + 1) + 1) * T = x + T + T
    BY <1>1, <1>6
  <2>2. ticks \in 0 .. T - 1 /\ offset \in -T .. T
    OBVIOUS
  <2>3. a \in Int /\ x - T <= a /\ a < x + T + T
    <3>1. a = (x + ticks) - offset
      OBVIOUS
    <3> HIDE DEF x, a, T
    <3> QED BY <1>1, <2>1, <2>2, <3>1
  <2> HIDE DEF a, T, x
  <2>4. n - 1 \in Int /\ n + 1 \in Int
    BY <1>6
  <2>5. (n - 1) * T <= a /\ a < ((n + 1) + 1) * T
    BY <2>1, <2>3
  <2> QED BY <1>1, <2>3, <2>4, <2>5, QuotientBetween
<1> HIDE DEF a, T
<1>8. day \in 0 .. Q
  <2> HIDE DEF day
  <2> QED BY <1>6, <1>7
<1> HIDE DEF day
<1> DEFINE q == day \div D
<1>9. q \in 0 .. L
  <2>1. 0 * D <= day /\ day < (L + 1) * D
    <3>1. 0 * D = 0 /\ (L + 1) * D = Q + D
      BY <1>1, <1>6 DEF Q
    <3> QED BY <1>1, <1>6, <1>8, <3>1
  <2>2. day \in Int /\ L \in Int /\ 0 \in Int
    BY <1>6, <1>8
  <2> QED BY <1>1, <2>1, <2>2, QuotientBetween
<1> HIDE DEF q
<1>10. q \div M \in 0 .. W
  <2>1. 0 * M <= q /\ q < (W + 1) * M
    <3>1. 0 * M = 0 /\ (W + 1) * M = L + M
      BY <1>1 DEF L
    <3> QED BY <1>1, <1>6, <1>9, <3>1
  <2>2. q \in Int /\ W \in Int /\ 0 \in Int
    BY <1>1, <1>6, <1>9
  <2> QED BY <1>1, <2>1, <2>2, QuotientBetween
<1>11. n \in Nat /\ day \in Nat
  BY <1>6, <1>8
<1>12. decodeDate(day).y = q \div M
  BY <1>11, LibraryDays DEF dateOf, q, M, D
<1>13. encodeDate(d.y, d.m, d.d) = n
  BY YearsOfTexts, LibraryDates DEF BadDate, DateOk, n
<1> QED BY <1>10, <1>11, <1>12, <1>13 DEF day, a, T, W

LEMMA TimestampTzTextKept ==
  ASSUME NEW d \in Dates, FourDigits(d.y), d.y > 0, NEW t, TypedFields(t), NEW z
  PROVE  LET r == ThroughString("timestampTz", TextFields(d, t, z))
         IN  Refused(r) \/ r = Fine([matches |-> TRUE, zone |-> z, date |-> d, time |-> FieldsBack(t)])
<1> DEFINE s == TextFields(d, t, z)
           n == TicksOfFields(t)
           T == TICKS_PER_DAY
           m == encodeDate(d.y, d.m, d.d)
           all == m * T + n
           utc == toUtc(all, z)
           day == utc \div T
           ticks == utc % T
           date == decodeDate(day)
           read == [date |-> date, time |-> ticks * MicrosPerTick]
<1>1. s.matches = TRUE /\ s.time = t /\ s.date = d /\ s.zone = z
  BY DEF TextFields
<1>2. IF ~DateOk(d) \/ ~ValidTimeFields(t) \/ ~knownZone(z) THEN Refused(stringToTimestampTz(s))
      ELSE \/ Refused(stringToTimestampTz(s))
           \/ DateOk(date) /\ stringToTimestampTz(s) = Fine([utc |-> read, zone |-> z])
  <2> DEFINE opaque == [date |-> day, time |-> ticks]
             answer == opaqueTimestampToTimestamp(opaque)
             offset == toLocalTime([date |-> d, time |-> n * MicrosPerTick]) - toLocalTime(answer.value)
             odd == offset % (TicksPerMinute * MicrosPerTick) # 0
  <2>1. splitTicks(utc) = opaque
    BY DEF splitTicks
  <2>2. answer = IF ~DateOk(date) THEN Invalid("invalid_timestamp_val") ELSE Fine(read)
    BY DEF opaqueTimestampToTimestamp
  <2>3. stringToTimestampTz(s) =
          IF ~DateOk(d) \/ ~ValidTimeFields(t) THEN Invalid("invalid_timestamp_val")
          ELSE IF ~knownZone(z) THEN Invalid("invalid_zone")
          ELSE IF ~answer.ok THEN answer
          ELSE IF odd THEN Invalid("invalid_timestamp_val")
          ELSE Fine([utc |-> answer.value, zone |-> z])
    <3>1. splitTicks(toUtc(encodeDate(s.date.y, s.date.m, s.date.d) * TICKS_PER_DAY + TicksOfFields(s.time), s.zone)) = opaque
      BY <1>1, <2>1
    <3> HIDE DEF s, opaque
    <3> QED BY <1>1, <3>1 DEF stringToTimestampTz
  <2> HIDE DEF s, answer, odd, read, date
  <2>4. CASE ~DateOk(d) \/ ~ValidTimeFields(t) \/ ~knownZone(z)
    <3>1. \E e : stringToTimestampTz(s) = Invalid(e)
      BY <2>3, <2>4
    <3> QED BY <2>4, <3>1 DEF Refused
  <2>5. CASE ~(~DateOk(d) \/ ~ValidTimeFields(t) \/ ~knownZone(z))
    <3>1. CASE ~DateOk(date)
      <4>1. answer = Invalid("invalid_timestamp_val") /\ answer.ok = FALSE
        BY <2>2, <3>1, Outcomes
      <4>2. stringToTimestampTz(s) = Invalid("invalid_timestamp_val")
        BY <2>3, <2>5, <4>1
      <4> QED BY <2>5, <4>2 DEF Refused
    <3>2. CASE DateOk(date)
      <4>1. answer.ok = TRUE /\ answer.value = read
        BY <2>2, <3>2, Outcomes
      <4>2. stringToTimestampTz(s) = IF odd THEN Invalid("invalid_timestamp_val") ELSE Fine([utc |-> read, zone |-> z])
        BY <2>3, <2>5, <4>1
      <4> QED BY <2>5, <3>2, <4>2 DEF Refused
    <3> QED BY <3>1, <3>2
  <2> QED BY <2>4, <2>5
<1> HIDE DEF s
<1>3. CASE Refused(stringToTimestampTz(s))
  <2>1. PICK e : stringToTimestampTz(s) = Invalid(e)
    BY <1>3 DEF Refused
  <2>2. stringToOpaqueTimestampTz(s) = Invalid(e)
    BY <2>1, Outcomes DEF stringToOpaqueTimestampTz
  <2>3. Refused(ThroughString("timestampTz", s))
    BY <2>2, Outcomes DEF ThroughString, Parsed, Refused
  <2> QED BY <2>3 DEF s
<1>4. CASE ~Refused(stringToTimestampTz(s))
  <2>1. DateOk(d) /\ ValidTimeFields(t) /\ knownZone(z) /\ stringToTimestampTz(s) = Fine([utc |-> read, zone |-> z])
    <3> HIDE DEF read, date
    <3> QED BY <1>2, <1>4
  <2>2. ~BadDate(d) /\ m \in Int /\ decodeDate(m) = d
    <3>1. ~BadDate(d)
      BY <2>1, DateIsItsFields DEF BadDate
    <3>2. d.y >= 0
      BY YearsOfTexts
    <3>3. m \in Nat /\ decodeDate(m) = d
      BY <3>1, <3>2, GoodDateBack
    <3> HIDE DEF m
    <3> QED BY <3>1, <3>3
  <2>3. n \in 0 .. T - 1 /\ TimeFields(n) = FieldsBack(t)
    BY <2>1, TimeReadBack DEF FieldsBack
  <2>4. T \in Nat \ {0} /\ Zones[z] \in -T .. T
    BY <2>1, ZonesAssumption, CalendarSizes DEF knownZone
  <2>5. utc = (m * T + n) - Zones[z]
    BY DEF toUtc
  <2>6. day \in Nat /\ date.y \in 0 .. LastYear + 1
    <3> HIDE DEF n, utc
    <3> QED BY <2>2, <2>3, <2>4, <2>5, YearInUtc
  <2>7. utc \in Int /\ utc + Zones[z] = m * T + n
    <3> DEFINE x == m * T
    <3>1. x \in Int
      BY <2>2, <2>4
    <3> HIDE DEF x, n, T
    <3>2. (x + n) - Zones[z] \in Int /\ ((x + n) - Zones[z]) + Zones[z] = x + n
      BY <2>3, <2>4, <3>1
    <3> QED BY <2>5, <3>2 DEF x, T
  <2>8. ticks \in 0 .. T - 1 /\ utc = day * T + ticks
    <3> HIDE DEF utc, T
    <3> QED BY <2>4, <2>7, DivModParts
  <2>9. (m * T + n) \div T = m /\ (m * T + n) % T = n
    <3> HIDE DEF n, m, T
    <3> QED BY <2>2, <2>3, <2>4, DivMod
  <2>10. ticks * MicrosPerTick \in Nat /\ (ticks * MicrosPerTick) \div MicrosPerTick = ticks
    <3>1. ticks \in Nat
      <4> HIDE DEF ticks, T
      <4> QED BY <2>4, <2>8
    <3> HIDE DEF ticks
    <3> QED BY <3>1, TicksAndMicros
  <2>11. date.y \in 0 .. MaxYear /\ encodeDate(date.y, date.m, date.d) = day
    <3>1. date.y \in 0 .. MaxYear
      BY <2>6, CalendarSizes, YearsAssumption
    <3> HIDE DEF day
    <3> QED BY <2>6, <3>1, DayThroughLibrary
  <2>12. read.date = date /\ read.time = ticks * MicrosPerTick
    OBVIOUS
  <2> HIDE DEF n, m, utc, day, ticks, date, read, T
  <2>13. dateToOpaqueDate(date) = Fine(day) \/ dateToOpaqueDate(date) = Invalid("invalid_date_val")
    <3>1. date.y \in -MaxYear .. MaxYear /\ ~(date.y < 0)
      BY <2>11, CalendarSizes
    <3> QED BY <2>11, <3>1, DateStored DEF DayStored
  <2> DEFINE stored == [date |-> day, time |-> ticks]
  <2>14. timestampToOpaqueTimestamp(read) = Fine(stored) \/ Refused(timestampToOpaqueTimestamp(read))
    <3>1. timestampToOpaqueTimestamp(read) =
            IF ~DateOk(date) THEN Invalid("invalid_timestamp_val")
            ELSE IF ~dateToOpaqueDate(date).ok THEN dateToOpaqueDate(date)
            ELSE IF BadTime(read.time) THEN Invalid("invalid_timestamp_val")
            ELSE Fine([date |-> dateToOpaqueDate(date).value, time |-> read.time \div MicrosPerTick])
      BY <2>12 DEF timestampToOpaqueTimestamp, BadTime
    <3>2. CASE dateToOpaqueDate(date) = Invalid("invalid_date_val")
      BY <3>1, <3>2, Outcomes DEF Refused
    <3>3. CASE dateToOpaqueDate(date) = Fine(day)
      <4>1. dateToOpaqueDate(date).ok = TRUE /\ dateToOpaqueDate(date).value = day
        BY <3>3, Outcomes
      <4>2. timestampToOpaqueTimestamp(read) =
              IF ~DateOk(date) THEN Invalid("invalid_timestamp_val")
              ELSE IF BadTime(read.time) THEN Invalid("invalid_timestamp_val")
              ELSE Fine(stored)
        BY <2>10, <2>12, <3>1, <4>1
      <4> HIDE DEF stored
      <4> QED BY <4>2 DEF Refused
    <3> QED BY <2>13, <3>2, <3>3
  <2> HIDE DEF stored
  <2>15. timestampTzToOpaqueTimestampTz([utc |-> read, zone |-> z]) =
           IF ~timestampToOpaqueTimestamp(read).ok THEN timestampToOpaqueTimestamp(read)
           ELSE Fine([utc |-> timestampToOpaqueTimestamp(read).value, zone |-> z])
    BY <2>1 DEF timestampTzToOpaqueTimestampTz
  <2>16. stringToOpaqueTimestampTz(s) = timestampTzToOpaqueTimestampTz([utc |-> read, zone |-> z])
    BY <2>1, Outcomes DEF stringToOpaqueTimestampTz
  <2>17. CASE Refused(timestampToOpaqueTimestamp(read))
    <3>1. PICK e : timestampToOpaqueTimestamp(read) = Invalid(e)
      BY <2>17 DEF Refused
    <3>2. stringToOpaqueTimestampTz(s) = Invalid(e)
      BY <2>15, <2>16, <3>1, Outcomes
    <3>3. Refused(ThroughString("timestampTz", s))
      BY <3>2, Outcomes DEF ThroughString, Parsed, Refused
    <3> QED BY <3>3 DEF s
  <2>18. CASE timestampToOpaqueTimestamp(read) = Fine(stored)
    <3> DEFINE opaque == [utc |-> stored, zone |-> z]
    <3>1. stringToOpaqueTimestampTz(s) = Fine(opaque)
      BY <2>15, <2>16, <2>18, Outcomes
    <3>2. ThroughString("timestampTz", s) = Fine(opaqueTimestampTzToString(opaque))
      <4> HIDE DEF opaque
      <4> QED BY <3>1, Outcomes DEF ThroughString, Parsed, Printed
    <3>3. joinTicks(stored) = utc
      BY <2>8 DEF joinTicks, stored, T
    <3>4. splitTicks(toLocal(joinTicks(stored), z)) = [date |-> m, time |-> n]
      BY <2>7, <2>9, <3>3 DEF toLocal, splitTicks, T
    <3>5. opaqueTimestampTzToString(opaque) = [matches |-> TRUE, zone |-> z, date |-> d, time |-> FieldsBack(t)]
      <4>1. opaque.utc = stored /\ opaque.zone = z
        OBVIOUS
      <4> HIDE DEF opaque
      <4> DEFINE local == [date |-> m, time |-> n]
      <4>2. local.date = m /\ local.time = n
        OBVIOUS
      <4>3. opaqueTimestampTzToString(opaque) =
              [matches |-> FourDigits(decodeDate(local.date).y), zone |-> z,
               date |-> decodeDate(local.date), time |-> TimeFields(local.time)]
        <5> HIDE DEF local
        <5> QED BY <3>4, <4>1 DEF opaqueTimestampTzToString, local
      <4> HIDE DEF local
      <4> QED BY <2>2, <2>3, <4>2, <4>3, YearsOfTexts
    <3> QED BY <3>2, <3>5 DEF s
  <2> QED BY <2>14, <2>17, <2>18
<1> QED BY <1>3, <1>4
=============================================================================

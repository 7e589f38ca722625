----------------------------- MODULE DataLemmas ------------------------------
(***************************************************************************)
(* What the proofs of several components need of their data: what the      *)
(* deque operations do to the set of a sequence's elements when none       *)
(* occurs twice; induction over the natural numbers, stated of a set, not  *)
(* of an operator, so that the provers can apply it; that a function       *)
(* defined by recursion exists; and what FlattenSeq computes.              *)
(***************************************************************************)
EXTENDS Integers, SequencesExt, FiniteSetTheorems, SequenceTheorems, WellFoundedInduction, TLAPS

(* The elements of a sequence, by position. *)
LEMMA ElementsByPosition ==
  ASSUME NEW S, NEW s \in Seq(S)
  PROVE  /\ DOMAIN s = 1..Len(s) /\ Len(s) \in Nat
         /\ ToSet(s) = {s[i] : i \in 1..Len(s)}
         /\ ToSet(s) \subseteq S
         /\ (s # <<>> => Len(s) >= 1)
<1>1. DOMAIN s = 1..Len(s) /\ Len(s) \in Nat
  BY LenProperties
<1>2. ToSet(s) = {s[i] : i \in 1..Len(s)}
  BY <1>1 DEF ToSet
<1>3. \A i \in 1..Len(s) : s[i] \in S
  BY ElementOfSeq
<1>4. s # <<>> => Len(s) >= 1
  BY <1>1, EmptySeq
<1>. QED BY <1>1, <1>2, <1>3, <1>4

(* The elements of a part of a sequence. *)
LEMMA PartOf ==
  ASSUME NEW S, NEW s \in Seq(S), NEW a \in 1 .. Len(s) + 1, NEW b \in 0 .. Len(s)
  PROVE  /\ SubSeq(s, a, b) \in Seq(S)
         /\ Len(SubSeq(s, a, b)) = IF a <= b THEN b - a + 1 ELSE 0
         /\ \A i \in 1 .. b - a + 1 : SubSeq(s, a, b)[i] = s[a + i - 1]
<1>1. ASSUME NEW i \in a .. b PROVE s[i] \in S
  <2>1. i \in 1 .. Len(s)
    BY LenProperties
  <2> QED BY <2>1, ElementOfSeq
<1>2. a \in Int /\ b \in Int
  BY LenProperties
<1> QED BY <1>1, <1>2, SubSeqProperties

(* Taking one element out of an injective sequence takes it out of the set *)
(* of elements, and nothing else with it.                                  *)
LEMMA RemoveAtFacts ==
  ASSUME NEW S, NEW s \in Seq(S), IsInjective(s), NEW k \in 1..Len(s)
  PROVE  /\ s[k] \in ToSet(s) /\ s[k] \in S
         /\ RemoveAt(s, k) \in Seq(S)
         /\ ToSet(RemoveAt(s, k)) = ToSet(s) \ {s[k]}
         /\ IsInjective(RemoveAt(s, k))
<1>. DEFINE n == Len(s)
            r == RemoveAt(s, k)
            old(i) == IF i < k THEN i ELSE i + 1
<1>1. n \in Nat /\ k \in 1..n /\ ToSet(s) = {s[i] : i \in 1..n}
  BY ElementsByPosition
<1>2. \A i \in 1..n : s[i] \in S
  BY ElementOfSeq
<1>3. \A i, j \in 1..n : s[i] = s[j] => i = j
  BY ElementsByPosition DEF IsInjective
<1>4. /\ SubSeq(s, 1, k-1) \in Seq(S) /\ Len(SubSeq(s, 1, k-1)) = k - 1
      /\ SubSeq(s, k+1, n) \in Seq(S) /\ Len(SubSeq(s, k+1, n)) = n - k
      /\ \A i \in 1..(k-1) : SubSeq(s, 1, k-1)[i] = s[i]
      /\ \A i \in 1..(n-k) : SubSeq(s, k+1, n)[i] = s[k+i]
  BY <1>1, <1>2, SubSeqProperties
<1>5. /\ r \in Seq(S) /\ Len(r) = n - 1
      /\ \A i \in 1..(n-1) : r[i] = s[old(i)]
  <2>. DEFINE front == SubSeq(s, 1, k-1)
              back == SubSeq(s, k+1, n)
  <2>1. r = front \o back
    BY DEF RemoveAt
  <2>2. /\ front \in Seq(S) /\ back \in Seq(S)
        /\ Len(front) = k - 1 /\ Len(back) = n - k
        /\ \A i \in 1..(k-1) : front[i] = s[i]
        /\ \A i \in 1..(n-k) : back[i] = s[k+i]
    BY <1>4
  <2>. HIDE DEF r, front, back
  <2>3. /\ front \o back \in Seq(S)
        /\ Len(front \o back) = Len(front) + Len(back)
        /\ \A i \in 1..(Len(front) + Len(back)) :
             (front \o back)[i] = IF i <= Len(front) THEN front[i]
                                  ELSE back[i - Len(front)]
    BY <2>2, ConcatProperties
  <2>4. (k - 1) + (n - k) = n - 1
    BY <1>1
  <2>5. ASSUME NEW i \in 1..(n-1) PROVE r[i] = s[old(i)]
    <3>1. CASE i <= k - 1
      BY <3>1, <2>1, <2>2, <2>3, <2>4, <1>1
    <3>2. CASE ~(i <= k - 1)
      <4>1. i - (k-1) \in 1..(n-k) /\ k + (i - (k-1)) = i + 1
        BY <3>2, <1>1
      <4>2. r[i] = back[i - (k-1)]
        BY <3>2, <2>1, <2>2, <2>3, <2>4, <1>1
      <4>3. old(i) = i + 1
        BY <3>2, <1>1
      <4>. QED BY <4>1, <4>2, <4>3, <2>2
    <3>. QED BY <3>1, <3>2
  <2>. QED BY <2>1, <2>2, <2>3, <2>4, <2>5
<1>6. \A i \in 1..(n-1) : old(i) \in 1..n /\ old(i) # k
  BY <1>1
<1>7. \A i, j \in 1..(n-1) : old(i) = old(j) => i = j
  BY <1>1
<1>8. \A j \in 1..n : j # k => \E i \in 1..(n-1) : old(i) = j
  <2>. SUFFICES ASSUME NEW j \in 1..n, j # k
                PROVE  \E i \in 1..(n-1) : old(i) = j
    OBVIOUS
  <2>1. CASE j < k
    <3>1. j \in 1..(n-1) /\ old(j) = j
      BY <2>1, <1>1
    <3>. QED BY <3>1
  <2>2. CASE j > k
    <3>1. j - 1 \in 1..(n-1) /\ old(j-1) = j
      BY <2>2, <1>1
    <3>. QED BY <3>1
  <2>. QED BY <2>1, <2>2
<1>. HIDE DEF r, old
<1>9. ToSet(r) = {r[i] : i \in 1..(n-1)} /\ DOMAIN r = 1..(n-1)
  BY <1>5, ElementsByPosition
<1>10. ToSet(r) = ToSet(s) \ {s[k]}
  <2>1. ASSUME NEW x \in ToSet(r) PROVE x \in ToSet(s) \ {s[k]}
    <3>1. PICK i \in 1..(n-1) : x = r[i]
      BY <2>1, <1>9
    <3>. QED BY <3>1, <1>5, <1>6, <1>3, <1>1
  <2>2. ASSUME NEW x \in ToSet(s) \ {s[k]} PROVE x \in ToSet(r)
    <3>1. PICK j \in 1..n : x = s[j] /\ j # k
      BY <2>2, <1>1
    <3>2. PICK i \in 1..(n-1) : old(i) = j
      BY <3>1, <1>8
    <3>. QED BY <3>1, <3>2, <1>5, <1>9
  <2>. QED BY <2>1, <2>2
<1>11. IsInjective(r)
  BY <1>3, <1>5, <1>6, <1>7, <1>9 DEF IsInjective
<1>. QED BY <1>1, <1>2, <1>5, <1>10, <1>11 DEF r

(* pop_front of an injective sequence. *)
LEMMA TailFacts ==
  ASSUME NEW S, NEW s \in Seq(S), s # <<>>, IsInjective(s)
  PROVE  /\ Head(s) \in ToSet(s) /\ Head(s) \in S
         /\ Tail(s) \in Seq(S)
         /\ ToSet(Tail(s)) = ToSet(s) \ {Head(s)}
         /\ IsInjective(Tail(s))
<1>1. /\ Len(s) \in Nat \ {0} /\ Len(Tail(s)) = Len(s) - 1
      /\ Head(s) = s[1] /\ Tail(s) \in Seq(S)
      /\ \A i \in 1..Len(Tail(s)) : Tail(s)[i] = s[i+1]
  BY HeadTailProperties, LenProperties
<1>2. \A i, j \in 1..Len(s) : s[i] = s[j] => i = j
  BY ElementsByPosition DEF IsInjective
<1>3. /\ ToSet(s) = {s[i] : i \in 1..Len(s)} /\ ToSet(s) \subseteq S
      /\ ToSet(Tail(s)) = {Tail(s)[i] : i \in 1..Len(Tail(s))}
      /\ DOMAIN Tail(s) = 1..Len(Tail(s))
  BY <1>1, ElementsByPosition
<1>4. ASSUME NEW x \in ToSet(Tail(s)) PROVE x \in ToSet(s) \ {s[1]}
  <2>1. PICK i \in 1..Len(Tail(s)) : x = s[i+1]
    BY <1>1, <1>3, <1>4
  <2>2. i + 1 \in 1..Len(s) /\ 1 \in 1..Len(s) /\ i + 1 # 1
    BY <1>1
  <2>. QED BY <2>1, <2>2, <1>2, <1>3
<1>5. ASSUME NEW x \in ToSet(s) \ {s[1]} PROVE x \in ToSet(Tail(s))
  <2>1. PICK i \in 1..Len(s) : x = s[i] /\ i # 1
    BY <1>3, <1>5
  <2>2. i - 1 \in 1..Len(Tail(s)) /\ Tail(s)[i-1] = s[(i-1)+1] /\ (i-1)+1 = i
    BY <1>1, <2>1
  <2>. QED BY <2>1, <2>2, <1>3
<1>6. ASSUME NEW i \in 1..Len(Tail(s)), NEW j \in 1..Len(Tail(s)),
             Tail(s)[i] = Tail(s)[j]
      PROVE  i = j
  <2>1. i+1 \in 1..Len(s) /\ j+1 \in 1..Len(s) /\ s[i+1] = s[j+1]
    BY <1>1, <1>6
  <2>. QED BY <2>1, <1>2, <1>1
<1>7. IsInjective(Tail(s))
  BY <1>3, <1>6 DEF IsInjective
<1>8. Head(s) \in ToSet(s)
  BY <1>1, <1>3
<1>. QED BY <1>1, <1>3, <1>4, <1>5, <1>7, <1>8

(* push_back of an element that is not in the sequence. *)
LEMMA AppendFacts ==
  ASSUME NEW S, NEW s \in Seq(S), IsInjective(s), NEW x \in S, x \notin ToSet(s)
  PROVE  /\ Append(s, x) \in Seq(S)
         /\ ToSet(Append(s, x)) = ToSet(s) \cup {x}
         /\ IsInjective(Append(s, x))
<1>. DEFINE n == Len(s)
            a == Append(s, x)
<1>1. /\ a \in Seq(S) /\ Len(a) = n + 1 /\ n \in Nat
      /\ \A i \in 1..n : a[i] = s[i]
      /\ a[n+1] = x
  BY AppendProperties, LenProperties
<1>. HIDE DEF a
<1>2. /\ ToSet(s) = {s[i] : i \in 1..n}
      /\ ToSet(a) = {a[i] : i \in 1..(n+1)} /\ DOMAIN a = 1..(n+1)
  BY <1>1, ElementsByPosition
<1>3. \A i, j \in 1..n : s[i] = s[j] => i = j
  BY ElementsByPosition DEF IsInjective
<1>4. \A i \in 1..(n+1) : i \in 1..n \/ i = n+1
  BY <1>1
<1>5. \A i \in 1..n : i \in 1..(n+1) /\ i # n+1 /\ n+1 \in 1..(n+1)
  BY <1>1
<1>6. n+1 \in 1..(n+1)
  BY <1>1
<1>7. ToSet(a) = ToSet(s) \cup {x}
  <2>1. ASSUME NEW y \in ToSet(a) PROVE y \in ToSet(s) \cup {x}
    BY <2>1, <1>1, <1>2, <1>4
  <2>2. ASSUME NEW y \in ToSet(s) \cup {x} PROVE y \in ToSet(a)
    BY <2>2, <1>1, <1>2, <1>5, <1>6
  <2>. QED BY <2>1, <2>2
<1>8. ASSUME NEW i \in 1..(n+1), NEW j \in 1..(n+1), a[i] = a[j]
      PROVE  i = j
  <2>1. CASE i \in 1..n /\ j \in 1..n
    BY <2>1, <1>8, <1>1, <1>3
  <2>2. CASE i = n+1 /\ j \in 1..n
    BY <2>2, <1>8, <1>1, <1>2
  <2>3. CASE j = n+1 /\ i \in 1..n
    BY <2>3, <1>8, <1>1, <1>2
  <2>. QED BY <2>1, <2>2, <2>3, <1>4
<1>. QED BY <1>1, <1>2, <1>7, <1>8 DEF IsInjective, a

(* An injective sequence is as long as the set of its elements. *)
LEMMA InjectiveLength ==
  ASSUME NEW S, NEW s \in Seq(S), IsInjective(s)
  PROVE  IsFiniteSet(ToSet(s)) /\ Cardinality(ToSet(s)) = Len(s)
<1>1. /\ s \in [1..Len(s) -> ToSet(s)] /\ Len(s) \in Nat
      /\ ToSet(s) = {s[i] : i \in 1..Len(s)}
  BY ElementsByPosition, LenProperties, SeqDef
<1>2. s \in Bijection(1..Len(s), ToSet(s))
  BY <1>1 DEF Bijection, Injection, Surjection
<1>3. ExistsBijection(1..Len(s), ToSet(s))
  BY <1>2 DEF ExistsBijection
<1>4. Cardinality(ToSet(s)) = Len(s)
  BY <1>1, <1>3, FS_CountingElements
<1>. QED BY <1>1, <1>3, <1>4, FS_NatBijection
-----------------------------------------------------------------------------
(* Induction: a set with 0 and, with a number, the next, has every number. *)
LEMMA SetInduction ==
  ASSUME NEW S, 0 \in S, \A n \in Nat : n \in S => n + 1 \in S
  PROVE  Nat \subseteq S
<1> SUFFICES ASSUME Nat \ S # {} PROVE FALSE
  OBVIOUS
<1> DEFINE T == Nat \ S
           R == OpToRel(<, Nat)
<1>1. PICK x \in T : \A y \in T : ~(<<y, x>> \in R)
  <2>1. IsWellFoundedOn(R, Nat) /\ T \subseteq Nat /\ T # {}
    BY NatLessThanWellFounded
  <2> HIDE DEF T, R
  <2> QED BY <2>1, WFMin
<1>2. x \in Nat /\ x # 0 /\ x \notin S
  BY <1>1
<1>3. x - 1 \in Nat /\ (x - 1) + 1 = x /\ x - 1 < x
  BY <1>2
<1>4. x - 1 \in T
  BY <1>2, <1>3
<1>5. <<x - 1, x>> \in R
  BY <1>2, <1>3 DEF OpToRel
<1> QED BY <1>1, <1>4, <1>5

(* Recursion over 0 .. n, step by step: the steps stay within a set, and a *)
(* function goes through them.                                             *)
StepsWithin(V, step) == \A i \in Nat \ {0} : \A v \in V : step[<<i, v>>] \in V
Unfolds(f, base, step, n) == f[0] = base /\ \A i \in 1 .. n : f[i] = step[<<i, f[i - 1]>>]

(* There is a function for every such recursion. *)
LEMMA RecursionExists ==
  ASSUME NEW V, NEW base \in V, NEW step, NEW n \in Nat, StepsWithin(V, step)
  PROVE  \E f \in [0 .. n -> V] : Unfolds(f, base, step, n)
<1> DEFINE S == {m \in Nat : \E f \in [0 .. m -> V] : Unfolds(f, base, step, m)}
<1>1. 0 \in S
  <2> DEFINE f == [i \in 0 .. 0 |-> base]
  <2>1. f \in [0 .. 0 -> V] /\ Unfolds(f, base, step, 0)
    BY DEF Unfolds
  <2> QED BY <2>1
<1>2. ASSUME NEW m \in Nat, m \in S PROVE m + 1 \in S
  <2>1. PICK f \in [0 .. m -> V] : Unfolds(f, base, step, m)
    BY <1>2
  <2> DEFINE v == step[<<m + 1, f[m]>>]
             g == [i \in 0 .. m + 1 |-> IF i = m + 1 THEN v ELSE f[i]]
  <2>2. v \in V
    BY <2>1 DEF StepsWithin
  <2> HIDE DEF v
  <2>3. g \in [0 .. m + 1 -> V]
    BY <2>1, <2>2
  <2>4. \A i \in 0 .. m : g[i] = f[i]
    OBVIOUS
  <2>5. ASSUME NEW i \in 1 .. m + 1 PROVE g[i] = step[<<i, g[i - 1]>>]
    <3>1. CASE i = m + 1
      <4>1. i - 1 = m /\ g[i] = v /\ g[m] = f[m]
        BY <3>1
      <4> QED BY <4>1, <3>1 DEF v
    <3>2. CASE i # m + 1
      <4>1. i \in 1 .. m /\ i \in 0 .. m /\ i - 1 \in 0 .. m
        BY <3>2
      <4> QED BY <4>1, <2>1, <2>4 DEF Unfolds
    <3> QED BY <3>1, <3>2
  <2>6. g[0] = base
    BY <2>1, <2>4 DEF Unfolds
  <2> HIDE DEF g
  <2>7. Unfolds(g, base, step, m + 1)
    BY <2>5, <2>6 DEF Unfolds
  <2> QED BY <2>3, <2>7
<1>3. Nat \subseteq S
  <2> HIDE DEF S
  <2> QED BY <1>1, <1>2, SetInduction
<1>4. n \in S
  BY <1>3
<1> QED BY <1>4

(* Two functions that go the same way from the same value end at the same. *)
GoTogether(f, g, n) == f[0] = g[0] /\ \A i \in 1 .. n : f[i - 1] = g[i - 1] => f[i] = g[i]

LEMMA RecursionAgrees ==
  ASSUME NEW f, NEW g, NEW n \in Nat, GoTogether(f, g, n)
  PROVE  f[n] = g[n]
<1> DEFINE S == {i \in Nat : i \in 0 .. n => f[i] = g[i]}
<1>1. 0 \in S
  BY DEF GoTogether
<1>2. ASSUME NEW i \in Nat, i \in S PROVE i + 1 \in S
  <2> SUFFICES ASSUME i + 1 \in 0 .. n PROVE f[i + 1] = g[i + 1]
    OBVIOUS
  <2>1. i \in 0 .. n /\ i + 1 \in 1 .. n /\ (i + 1) - 1 = i
    OBVIOUS
  <2> QED BY <1>2, <2>1 DEF GoTogether
<1>3. Nat \subseteq S
  <2> HIDE DEF S
  <2> QED BY <1>1, <1>2, SetInduction
<1> QED BY <1>3

(* The largest of a set of positions. *)
LEMMA LargestTop ==
  ASSUME NEW n \in Nat, NEW s \in SUBSET (1 .. n), n \in s
  PROVE  Max(s) = n
<1>1. \A y \in s : n >= y /\ (y >= n => y = n)
  OBVIOUS
<1>2. \A x \in s : (\A y \in s : x >= y) <=> x = n
  BY <1>1
<1> QED BY <1>2 DEF Max

LEMMA LargestIn ==
  ASSUME NEW n \in Nat
  PROVE  \A s \in SUBSET (1 .. n) : s # {} => Max(s) \in s /\ \A y \in s : y <= Max(s)
<1> DEFINE S == {m \in Nat : \A s \in SUBSET (1 .. m) : s # {} => Max(s) \in s /\ \A y \in s : y <= Max(s)}
<1>1. 0 \in S
  <2>1. \A s \in SUBSET (1 .. 0) : s = {}
    OBVIOUS
  <2> QED BY <2>1
<1>2. ASSUME NEW m \in Nat, m \in S PROVE m + 1 \in S
  <2>1. ASSUME NEW s \in SUBSET (1 .. m + 1), s # {} PROVE Max(s) \in s /\ \A y \in s : y <= Max(s)
    <3>1. CASE m + 1 \in s
      <4>1. Max(s) = m + 1
        BY <3>1, LargestTop
      <4> QED BY <3>1, <4>1
    <3>2. CASE m + 1 \notin s
      <4>1. s \in SUBSET (1 .. m)
        BY <3>2
      <4> QED BY <1>2, <2>1, <4>1
    <3> QED BY <3>1, <3>2
  <2> QED BY <2>1
<1>3. Nat \subseteq S
  <2> HIDE DEF S
  <2> QED BY <1>1, <1>2, SetInduction
<1> QED BY <1>3

(* The smallest of a set of natural numbers. *)
LEMMA SmallestIn ==
  ASSUME NEW s \in SUBSET Nat, s # {}
  PROVE  Min(s) \in s /\ \A y \in s : Min(s) <= y
<1> DEFINE R == OpToRel(<, Nat)
<1>1. PICK x \in s : \A y \in s : ~(<<y, x>> \in R)
  <2>1. IsWellFoundedOn(R, Nat) /\ s \subseteq Nat
    BY NatLessThanWellFounded
  <2> HIDE DEF R
  <2> QED BY <2>1, WFMin
<1>2. \A y \in s : ~(y < x)
  BY <1>1 DEF OpToRel
<1>3. \A y \in s : x <= y
  BY <1>2
<1> QED BY <1>3 DEF Min

(* A set of positions that leaves none out before its largest. *)
LEMMA PrefixIsRange ==
  ASSUME NEW n \in Nat, NEW s \in SUBSET (1 .. n),
         \A i \in s : \A j \in 1 .. i : j \in s
  PROVE  \E m \in 0 .. n : s = 1 .. m
<1> DEFINE left == (1 .. n + 1) \ s
           k == Min(left)
<1>1. left \in SUBSET Nat /\ n + 1 \in left /\ n + 1 \in Nat
  OBVIOUS
<1>2. k \in left /\ \A y \in left : k <= y
  <2> HIDE DEF left
  <2> QED BY <1>1, SmallestIn
<1> HIDE DEF k
<1>3. k \in 1 .. n + 1 /\ k \notin s /\ \A y \in 1 .. n + 1 : y < k => y \in s
  BY <1>2
<1>4. \A i \in s : i < k
  <2> SUFFICES ASSUME NEW i \in s, ~(i < k) PROVE FALSE
    OBVIOUS
  <2>1. k \in 1 .. i
    BY <1>3
  <2> QED BY <2>1, <1>3
<1>5. \A y \in s : y \in 1 .. k - 1
  BY <1>3, <1>4
<1>6. \A y \in 1 .. k - 1 : y \in s
  BY <1>3
<1>7. s = 1 .. k - 1
  BY <1>5, <1>6, Zenon
<1>8. k - 1 \in 0 .. n
  BY <1>3
<1> QED BY <1>7, <1>8

(* A function over the first positions is as long as it has positions. *)
LEMMA LengthOfFunction ==
  ASSUME NEW n \in Nat, NEW f, f = [i \in 1 .. n |-> f[i]]
  PROVE  Len(f) = n /\ (n # 0 => f # <<>>)
<1> DEFINE S == {f[i] : i \in 1 .. n}
<1>1. f \in [1 .. n -> S]
  OBVIOUS
<1>2. f \in Seq(S)
  <2> HIDE DEF S
  <2> QED BY <1>1, SeqDef
<1>3. Len(f) \in Nat /\ DOMAIN f = 1 .. Len(f) /\ DOMAIN f = 1 .. n
  <2>1. DOMAIN f = 1 .. n
    BY <1>1
  <2> HIDE DEF S
  <2> QED BY <2>1, <1>2, LenProperties
<1>4. 1 .. Len(f) = 1 .. n
  BY <1>3
<1>5. Len(f) = n
  BY <1>3, <1>4
<1> QED BY <1>5

(* The fold of the community modules takes the largest position off a set  *)
(* of positions, again and again.                                          *)
Descends(f, base, step, n) ==
    f = [s \in SUBSET (1 .. n) |-> IF s = {} THEN base ELSE step[<<Max(s), f[s \ {Max(s)}]>>]]

LEMMA DescentExists ==
  ASSUME NEW V, NEW base \in V, NEW step, NEW n \in Nat, StepsWithin(V, step)
  PROVE  \E f \in [SUBSET (1 .. n) -> V] : Descends(f, base, step, n)
<1> DEFINE S == {m \in Nat : \E f \in [SUBSET (1 .. m) -> V] : Descends(f, base, step, m)}
<1>1. 0 \in S
  <2> DEFINE f == [s \in SUBSET (1 .. 0) |-> base]
  <2>1. \A s \in SUBSET (1 .. 0) : s = {}
    OBVIOUS
  <2>2. Descends(f, base, step, 0) /\ f \in [SUBSET (1 .. 0) -> V]
    BY <2>1 DEF Descends
  <2> QED BY <2>2
<1>2. ASSUME NEW m \in Nat, m \in S PROVE m + 1 \in S
  <2>1. PICK f \in [SUBSET (1 .. m) -> V] : Descends(f, base, step, m)
    BY <1>2
  <2>2. \A s \in SUBSET (1 .. m) : f[s] = IF s = {} THEN base ELSE step[<<Max(s), f[s \ {Max(s)}]>>]
    BY <2>1 DEF Descends
  <2> DEFINE g == [s \in SUBSET (1 .. m + 1) |->
                     IF m + 1 \in s THEN step[<<m + 1, f[s \ {m + 1}]>>] ELSE f[s]]
  <2>3. \A s \in SUBSET (1 .. m) : s \in SUBSET (1 .. m + 1) /\ m + 1 \notin s
    OBVIOUS
  <2>4. \A s \in SUBSET (1 .. m) : g[s] = f[s]
    BY <2>3
  <2>5. ASSUME NEW s \in SUBSET (1 .. m + 1)
        PROVE  g[s] = IF s = {} THEN base ELSE step[<<Max(s), g[s \ {Max(s)}]>>]
    <3>1. CASE m + 1 \in s
      <4>1. Max(s) = m + 1
        BY <3>1, LargestTop
      <4>2. s \ {m + 1} \in SUBSET (1 .. m)
        OBVIOUS
      <4>3. g[s] = step[<<m + 1, f[s \ {m + 1}]>>]
        BY <3>1
      <4>4. g[s] = step[<<m + 1, g[s \ {m + 1}]>>]
        BY <4>2, <4>3, <2>4
      <4> HIDE DEF g
      <4> QED BY <3>1, <4>1, <4>4
    <3>2. CASE m + 1 \notin s
      <4>1. s \in SUBSET (1 .. m)
        BY <3>2
      <4>2. g[s] = f[s] /\ g[s \ {Max(s)}] = f[s \ {Max(s)}]
        <5>1. s \ {Max(s)} \in SUBSET (1 .. m)
          BY <4>1
        <5> HIDE DEF g
        <5> QED BY <4>1, <5>1, <2>4
      <4> HIDE DEF g
      <4> QED BY <4>1, <4>2, <2>2
    <3> QED BY <3>1, <3>2
  <2>6. g \in [SUBSET (1 .. m + 1) -> V]
    <3>1. ASSUME NEW s \in SUBSET (1 .. m + 1), m + 1 \in s PROVE step[<<m + 1, f[s \ {m + 1}]>>] \in V
      <4>1. s \ {m + 1} \in SUBSET (1 .. m) /\ m + 1 \in Nat \ {0}
        OBVIOUS
      <4>2. f[s \ {m + 1}] \in V
        BY <2>1, <4>1
      <4> QED BY <4>1, <4>2 DEF StepsWithin
    <3>2. ASSUME NEW s \in SUBSET (1 .. m + 1), m + 1 \notin s PROVE f[s] \in V
      <4>1. s \in SUBSET (1 .. m)
        BY <3>2
      <4> QED BY <2>1, <4>1
    <3> QED BY <3>1, <3>2
  <2> HIDE DEF g
  <2>7. Descends(g, base, step, m + 1)
    BY <2>5, <2>6 DEF Descends
  <2> QED BY <2>6, <2>7
<1>3. Nat \subseteq S
  <2> HIDE DEF S
  <2> QED BY <1>1, <1>2, SetInduction
<1>4. n \in S
  BY <1>3
<1> QED BY <1>4
-----------------------------------------------------------------------------
(* What FlattenSeq has joined after each of its steps. *)
Joins(f, S, s) ==
    /\ f \in [0 .. Len(s) -> Seq(S)] /\ f[0] = <<>>
    /\ \A i \in 1 .. Len(s) : f[i] = f[i - 1] \o s[i]

LEMMA FlattenJoins ==
  ASSUME NEW S, NEW s \in Seq(Seq(S))
  PROVE  \E f : Joins(f, S, s) /\ FlattenSeq(s) = f[Len(s)]
<1> DEFINE n == Len(s)
           Loop(g) == [i \in 1 .. n |-> IF i = 1 THEN s[i] ELSE g[i - 1] \o s[i]]
           step == [p \in (Nat \ {0}) \X Seq(S) |-> IF p[1] \in 1 .. n THEN p[2] \o s[p[1]] ELSE p[2]]
           flatten == CHOOSE g : g = Loop(g)
<1>1. n \in Nat /\ \A i \in 1 .. n : s[i] \in Seq(S)
  BY LenProperties, ElementOfSeq
<1>2. <<>> \in Seq(S) /\ \A t \in Seq(S) : <<>> \o t = t
  BY EmptySeq, ConcatEmptySeq
<1>3. StepsWithin(Seq(S), step)
  <2>1. \A t, u \in Seq(S) : t \o u \in Seq(S)
    BY ConcatProperties
  <2> QED BY <1>1, <2>1 DEF StepsWithin
<1>4. \A i \in 1 .. n : \A t \in Seq(S) : step[<<i, t>>] = t \o s[i]
  <2>1. \A i \in 1 .. n : i \in Nat \ {0}
    OBVIOUS
  <2> HIDE DEF n
  <2> QED BY <2>1
<1>5. PICK f : f \in [0 .. n -> Seq(S)] /\ Unfolds(f, <<>>, step, n)
  <2> HIDE DEF step, Loop, flatten, n
  <2> QED BY <1>1, <1>2, <1>3, RecursionExists
<1>6. \A i \in 1 .. n : i - 1 \in 0 .. n /\ i \in 0 .. n
  BY <1>1
<1>7. Joins(f, S, s)
  <2> HIDE DEF step, Loop, flatten
  <2> QED BY <1>4, <1>5, <1>6 DEF Unfolds, Joins
<1>8. CASE n = 0
  <2>1. s = <<>> /\ FlattenSeq(s) = s
    BY <1>8, <1>1, EmptySeq DEF FlattenSeq
  <2> QED BY <1>5, <1>7, <1>8, <2>1 DEF Joins
<1>9. CASE n # 0
  <2> DEFINE g == [i \in 1 .. n |-> f[i]]
  <2>1. g = Loop(g)
    <3>1. ASSUME NEW i \in 1 .. n PROVE f[i] = IF i = 1 THEN s[i] ELSE f[i - 1] \o s[i]
      <4>1. f[i] = f[i - 1] \o s[i] /\ f[0] = <<>> /\ s[i] \in Seq(S)
        BY <1>1, <1>7 DEF Joins
      <4>2. CASE i = 1
        <5>1. i - 1 = 0
          BY <4>2
        <5> QED BY <4>1, <4>2, <5>1, <1>2
      <4>3. CASE i # 1
        BY <4>1, <4>3
      <4> QED BY <4>2, <4>3
    <3>2. \A i \in 1 .. n : i # 1 => i - 1 \in 1 .. n /\ g[i - 1] = f[i - 1]
      BY <1>1
    <3> QED BY <3>1, <3>2
  <2>2. flatten = Loop(flatten)
    <3> HIDE DEF Loop
    <3> QED BY <2>1
  <2>3. /\ 1 \in 1 .. n => flatten[1] = s[1]
        /\ \A i \in 1 .. n : i # 1 => flatten[i] = flatten[i - 1] \o s[i]
    <3>1. \A i \in 1 .. n : Loop(flatten)[i] = IF i = 1 THEN s[i] ELSE flatten[i - 1] \o s[i]
      OBVIOUS
    <3> HIDE DEF Loop, flatten
    <3> QED BY <2>2, <3>1
  <2>4. FlattenSeq(s) = flatten[n]
    BY <1>9 DEF FlattenSeq
  <2> HIDE DEF Loop, flatten, n
  <2> DEFINE h == [i \in 0 .. n |-> IF i = 0 THEN <<>> ELSE flatten[i]]
  <2>5. h[0] = f[0] /\ \A i \in 1 .. n : h[i - 1] = f[i - 1] => h[i] = f[i]
    <3>1. h[0] = <<>> /\ f[0] = <<>>
      BY <1>1, <1>7 DEF Joins
    <3>2. ASSUME NEW i \in 1 .. n, h[i - 1] = f[i - 1] PROVE h[i] = f[i]
      <4>1. f[i] = f[i - 1] \o s[i]
        BY <1>7 DEF Joins, n
      <4>2. h[i] = flatten[i] /\ (i # 1 => h[i - 1] = flatten[i - 1])
        BY <1>1
      <4>3. CASE i = 1
        <5>1. i - 1 = 0
          BY <4>3
        <5> QED BY <4>1, <4>2, <4>3, <5>1, <3>1, <2>3, <1>1, <1>2
      <4>4. CASE i # 1
        BY <4>1, <4>2, <4>4, <3>2, <2>3
      <4> QED BY <4>3, <4>4
    <3> QED BY <3>1, <3>2
  <2>6. h[n] = flatten[n]
    BY <1>1, <1>9
  <2> HIDE DEF h
  <2>7. h[n] = f[n]
    <3>1. n \in Nat /\ GoTogether(h, f, n)
      BY <1>1, <2>5 DEF GoTogether
    <3> QED BY <3>1, RecursionAgrees
  <2>8. FlattenSeq(s) = f[n]
    BY <2>4, <2>6, <2>7
  <2> QED BY <1>5, <1>7, <2>8 DEF n
<1> QED BY <1>8, <1>9

LEMMA FlattenType ==
  ASSUME NEW S, NEW s \in Seq(Seq(S))
  PROVE  FlattenSeq(s) \in Seq(S)
<1>1. PICK f : Joins(f, S, s) /\ FlattenSeq(s) = f[Len(s)]
  BY FlattenJoins
<1>2. Len(s) \in 0 .. Len(s)
  BY LenProperties
<1> QED BY <1>1, <1>2 DEF Joins

LEMMA FlattenNone == FlattenSeq(<<>>) = <<>>
  BY DEF FlattenSeq

LEMMA FlattenOne ==
  ASSUME NEW S, NEW t \in Seq(S)
  PROVE  FlattenSeq(<<t>>) = t
<1>1. <<t>> \in Seq(Seq(S)) /\ Len(<<t>>) = 1 /\ <<t>>[1] = t /\ 1 \in 1 .. 1 /\ 1 - 1 = 0
  OBVIOUS
<1>2. PICK f : Joins(f, S, <<t>>) /\ FlattenSeq(<<t>>) = f[1]
  BY <1>1, FlattenJoins
<1>3. f[1] = f[0] \o t /\ f[0] = <<>>
  BY <1>1, <1>2 DEF Joins
<1> QED BY <1>2, <1>3, ConcatEmptySeq

LEMMA Associative ==
  ASSUME NEW S
  PROVE  \A x, y, z \in Seq(S) : x \o y \in Seq(S) /\ (x \o y) \o z = x \o (y \o z)
<1> SUFFICES ASSUME NEW x \in Seq(S), NEW y \in Seq(S), NEW z \in Seq(S)
             PROVE  x \o y \in Seq(S) /\ (x \o y) \o z = x \o (y \o z)
  OBVIOUS
<1>1. x \o y \in Seq(S)
  BY ConcatProperties
<1>2. (x \o y) \o z = x \o (y \o z)
  BY ConcatAssociative
<1> QED BY <1>1, <1>2

(* The segments of two pieces are joined one piece behind the other. *)
LEMMA FlattenConcat ==
  ASSUME NEW S, NEW s \in Seq(Seq(S)), NEW t \in Seq(Seq(S))
  PROVE  FlattenSeq(s \o t) = FlattenSeq(s) \o FlattenSeq(t)
<1>assoc. \A x, y, z \in Seq(S) : x \o y \in Seq(S) /\ (x \o y) \o z = x \o (y \o z)
  BY Associative
<1> DEFINE u == s \o t
           m == Len(s)
           n == Len(t)
<1>1. /\ u \in Seq(Seq(S)) /\ Len(u) = m + n /\ m \in Nat /\ n \in Nat
      /\ \A i \in 1 .. m + n : u[i] = IF i <= m THEN s[i] ELSE t[i - m]
  BY ConcatProperties, LenProperties
<1>0. m \in Nat /\ n \in Nat /\ n \in 0 .. n
  BY <1>1
<1>2. PICK A : Joins(A, S, s) /\ FlattenSeq(s) = A[m]
  BY FlattenJoins
<1>3. PICK B : Joins(B, S, t) /\ FlattenSeq(t) = B[n]
  BY FlattenJoins
<1> HIDE DEF u
<1>4. PICK C : Joins(C, S, u) /\ FlattenSeq(u) = C[Len(u)]
  BY <1>1, FlattenJoins
<1>5. C[m] = A[m]
  <2>1. ASSUME NEW i \in 1 .. m, C[i - 1] = A[i - 1] PROVE C[i] = A[i]
    <3>1. i \in 1 .. m + n /\ i <= m
      BY <1>1
    <3>2. C[i] = C[i - 1] \o u[i] /\ A[i] = A[i - 1] \o s[i] /\ u[i] = s[i]
      BY <3>1, <1>1, <1>2, <1>4 DEF Joins
    <3> QED BY <2>1, <3>2
  <2>2. C[0] = A[0]
    BY <1>2, <1>4 DEF Joins
  <2>3. m \in Nat /\ m \in 0 .. m
    BY <1>1
  <2>4. C[0] = A[0] /\ \A i \in 1 .. m : C[i - 1] = A[i - 1] => C[i] = A[i]
    BY <2>1, <2>2
  <2> HIDE DEF m
  <2>5. GoTogether(C, A, m)
    BY <2>4 DEF GoTogether
  <2> QED BY <2>3, <2>5, RecursionAgrees
<1> DEFINE X == [i \in 0 .. n |-> C[m + i]]
           Y == [i \in 0 .. n |-> A[m] \o B[i]]
<1>6. A[m] \in Seq(S) /\ \A i \in 0 .. n : B[i] \in Seq(S)
  <2>1. m \in 0 .. m
    BY <1>1
  <2>2. A \in [0 .. m -> Seq(S)] /\ B \in [0 .. n -> Seq(S)]
    BY <1>2, <1>3 DEF Joins
  <2> HIDE DEF m, n
  <2> QED BY <2>1, <2>2
<1>7. X[0] = Y[0]
  <2>1. 0 \in 0 .. n /\ m + 0 = m /\ B[0] = <<>>
    BY <1>1, <1>3 DEF Joins
  <2>2. X[0] = C[m] /\ Y[0] = A[m] \o <<>>
    BY <2>1
  <2> QED BY <2>2, <1>5, <1>6, ConcatEmptySeq
<1>8. ASSUME NEW i \in 1 .. n, X[i - 1] = Y[i - 1] PROVE X[i] = Y[i]
  <2>1. /\ i \in 0 .. n /\ i - 1 \in 0 .. n /\ m + i \in 1 .. m + n /\ ~(m + i <= m) /\ (m + i) - m = i
        /\ (m + i) - 1 = m + (i - 1)
    <3> HIDE DEF m, n, X, Y
    <3> QED BY <1>0
  <2>2. X[i] = C[m + i] /\ X[i - 1] = C[m + (i - 1)] /\ Y[i] = A[m] \o B[i] /\ Y[i - 1] = A[m] \o B[i - 1]
    BY <2>1
  <2>3. C[m + i] = C[m + (i - 1)] \o u[m + i] /\ u[m + i] = t[i]
    BY <2>1, <1>1, <1>4 DEF Joins
  <2>4. B[i] = B[i - 1] \o t[i]
    BY <1>3 DEF Joins
  <2>5. B[i - 1] \in Seq(S) /\ t[i] \in Seq(S)
    BY <1>6, <2>1, ElementOfSeq
  <2>6. (A[m] \o B[i - 1]) \o t[i] = A[m] \o (B[i - 1] \o t[i])
    <3> HIDE DEF X, Y, m, n
    <3> QED BY <1>6, <2>5, <1>assoc
  <2> QED BY <1>8, <2>2, <2>3, <2>4, <2>6
<1>9. X[0] = Y[0] /\ \A i \in 1 .. n : X[i - 1] = Y[i - 1] => X[i] = Y[i]
  <2> HIDE DEF X, Y
  <2> QED BY <1>7, <1>8
<1>10. X[n] = C[m + n] /\ Y[n] = A[m] \o B[n]
  <2> HIDE DEF m, n
  <2> QED BY <1>0
<1> HIDE DEF X, Y, m, n
<1>11. X[n] = Y[n]
  <2>1. n \in Nat /\ GoTogether(X, Y, n)
    BY <1>1, <1>9 DEF GoTogether
  <2> QED BY <2>1, RecursionAgrees
<1> QED BY <1>1, <1>2, <1>3, <1>4, <1>10, <1>11 DEF u

(* Where the elements of the joined sequences are in the joint.            *)
Places(f, s) ==
    \A i \in 1 .. Len(s) :
        /\ Len(f[i - 1]) \in Nat /\ Len(f[i]) = Len(f[i - 1]) + Len(s[i])
        /\ \A j \in 1 .. Len(s[i]) :
              /\ Len(f[i - 1]) + j \in 1 .. Len(f[Len(s)])
              /\ f[Len(s)][Len(f[i - 1]) + j] = s[i][j]

LEMMA FlattenPlaces ==
  ASSUME NEW S, NEW s \in Seq(Seq(S)), NEW f, Joins(f, S, s)
  PROVE  Places(f, s)
<1> DEFINE n == Len(s)
           Placed(i, k) == \A j \in 1 .. Len(s[i]) : /\ Len(f[i - 1]) + j \in 1 .. Len(f[k])
                                                     /\ f[k][Len(f[i - 1]) + j] = s[i][j]
           T == {k \in Nat : k \in 0 .. n => \A i \in 1 .. k : Placed(i, k)}
<1>1. n \in Nat /\ \A i \in 1 .. n : s[i] \in Seq(S) /\ Len(s[i]) \in Nat
  BY LenProperties, ElementOfSeq
<1>2. f \in [0 .. n -> Seq(S)] /\ \A k \in 1 .. n : f[k] = f[k - 1] \o s[k]
  BY DEF Joins
<1> HIDE DEF n
<1>3. \A k \in 1 .. n : k \in 0 .. n /\ k - 1 \in 0 .. n
  BY <1>1
<1>4. \A k \in 0 .. n : f[k] \in Seq(S) /\ Len(f[k]) \in Nat
  BY <1>2, LenProperties
<1>5. ASSUME NEW k \in 1 .. n
      PROVE  /\ Len(f[k]) = Len(f[k - 1]) + Len(s[k])
             /\ \A i \in 1 .. Len(f[k]) : f[k][i] = IF i <= Len(f[k - 1]) THEN f[k - 1][i] ELSE s[k][i - Len(f[k - 1])]
  <2>1. f[k] = f[k - 1] \o s[k] /\ f[k - 1] \in Seq(S) /\ s[k] \in Seq(S)
    BY <1>1, <1>2, <1>3, <1>4
  <2> DEFINE x == f[k - 1]
             y == s[k]
  <2>2. x \in Seq(S) /\ y \in Seq(S) /\ f[k] = x \o y
    BY <2>1
  <2> HIDE DEF x, y
  <2>3. /\ Len(x \o y) = Len(x) + Len(y)
        /\ \A i \in 1 .. Len(x) + Len(y) : (x \o y)[i] = IF i <= Len(x) THEN x[i] ELSE y[i - Len(x)]
    BY <2>2, ConcatProperties
  <2> QED BY <2>2, <2>3 DEF x, y
<1>6. 0 \in T
  OBVIOUS
<1>7. ASSUME NEW k \in Nat, k \in T PROVE k + 1 \in T
  <2> SUFFICES ASSUME k + 1 \in 0 .. n, NEW i \in 1 .. k + 1 PROVE Placed(i, k + 1)
    BY DEF T
  <2>1. k \in 0 .. n /\ k + 1 \in 1 .. n /\ (k + 1) - 1 = k /\ i \in 1 .. n /\ i - 1 \in 0 .. n
    BY <1>1
  <2> DEFINE a == Len(f[k])
             b == Len(s[k + 1])
  <2>2. /\ Len(f[k + 1]) = a + b /\ a \in Nat /\ b \in Nat
        /\ \A x \in 1 .. a + b : f[k + 1][x] = IF x <= a THEN f[k][x] ELSE s[k + 1][x - a]
    <3>1. /\ Len(f[k + 1]) = Len(f[k]) + Len(s[k + 1])
          /\ \A x \in 1 .. Len(f[k + 1]) : f[k + 1][x] = IF x <= Len(f[k]) THEN f[k][x] ELSE s[k + 1][x - Len(f[k])]
      BY <1>5, <2>1
    <3> QED BY <3>1, <1>1, <1>4, <2>1
  <2> HIDE DEF a, b, T
  <2>3. CASE i = k + 1
    <3>1. i - 1 = k /\ Len(s[i]) = b /\ Len(f[i - 1]) = a
      BY <2>1, <2>3 DEF a, b
    <3>2. ASSUME NEW j \in 1 .. b PROVE a + j \in 1 .. a + b /\ f[k + 1][a + j] = s[k + 1][j]
      <4>1. a + j \in 1 .. a + b /\ ~(a + j <= a) /\ (a + j) - a = j
        BY <2>2
      <4> QED BY <4>1, <2>2
    <3> QED BY <2>2, <2>3, <3>1, <3>2
  <2>4. CASE i # k + 1
    <3>1. i \in 1 .. k
      BY <2>4
    <3>2. Placed(i, k)
      BY <1>7, <2>1, <3>1 DEF T
    <3> DEFINE c == Len(f[i - 1])
    <3>3. \A j \in 1 .. Len(s[i]) : c + j \in 1 .. a /\ f[k][c + j] = s[i][j]
      BY <3>2 DEF a
    <3> HIDE DEF c
    <3>4. \A j \in 1 .. Len(s[i]) : c + j \in 1 .. a + b /\ c + j <= a
      BY <2>2, <3>3
    <3>5. \A j \in 1 .. Len(s[i]) : c + j \in 1 .. a + b /\ f[k + 1][c + j] = s[i][j]
      BY <2>2, <3>3, <3>4
    <3> QED BY <2>2, <3>5 DEF c
  <2> QED BY <2>3, <2>4
<1>8. Nat \subseteq T
  <2> HIDE DEF T
  <2> QED BY <1>6, <1>7, SetInduction
<1>9. ASSUME NEW i \in 1 .. n PROVE Placed(i, n)
  <2>1. n \in T /\ n \in 0 .. n
    BY <1>1, <1>8
  <2> QED BY <2>1
<1>10. \A i \in 1 .. n : Len(f[i - 1]) \in Nat /\ Len(f[i]) = Len(f[i - 1]) + Len(s[i])
  BY <1>3, <1>4, <1>5
<1> QED BY <1>9, <1>10 DEF n, Places

(* The positions of what is joined out of pairs.                           *)
LEMMA FlattenPairs ==
  ASSUME NEW S, NEW s \in Seq(Seq(S)), \A i \in 1 .. Len(s) : Len(s[i]) = 2
  PROVE  /\ FlattenSeq(s) \in Seq(S) /\ Len(FlattenSeq(s)) = 2 * Len(s)
         /\ \A i \in 1 .. Len(s) : FlattenSeq(s)[2 * i - 1] = s[i][1] /\ FlattenSeq(s)[2 * i] = s[i][2]
<1>1. PICK f : Joins(f, S, s) /\ FlattenSeq(s) = f[Len(s)]
  BY FlattenJoins
<1>0. Places(f, s)
  BY <1>1, FlattenPlaces
<1> DEFINE n == Len(s)
           T == {k \in Nat : k \in 0 .. n => Len(f[k]) = 2 * k}
<1>2. n \in Nat
  BY LenProperties
<1>3. \A i \in 1 .. n : /\ Len(f[i]) = Len(f[i - 1]) + 2
                        /\ \A j \in 1 .. 2 : f[n][Len(f[i - 1]) + j] = s[i][j]
  <2>1. \A i \in 1 .. n : /\ Len(f[i]) = Len(f[i - 1]) + Len(s[i])
                          /\ \A j \in 1 .. Len(s[i]) : f[n][Len(f[i - 1]) + j] = s[i][j]
    BY <1>0 DEF Places
  <2> QED BY <2>1
<1>4. 0 \in T
  BY <1>1, EmptySeq DEF Joins
<1>5. ASSUME NEW k \in Nat, k \in T PROVE k + 1 \in T
  <2>1. k + 1 \in 0 .. n => k \in 0 .. n /\ k + 1 \in 1 .. n /\ (k + 1) - 1 = k
    BY <1>2
  <2> QED BY <1>3, <1>5, <2>1
<1>6. Nat \subseteq T
  <2> HIDE DEF T
  <2> QED BY <1>4, <1>5, SetInduction
<1>7. \A k \in 0 .. n : Len(f[k]) = 2 * k
  BY <1>6, <1>2
<1>8. ASSUME NEW i \in 1 .. n PROVE f[n][2 * i - 1] = s[i][1] /\ f[n][2 * i] = s[i][2]
  <2>1. i - 1 \in 0 .. n /\ 2 * (i - 1) + 1 = 2 * i - 1 /\ 2 * (i - 1) + 2 = 2 * i
    BY <1>2
  <2>2. Len(f[i - 1]) = 2 * (i - 1)
    BY <1>7, <2>1
  <2>3. \A j \in 1 .. 2 : f[n][Len(f[i - 1]) + j] = s[i][j]
    BY <1>3
  <2>4. f[n][2 * (i - 1) + 1] = s[i][1] /\ f[n][2 * (i - 1) + 2] = s[i][2]
    <3>1. 1 \in 1 .. 2 /\ 2 \in 1 .. 2
      OBVIOUS
    <3> QED BY <2>2, <2>3, <3>1
  <2> QED BY <2>1, <2>4
<1>9. f[n] \in Seq(S) /\ Len(f[n]) = 2 * n
  <2>1. n \in 0 .. n
    BY <1>2
  <2> QED BY <1>1, <1>7, <2>1 DEF Joins
<1> QED BY <1>1, <1>8, <1>9
=============================================================================

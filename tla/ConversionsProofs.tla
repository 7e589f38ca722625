-------------------------- MODULE ConversionsProofs --------------------------
(***************************************************************************)
(* The converters answer what they must, for integers of any widths, any   *)
(* scales, any calendar and zones, and any dates, times and texts; and an  *)
(* exception says what the status vector said, whatever its arguments.     *)
(***************************************************************************)
EXTENDS Conversions, ConverterProofs

-----------------------------------------------------------------------------
LEMMA DatesTried == DateFields \subseteq Dates
<1>1. Years \subseteq -MaxYear .. MaxYear /\ 0 .. MonthsPerYear + 1 \subseteq Nat /\ 0 .. DaysPerMonth + 1 \subseteq Nat
  BY ConversionsAssumption, CalendarSizes
<1> QED BY <1>1 DEF DateFields, Dates

(* Each kind of request comes from the calls that make it. *)
LEMMA CallsByTheirOp ==
  ASSUME Next
  PROVE  /\ request'.op = "rescale" => Rescale
         /\ request'.op = "calendar" => WriteDate \/ WriteTime \/ WriteTimeTz \/ WriteTimestamp \/ WriteTimestampTz
         /\ request'.op = "calendarText" => ReadCalendarText
         /\ request'.op = "throw" => ThrowVector
         /\ request'.op = "wrapper" => UseWrapper
         /\ request'.op = "text" => ReadText
         /\ request'.op = "throughText" => ThroughText
<1> DEFINE op == request'.op
           other == {"idle", "float", "throughFloat", "floatText", "throwOwn"}
<1>1. CASE Rescale
  <2>1. op = "rescale"
    BY <1>1 DEF Rescale, Answer
  <2> QED BY <1>1, <2>1
<1>2. CASE ReadFloat \/ ThroughFloat \/ ThroughFloatText \/ ThrowOwn
  <2>1. ReadFloat => op = "float"
    BY DEF ReadFloat, Answer
  <2>2. ThroughFloat => op = "throughFloat"
    BY DEF ThroughFloat, Answer
  <2>3. ThroughFloatText => op = "floatText"
    BY DEF ThroughFloatText, Answer
  <2>4. ThrowOwn => op = "throwOwn"
    <3>1. ASSUME NEW own, NEW e, Answer([op |-> "throwOwn", own |-> own], {e}) PROVE op = "throwOwn"
      BY <3>1 DEF Answer
    <3> HIDE DEF op
    <3> QED BY <3>1, Zenon DEF ThrowOwn
  <2> QED BY <1>2, <2>1, <2>2, <2>3, <2>4
<1>t. CASE ThroughText \/ ReadText
  <2>1. ThroughText => op = "throughText"
    BY DEF ThroughText, Answer
  <2>2. ReadText => op = "text"
    BY DEF ReadText, Answer
  <2> QED BY <1>t, <2>1, <2>2
<1>3. CASE WriteDate \/ WriteTime \/ WriteTimeTz \/ WriteTimestamp \/ WriteTimestampTz
  <2>1. ASSUME NEW kind, NEW v, Written(kind, v) PROVE op = "calendar"
    BY <2>1 DEF Written, Answer
  <2>2. op = "calendar"
    <3> HIDE DEF op
    <3> QED BY <1>3, <2>1 DEF WriteDate, WriteTime, WriteTimeTz, WriteTimestamp, WriteTimestampTz
  <2> QED BY <1>3, <2>2
<1>4. CASE ReadCalendarText
  <2>1. op = "calendarText"
    BY <1>4 DEF ReadCalendarText, Answer
  <2> QED BY <1>4, <2>1
<1>5. CASE ThrowVector \/ UseWrapper
  <2>1. ASSUME ThrowVector PROVE op = "throw"
    <3>1. ASSUME NEW args, NEW e, Answer([op |-> "throw", args |-> args], {e}) PROVE op = "throw"
      BY <3>1 DEF Answer
    <3> HIDE DEF op
    <3> QED BY <2>1, <3>1, Zenon DEF ThrowVector
  <2>2. ASSUME UseWrapper PROVE op = "wrapper"
    <3>1. ASSUME NEW answers, NEW e, Answer([op |-> "wrapper", answers |-> answers], {e}) PROVE op = "wrapper"
      BY <3>1 DEF Answer
    <3> HIDE DEF op
    <3> QED BY <2>2, <3>1, Zenon DEF UseWrapper
  <2> QED BY <1>5, <2>1, <2>2
<1>6. CASE Return
  <2>1. op \in other
    BY <1>6 DEF Return, Idle
  <2> QED BY <2>1
<1> QED BY <1>1, <1>2, <1>t, <1>3, <1>4, <1>5, <1>6 DEF Next, Call

-----------------------------------------------------------------------------
(* The arguments of a status vector, what is copied of each, and where a   *)
(* walk through the vector finds them.                                     *)
ServerArguments == TextArguments \union CountedArguments \union OtherArguments
Kinds == STRING \union TextKinds \union {"cstring", "end"}
Words == Names(Kinds) \union Numbers \union ServerTexts
Kind(a) == a[1][2]
CarriesText(a) == Kind(a) \in TextKinds \union {"cstring"}
TextOf(a) == IF Kind(a) = "cstring" THEN SubSeq(a[3][2], 1, a[2][2]) ELSE a[2][2]
NameCopied(a) == IF Kind(a) = "cstring" THEN <<"arg", "string">> ELSE a[1]
WordCopied(a) == IF CarriesText(a) THEN Placeholder ELSE a[2]

LEMMA WordsAre ==
  /\ End \in Words /\ Placeholder \in Words /\ <<"arg", "string">> \in Words
  /\ Names(Kinds) \subseteq Words /\ Numbers \subseteq Words /\ ServerTexts \subseteq Words
<1>1. \A kinds : \A x \in kinds : <<"arg", x>> \in Names(kinds)
  BY DEF Names
<1>2. <<"arg", "end">> \in Names(Kinds) /\ <<"arg", "string">> \in Names(Kinds)
  BY <1>1 DEF Kinds, TextKinds
<1>3. <<"number", 0>> \in Numbers
  BY DEF Numbers
<1> QED BY <1>2, <1>3 DEF Words, End, Placeholder

LEMMA ArgumentIs ==
  ASSUME NEW a \in ServerArguments
  PROVE  /\ a \in Seq(Words) /\ Len(a) = IF Kind(a) = "cstring" THEN 3 ELSE 2
         /\ a[1] = <<"arg", Kind(a)>> /\ a[1] # End
         /\ CarriesText(a) /\ Kind(a) # "cstring" => a[2] = <<"text", a[2][2]>>
         /\ ~CarriesText(a) => a[2][1] = "number"
         /\ NameCopied(a) \in Words /\ NameCopied(a)[1] = "arg" /\ WordCopied(a) \in Words
         /\ NameCopied(a)[2] \in TextKinds <=> CarriesText(a)
<1>1. CASE a \in TextArguments
  <2>1. PICK name \in Names(TextKinds), word \in ServerTexts : a = <<name, word>>
    BY <1>1 DEF TextArguments
  <2>2. PICK kind \in TextKinds, text \in Seq(STRING) : name = <<"arg", kind>> /\ word = <<"text", text>>
    BY DEF Names, ServerTexts
  <2>3. a[1] = <<"arg", kind>> /\ a[2] = <<"text", text>> /\ Kind(a) = kind /\ a[2][2] = text /\ kind # "cstring"
    BY <2>1, <2>2 DEF Kind, TextKinds
  <2>4. name \in Words /\ word \in Words
    <3>1. kind \in Kinds
      BY DEF Kinds
    <3>2. name \in Names(Kinds)
      BY <2>2, <3>1 DEF Names
    <3> QED BY <3>2, WordsAre
  <2>5. a \in Seq(Words) /\ Len(a) = 2
    BY <2>1, <2>4
  <2>6. CarriesText(a) /\ NameCopied(a) = <<"arg", kind>> /\ WordCopied(a) = Placeholder /\ a[1] # End
    BY <2>2, <2>3 DEF CarriesText, NameCopied, WordCopied, End, TextKinds
  <2>7. a[2] = <<"text", a[2][2]>> /\ NameCopied(a)[1] = "arg" /\ NameCopied(a)[2] \in TextKinds
    BY <2>3, <2>6
  <2> QED BY <2>2, <2>3, <2>4, <2>5, <2>6, <2>7, WordsAre
<1>2. CASE a \in CountedArguments
  <2>1. PICK name \in Names({"cstring"}), count \in Numbers, word \in ServerTexts : a = <<name, count, word>>
    BY <1>2 DEF CountedArguments
  <2>2. name = <<"arg", "cstring">>
    BY DEF Names
  <2>3. a[1] = <<"arg", "cstring">> /\ Kind(a) = "cstring"
    BY <2>1, <2>2 DEF Kind
  <2>4. name \in Words /\ count \in Words /\ word \in Words
    <3>1. name \in Names(Kinds)
      BY <2>2 DEF Names, Kinds
    <3> QED BY <3>1, WordsAre
  <2>5. a \in Seq(Words) /\ Len(a) = 3
    BY <2>1, <2>4
  <2>6. CarriesText(a) /\ NameCopied(a) = <<"arg", "string">> /\ WordCopied(a) = Placeholder /\ a[1] # End
    BY <2>3 DEF CarriesText, NameCopied, WordCopied, End
  <2> QED BY <2>3, <2>5, <2>6, WordsAre DEF TextKinds
<1>3. CASE a \in OtherArguments
  <2>1. PICK name \in Names(STRING \ (TextKinds \union {"cstring", "end"})), word \in Numbers : a = <<name, word>>
    BY <1>3 DEF OtherArguments
  <2>2. PICK kind \in STRING \ (TextKinds \union {"cstring", "end"}), number \in Int : name = <<"arg", kind>> /\ word = <<"number", number>>
    <3> DEFINE kinds == STRING \ (TextKinds \union {"cstring", "end"})
    <3>1. \E kind \in kinds : name = <<"arg", kind>>
      <4>1. name \in Names(kinds)
        OBVIOUS
      <4> HIDE DEF kinds
      <4> QED BY <4>1 DEF Names
    <3>2. \E number \in Int : word = <<"number", number>>
      BY DEF Numbers
    <3> QED BY <3>1, <3>2
  <2>3. a[1] = <<"arg", kind>> /\ a[2] = <<"number", number>> /\ Kind(a) = kind /\ kind # "cstring" /\ kind # "end" /\ kind \notin TextKinds
    BY <2>1, <2>2 DEF Kind
  <2>4. name \in Words /\ word \in Words
    <3>1. name \in Names(Kinds)
      BY <2>2 DEF Names, Kinds
    <3> QED BY <3>1, WordsAre
  <2>5. a \in Seq(Words) /\ Len(a) = 2
    BY <2>1, <2>4
  <2>6. ~CarriesText(a) /\ NameCopied(a) = <<"arg", kind>> /\ WordCopied(a) = a[2] /\ a[1] # End
    BY <2>2, <2>3 DEF CarriesText, NameCopied, WordCopied, End
  <2> QED BY <2>1, <2>2, <2>3, <2>4, <2>5, <2>6, WordsAre
<1> QED BY <1>1, <1>2, <1>3 DEF ServerArguments

(* P[k] is where the walk is after k arguments. *)
Walks(P, args, n, v) ==
    /\ P \in [0 .. n -> Nat] /\ P[0] = 1 /\ v[P[n]] = End /\ Len(v) \in Nat /\ n <= Len(v)
    /\ \A k \in 1 .. n :
          /\ P[k] = P[k - 1] + (IF Kind(args[k]) = "cstring" THEN 3 ELSE 2)
          /\ v[P[k - 1]] = args[k][1] /\ v[P[k - 1] + 1] = args[k][2]
          /\ Kind(args[k]) = "cstring" => v[P[k - 1] + 2] = args[k][3]

LEMMA WalkExists ==
  ASSUME NEW n \in Nat, NEW args \in [1 .. n -> ServerArguments]
  PROVE  \E P : Walks(P, args, n, FlattenSeq(args) \o <<End>>)
<1> DEFINE s == FlattenSeq(args)
           v == s \o <<End>>
<1>1. \A k \in 1 .. n : /\ args[k] \in Seq(Words)
                        /\ Len(args[k]) = IF Kind(args[k]) = "cstring" THEN 3 ELSE 2
  BY ArgumentIs
<1>2. args \in Seq(Seq(Words)) /\ Len(args) = n
  <2>1. args \in [1 .. n -> Seq(Words)]
    BY <1>1
  <2>2. args \in Seq(Seq(Words))
    BY <2>1, SeqDef
  <2>3. args = [i \in 1 .. n |-> args[i]]
    BY <2>1
  <2> QED BY <2>2, <2>3, LengthOfFunction
<1>3. PICK f : Joins(f, Words, args) /\ s = f[n]
  BY <1>2, FlattenJoins
<1>4. Places(f, args)
  BY <1>2, <1>3, FlattenPlaces
<1>5. s \in Seq(Words) /\ f \in [0 .. n -> Seq(Words)] /\ f[0] = <<>>
  BY <1>2, <1>3, FlattenType DEF Joins
<1> HIDE DEF s
<1>6. /\ Len(s) \in Nat /\ Len(v) = Len(s) + 1 /\ v[Len(s) + 1] = End
      /\ \A i \in 1 .. Len(s) : v[i] = s[i]
  <2>1. <<End>> \in Seq(Words) /\ Len(<<End>>) = 1 /\ <<End>>[1] = End
    BY WordsAre
  <2>2. Len(s) \in Nat
    BY <1>5, LenProperties
  <2>3. Len(v) = Len(s) + 1 /\ \A i \in 1 .. Len(s) + 1 : v[i] = IF i <= Len(s) THEN s[i] ELSE <<End>>[i - Len(s)]
    BY <1>5, <2>1, ConcatProperties
  <2> DEFINE l == Len(s)
  <2>4. l + 1 \in 1 .. l + 1 /\ ~(l + 1 <= l) /\ (l + 1) - l = 1 /\ \A i \in 1 .. l : i \in 1 .. l + 1 /\ i <= l
    BY <2>2
  <2> HIDE DEF l, v
  <2> QED BY <2>1, <2>2, <2>3, <2>4 DEF l
<1> HIDE DEF v
<1> DEFINE P == [k \in 0 .. n |-> Len(f[k]) + 1]
<1>7. \A k \in 0 .. n : P[k] = Len(f[k]) + 1 /\ Len(f[k]) \in Nat
  BY <1>5, LenProperties
<1>8. P \in [0 .. n -> Nat] /\ P[0] = 1 /\ P[n] = Len(s) + 1
  <2>1. 0 \in 0 .. n /\ n \in 0 .. n /\ Len(f[0]) = 0
    BY <1>5, EmptySeq
  <2> QED BY <1>3, <1>7, <2>1
<1> HIDE DEF P
<1>9. ASSUME NEW k \in 1 .. n
      PROVE  /\ P[k] = P[k - 1] + (IF Kind(args[k]) = "cstring" THEN 3 ELSE 2)
             /\ v[P[k - 1]] = args[k][1] /\ v[P[k - 1] + 1] = args[k][2]
             /\ Kind(args[k]) = "cstring" => v[P[k - 1] + 2] = args[k][3]
  <2>1. k - 1 \in 0 .. n /\ k \in 0 .. n
    OBVIOUS
  <2> DEFINE a == Len(f[k - 1])
             l == Len(args[k])
  <2>2. a \in Nat /\ P[k - 1] = a + 1 /\ P[k] = Len(f[k]) + 1
    BY <1>7, <2>1
  <2>3. Len(f[k]) = a + l /\ \A j \in 1 .. l : a + j \in 1 .. Len(s) /\ s[a + j] = args[k][j]
    BY <1>2, <1>3, <1>4 DEF Places
  <2>4. l = IF Kind(args[k]) = "cstring" THEN 3 ELSE 2
    BY <1>1
  <2> HIDE DEF a, l
  <2>5. \A j \in 1 .. l : v[a + j] = args[k][j]
    BY <1>6, <2>3
  <2>6. 1 \in 1 .. l /\ 2 \in 1 .. l /\ (Kind(args[k]) = "cstring" => 3 \in 1 .. l)
    BY <2>4
  <2>7. v[a + 1] = args[k][1] /\ v[a + 2] = args[k][2] /\ (Kind(args[k]) = "cstring" => v[a + 3] = args[k][3])
    BY <2>5, <2>6
  <2>8. (a + 1) + 1 = a + 2 /\ (a + 1) + 2 = a + 3 /\ (a + l) + 1 = (a + 1) + l
    BY <2>2, <2>4
  <2> QED BY <2>2, <2>3, <2>4, <2>7, <2>8
<1>10. n <= Len(v)
  <2> DEFINE T == {k \in Nat : k \in 0 .. n => P[k] > k}
  <2>1. 0 \in T
    BY <1>8
  <2>2. ASSUME NEW k \in Nat, k \in T PROVE k + 1 \in T
    <3> SUFFICES ASSUME k + 1 \in 0 .. n PROVE P[k + 1] > k + 1
      OBVIOUS
    <3>1. k \in 0 .. n /\ k + 1 \in 1 .. n /\ (k + 1) - 1 = k
      OBVIOUS
    <3>2. P[k] \in Nat /\ P[k + 1] \in Nat /\ P[k] > k
      BY <1>8, <2>2, <3>1
    <3>3. P[k + 1] = P[k] + 3 \/ P[k + 1] = P[k] + 2
      BY <1>9, <3>1
    <3> QED BY <3>2, <3>3
  <2>3. Nat \subseteq T
    <3> HIDE DEF T
    <3> QED BY <2>1, <2>2, SetInduction
  <2>4. P[n] > n
    BY <2>3
  <2> QED BY <1>6, <1>8, <2>4
<1>11. Walks(P, args, n, v)
  BY <1>6, <1>8, <1>9, <1>10 DEF Walks
<1> QED BY <1>11 DEF v, s

(* The arguments with a text among the first k; their number says which of *)
(* the texts is the last one's.                                            *)
TextsUpTo(args, k) == {i \in 1 .. k : CarriesText(args[i])}
TextCount(args, k) == Cardinality(TextsUpTo(args, k))

LEMMA TextsCounted ==
  ASSUME NEW args
  PROVE  /\ TextCount(args, 0) = 0
         /\ \A k \in Nat : TextCount(args, k) \in Nat /\ IsFiniteSet(TextsUpTo(args, k))
         /\ \A k \in Nat \ {0} : TextCount(args, k) = TextCount(args, k - 1) + (IF CarriesText(args[k]) THEN 1 ELSE 0)
<1>1. TextCount(args, 0) = 0
  <2>1. TextsUpTo(args, 0) = {}
    BY DEF TextsUpTo
  <2> QED BY <2>1, FS_EmptySet DEF TextCount
<1>2. ASSUME NEW k \in Nat PROVE IsFiniteSet(TextsUpTo(args, k)) /\ TextCount(args, k) \in Nat
  <2>1. TextsUpTo(args, k) \subseteq 1 .. k
    BY DEF TextsUpTo
  <2>2. IsFiniteSet(1 .. k)
    BY FS_Interval
  <2> QED BY <2>1, <2>2, FS_Subset, FS_CardinalityType DEF TextCount
<1>3. ASSUME NEW k \in Nat \ {0}
      PROVE  TextCount(args, k) = TextCount(args, k - 1) + (IF CarriesText(args[k]) THEN 1 ELSE 0)
  <2>1. k - 1 \in Nat /\ k \notin 1 .. k - 1 /\ 1 .. k = (1 .. k - 1) \union {k}
    OBVIOUS
  <2>2. IsFiniteSet(TextsUpTo(args, k - 1)) /\ TextCount(args, k - 1) \in Nat
    BY <1>2, <2>1
  <2>3. CASE CarriesText(args[k])
    <3>1. TextsUpTo(args, k) = TextsUpTo(args, k - 1) \union {k} /\ k \notin TextsUpTo(args, k - 1)
      BY <2>1, <2>3 DEF TextsUpTo
    <3>2. TextCount(args, k) = TextCount(args, k - 1) + 1
      BY <2>2, <3>1, FS_AddElement DEF TextCount
    <3> QED BY <2>3, <3>2
  <2>4. CASE ~CarriesText(args[k])
    <3>1. TextsUpTo(args, k) = TextsUpTo(args, k - 1)
      BY <2>1, <2>4 DEF TextsUpTo
    <3> QED BY <2>2, <2>4, <3>1 DEF TextCount
  <2> QED BY <2>3, <2>4
<1> QED BY <1>1, <1>2, <1>3

(* What the copy has after the first k arguments. *)
Said(args) == {TextOf(args[i]) : i \in DOMAIN args}
Copied(words, strings, args, k) ==
    /\ words \in Seq(Words) /\ Len(words) = 2 * k
    /\ \A i \in 1 .. k : words[2 * i - 1] = NameCopied(args[i]) /\ words[2 * i] = WordCopied(args[i])
    /\ strings \in Seq(Said(args)) /\ Len(strings) = TextCount(args, k)
    /\ \A i \in TextsUpTo(args, k) :
          TextCount(args, i) \in 1 .. Len(strings) /\ strings[TextCount(args, i)] = TextOf(args[i])

NamedPair(a) == <<NameCopied(a), WordCopied(a)>>
TextIfAny(a) == IF CarriesText(a) THEN <<TextOf(a)>> ELSE <<>>

LEMMA CopyGrows ==
  ASSUME NEW n \in Nat, NEW args \in [1 .. n -> ServerArguments], NEW k \in Nat, k + 1 \in 0 .. n,
         NEW w, NEW t, Copied(w, t, args, k)
  PROVE  Copied(w \o NamedPair(args[k + 1]), t \o TextIfAny(args[k + 1]), args, k + 1)
<1> DEFINE a == args[k + 1]
           w2 == w \o NamedPair(a)
           t2 == t \o TextIfAny(a)
           c == TextCount(args, k)
<1>1. k + 1 \in 1 .. n /\ k + 1 \in Nat \ {0} /\ (k + 1) - 1 = k
  OBVIOUS
<1>2. a \in ServerArguments
  BY <1>1
<1>3. /\ w2 \in Seq(Words) /\ Len(w2) = 2 * (k + 1)
      /\ \A i \in 1 .. k + 1 : w2[2 * i - 1] = NameCopied(args[i]) /\ w2[2 * i] = WordCopied(args[i])
  <2> DEFINE p == NamedPair(a)
  <2>1. p \in Seq(Words) /\ Len(p) = 2 /\ p[1] = NameCopied(a) /\ p[2] = WordCopied(a)
    <3>1. NameCopied(a) \in Words /\ WordCopied(a) \in Words
      BY <1>2, ArgumentIs
    <3> QED BY <3>1 DEF NamedPair
  <2>2. w \in Seq(Words) /\ Len(w) = 2 * k
    BY DEF Copied
  <2> HIDE DEF p, a
  <2>3. w \o p \in Seq(Words) /\ Len(w \o p) = 2 * k + 2 /\ \A i \in 1 .. 2 * k + 2 : (w \o p)[i] = IF i <= 2 * k THEN w[i] ELSE p[i - 2 * k]
    <3>1. /\ w \o p \in Seq(Words) /\ Len(w \o p) = Len(w) + Len(p)
          /\ \A i \in 1 .. Len(w) + Len(p) : (w \o p)[i] = IF i <= Len(w) THEN w[i] ELSE p[i - Len(w)]
      <4>1. w \in Seq(Words) /\ p \in Seq(Words)
        BY <2>1, <2>2
      <4> QED BY ONLY <4>1, ConcatProperties
    <3> QED BY <3>1, <2>1, <2>2
  <2>4. ASSUME NEW i \in 1 .. k + 1 PROVE (w \o p)[2 * i - 1] = NameCopied(args[i]) /\ (w \o p)[2 * i] = WordCopied(args[i])
    <3>1. 2 * i - 1 \in 1 .. 2 * k + 2 /\ 2 * i \in 1 .. 2 * k + 2
      OBVIOUS
    <3>2. CASE i = k + 1
      <4>1. ~(2 * i - 1 <= 2 * k) /\ ~(2 * i <= 2 * k) /\ (2 * i - 1) - 2 * k = 1 /\ 2 * i - 2 * k = 2
        BY <3>2
      <4> QED BY <2>1, <2>3, <3>1, <3>2, <4>1 DEF a
    <3>3. CASE i # k + 1
      <4>1. i \in 1 .. k /\ 2 * i - 1 <= 2 * k /\ 2 * i <= 2 * k
        BY <3>3
      <4>2. w[2 * i - 1] = NameCopied(args[i]) /\ w[2 * i] = WordCopied(args[i])
        BY <4>1 DEF Copied
      <4> QED BY <2>3, <3>1, <4>1, <4>2
    <3> QED BY <3>2, <3>3
  <2> QED BY <2>3, <2>4 DEF p
<1>4. /\ t \in Seq(Said(args)) /\ Len(t) = c /\ c \in Nat
      /\ \A i \in TextsUpTo(args, k) : TextCount(args, i) \in 1 .. c /\ t[TextCount(args, i)] = TextOf(args[i])
  BY TextsCounted DEF Copied
<1>5. TextCount(args, k + 1) = c + (IF CarriesText(a) THEN 1 ELSE 0)
  BY <1>1, TextsCounted
<1> DEFINE Right(u, m) == /\ u \in Seq(Said(args)) /\ Len(u) = m
                          /\ \A i \in TextsUpTo(args, k + 1) : TextCount(args, i) \in 1 .. m /\ u[TextCount(args, i)] = TextOf(args[i])
<1>6. Right(t2, TextCount(args, k + 1))
  <2>1. CASE CarriesText(a)
    <3> DEFINE x == TextOf(a)
    <3>1. t2 = t \o <<x>> /\ TextCount(args, k + 1) = c + 1
      BY <1>4, <1>5, <2>1 DEF TextIfAny
    <3>2. x \in Said(args)
      <4>1. k + 1 \in DOMAIN args
        BY <1>1
      <4> QED BY <4>1 DEF Said
    <3> HIDE DEF x, c
    <3>3. /\ t \o <<x>> \in Seq(Said(args)) /\ Len(t \o <<x>>) = c + 1
          /\ \A j \in 1 .. c + 1 : (t \o <<x>>)[j] = IF j <= c THEN t[j] ELSE <<x>>[j - c]
      <4>1. <<x>> \in Seq(Said(args)) /\ Len(<<x>>) = 1
        BY <3>2
      <4> QED BY <4>1, <1>4, ConcatProperties
    <3>4. ASSUME NEW i \in TextsUpTo(args, k + 1)
          PROVE  TextCount(args, i) \in 1 .. c + 1 /\ (t \o <<x>>)[TextCount(args, i)] = TextOf(args[i])
      <4>1. CASE i = k + 1
        <5>1. TextCount(args, i) = c + 1 /\ TextOf(args[i]) = x
          BY <3>1, <4>1 DEF x
        <5>2. c + 1 \in 1 .. c + 1 /\ ~(c + 1 <= c) /\ (c + 1) - c = 1 /\ <<x>>[1] = x
          BY <1>4
        <5> QED BY <3>3, <5>1, <5>2
      <4>2. CASE i # k + 1
        <5>1. i \in TextsUpTo(args, k)
          BY <4>2 DEF TextsUpTo
        <5> DEFINE j == TextCount(args, i)
        <5>2. j \in 1 .. c /\ t[j] = TextOf(args[i])
          BY <1>4, <5>1
        <5> HIDE DEF j
        <5>3. j \in 1 .. c + 1 /\ j <= c
          BY <1>4, <5>2
        <5>4. j \in 1 .. c + 1 /\ (t \o <<x>>)[j] = TextOf(args[i])
          BY <3>3, <5>2, <5>3
        <5> QED BY <5>4 DEF j
      <4> QED BY <4>1, <4>2
    <3> QED BY <3>1, <3>3, <3>4
  <2>2. CASE ~CarriesText(a)
    <3>1. t2 = t /\ TextCount(args, k + 1) = c
      <4>1. t \o <<>> = t
        BY <1>4, ConcatEmptySeq
      <4> QED BY <4>1, <1>4, <1>5, <2>2 DEF TextIfAny
    <3>2. TextsUpTo(args, k + 1) = TextsUpTo(args, k)
      <4>1. \A i \in 1 .. k + 1 : CarriesText(args[i]) => i # k + 1
        BY <2>2
      <4> QED BY <4>1 DEF TextsUpTo
    <3> HIDE DEF a, c, t2
    <3> QED BY <1>4, <3>1, <3>2
  <2> QED BY <2>1, <2>2
<1> QED BY <1>3, <1>6 DEF Copied

(* One turn of the loop of copyErrorVector. *)
CopyState(p, words, strings) == [p |-> p, words |-> words, strings |-> strings]

LEMMA CopyStateIs ==
  \A p, w, t : /\ CopyState(p, w, t).p = p /\ CopyState(p, w, t).words = w
              /\ CopyState(p, w, t).strings = t
  BY DEF CopyState

TurnsAsWalked(P, args, n, v) ==
    \A k \in 0 .. n : \A w, t :
        /\ k = n => CopyArgument(v, CopyState(P[k], w, t)) = CopyState(P[k], w, t)
        /\ k # n => CopyArgument(v, CopyState(P[k], w, t)) =
                       CopyState(P[k + 1], w \o NamedPair(args[k + 1]), t \o TextIfAny(args[k + 1]))

LEMMA CopyTurns ==
  ASSUME NEW n \in Nat, NEW args \in [1 .. n -> ServerArguments], NEW v, NEW P, Walks(P, args, n, v)
  PROVE  TurnsAsWalked(P, args, n, v)
<1> SUFFICES ASSUME NEW k \in 0 .. n, NEW w, NEW t
             PROVE  /\ k = n => CopyArgument(v, CopyState(P[k], w, t)) = CopyState(P[k], w, t)
                    /\ k # n => CopyArgument(v, CopyState(P[k], w, t)) =
                                   CopyState(P[k + 1], w \o NamedPair(args[k + 1]), t \o TextIfAny(args[k + 1]))
  BY DEF TurnsAsWalked
<1> DEFINE c == CopyState(P[k], w, t)
<1>1. c.p = P[k] /\ c.words = w /\ c.strings = t
  BY CopyStateIs
<1> HIDE DEF c
<1>2. CASE k = n
  <2>1. v[c.p] = End
    BY <1>1, <1>2 DEF Walks
  <2>2. CopyArgument(v, c) = c
    BY <2>1 DEF CopyArgument
  <2> QED BY <1>2, <2>2 DEF c
<1>3. CASE k # n
  <2> DEFINE a == args[k + 1]
             p == P[k]
  <2>1. k + 1 \in 1 .. n /\ (k + 1) - 1 = k
    BY <1>3
  <2>2. /\ P[k + 1] = p + (IF Kind(a) = "cstring" THEN 3 ELSE 2)
        /\ v[p] = a[1] /\ v[p + 1] = a[2]
        /\ Kind(a) = "cstring" => v[p + 2] = a[3]
    BY <2>1 DEF Walks
  <2>3. a \in ServerArguments
    BY <2>1
  <2> HIDE DEF a, p
  <2>4. a[1] # End /\ v[p][2] = Kind(a)
    BY <2>2, <2>3, ArgumentIs DEF Kind
  <2>5. CASE Kind(a) \in TextKinds
    <3>1. Kind(a) # "cstring" /\ CarriesText(a)
      BY <2>5 DEF TextKinds, CarriesText
    <3>2. NamedPair(a) = <<a[1], Placeholder>> /\ TextIfAny(a) = <<a[2][2]>>
      BY <3>1 DEF NamedPair, TextIfAny, NameCopied, WordCopied, TextOf
    <3>3. CopyArgument(v, c) = CopyState(p + 2, w \o <<a[1], Placeholder>>, t \o <<a[2][2]>>)
      BY <1>1, <2>2, <2>4, <2>5, <3>1 DEF CopyArgument, CopyState, p
    <3> QED BY <1>3, <2>2, <3>1, <3>2, <3>3 DEF c, a, p
  <2>6. CASE Kind(a) = "cstring"
    <3>1. Kind(a) \notin TextKinds /\ CarriesText(a)
      BY <2>6 DEF TextKinds, CarriesText
    <3>2. NamedPair(a) = <<<<"arg", "string">>, Placeholder>> /\ TextIfAny(a) = <<SubSeq(a[3][2], 1, a[2][2])>>
      BY <2>6, <3>1 DEF NamedPair, TextIfAny, NameCopied, WordCopied, TextOf
    <3>3. CopyArgument(v, c) = CopyState(p + 3, w \o <<<<"arg", "string">>, Placeholder>>, t \o <<SubSeq(a[3][2], 1, a[2][2])>>)
      BY <1>1, <2>2, <2>4, <2>6, <3>1 DEF CopyArgument, CopyState, p
    <3> QED BY <1>3, <2>2, <2>6, <3>2, <3>3 DEF c, a, p
  <2>7. CASE Kind(a) \notin TextKinds /\ Kind(a) # "cstring"
    <3>1. ~CarriesText(a)
      BY <2>7 DEF CarriesText
    <3>2. NamedPair(a) = <<a[1], a[2]>> /\ TextIfAny(a) = <<>>
      BY <2>7, <3>1 DEF NamedPair, TextIfAny, NameCopied, WordCopied
    <3>3. CopyArgument(v, c) = CopyState(p + 2, w \o <<a[1], a[2]>>, t \o <<>>)
      BY <1>1, <2>2, <2>4, <2>7 DEF CopyArgument, CopyState, p
    <3> QED BY <1>3, <2>2, <2>7, <3>2, <3>3 DEF c, a, p
  <2> QED BY <2>5, <2>6, <2>7
<1> QED BY <1>2, <1>3

(* The loop has copied every argument when it is done. *)
LEMMA VectorCopied ==
  ASSUME NEW n \in Nat, NEW args \in [1 .. n -> ServerArguments], NEW v, NEW P, Walks(P, args, n, v)
  PROVE  \E w, t : Copied(w, t, args, n) /\ copyErrorVector(v) = [words |-> w \o <<End>>, strings |-> t]
<1> DEFINE l == Len(v)
           start == CopyState(1, <<>>, <<>>)
           V == {CopyState(P[k], w, t) : k \in 0 .. n, w \in Seq(Words), t \in Seq(Said(args))}
           step == [q \in (Nat \ {0}) \X V |-> CopyArgument(v, q[2])]
           Loop(g) == [i \in 0 .. l |-> IF i = 0 THEN start ELSE CopyArgument(v, g[i - 1])]
           copy == CHOOSE g : g = Loop(g)
           Upto(k) == IF k <= n THEN k ELSE n
           Reached(k) == \E w, t : Copied(w, t, args, Upto(k)) /\ copy[k] = CopyState(P[Upto(k)], w, t)
           T == {k \in Nat : k \in 0 .. l => Reached(k)}
<1>1. l \in Nat /\ n <= l /\ P[0] = 1 /\ 0 \in 0 .. n
  BY DEF Walks
<1>0. \A k \in 0 .. n : \A w, t :
        /\ k = n => CopyArgument(v, CopyState(P[k], w, t)) = CopyState(P[k], w, t)
        /\ k # n => CopyArgument(v, CopyState(P[k], w, t)) =
                       CopyState(P[k + 1], w \o NamedPair(args[k + 1]), t \o TextIfAny(args[k + 1]))
  <2>1. TurnsAsWalked(P, args, n, v)
    BY CopyTurns
  <2> QED BY ONLY <2>1, Zenon DEF TurnsAsWalked
<1>e. \A w, t : CopyArgument(v, CopyState(P[n], w, t)) = CopyState(P[n], w, t)
  <2>1. n \in 0 .. n
    OBVIOUS
  <2> QED BY ONLY <1>0, <2>1, Zenon
<1>v. /\ \A k \in 0 .. n, w \in Seq(Words), t \in Seq(Said(args)) : CopyState(P[k], w, t) \in V
      /\ \A c \in V : \E k \in 0 .. n, w \in Seq(Words), t \in Seq(Said(args)) : c = CopyState(P[k], w, t)
  OBVIOUS
<1> HIDE DEF V
<1>2. Copied(<<>>, <<>>, args, 0)
  <2>1. \A S : <<>> \in Seq(S) /\ Len(<<>>) = 0
    BY EmptySeq
  <2>2. TextsUpTo(args, 0) = {}
    BY DEF TextsUpTo
  <2> QED BY <2>1, <2>2, TextsCounted DEF Copied
<1>3. start \in V
  <2>1. <<>> \in Seq(Words) /\ <<>> \in Seq(Said(args))
    BY EmptySeq
  <2> QED BY <1>1, <1>v, <2>1
<1>4. ASSUME NEW k \in 0 .. n, NEW w \in Seq(Words), NEW t \in Seq(Said(args))
      PROVE  CopyArgument(v, CopyState(P[k], w, t)) \in V
  <2>1. CASE k = n
    <3>1. CopyState(P[k], w, t) \in V
      BY <1>v
    <3>2. CopyArgument(v, CopyState(P[k], w, t)) = CopyState(P[k], w, t)
      BY <1>e, <2>1
    <3> QED BY <3>1, <3>2
  <2>2. CASE k # n
    <3>1. k + 1 \in 0 .. n /\ k + 1 \in 1 .. n
      BY <2>2
    <3> DEFINE a == args[k + 1]
    <3>2. a \in ServerArguments /\ TextOf(a) \in Said(args)
      BY <3>1 DEF Said
    <3>3. NamedPair(a) \in Seq(Words) /\ TextIfAny(a) \in Seq(Said(args))
      <4>1. NameCopied(a) \in Words /\ WordCopied(a) \in Words
        BY <3>2, ArgumentIs
      <4> HIDE DEF a
      <4> QED BY <3>2, <4>1 DEF NamedPair, TextIfAny
    <3> HIDE DEF a
    <3>4. w \o NamedPair(a) \in Seq(Words) /\ t \o TextIfAny(a) \in Seq(Said(args))
      BY <3>3, ConcatProperties
    <3>5. CopyArgument(v, CopyState(P[k], w, t)) = CopyState(P[k + 1], w \o NamedPair(a), t \o TextIfAny(a))
      BY <1>0, <2>2 DEF a
    <3>6. CopyState(P[k + 1], w \o NamedPair(a), t \o TextIfAny(a)) \in V
      BY <1>v, <3>1, <3>4
    <3> QED BY <3>5, <3>6
  <2> QED BY <2>1, <2>2
<1>5. \A c \in V : CopyArgument(v, c) \in V
  BY <1>v, <1>4
<1>6. StepsWithin(V, step) /\ \A i \in 1 .. l : \A c \in V : step[<<i, c>>] = CopyArgument(v, c)
  BY <1>5 DEF StepsWithin
<1> HIDE DEF step, start, l
<1>7. PICK f : f \in [0 .. l -> V] /\ Unfolds(f, start, step, l)
  BY <1>1, <1>3, <1>6, RecursionExists
<1>8. f = Loop(f)
  <2>1. \A i \in 0 .. l : i # 0 => i \in 1 .. l /\ i - 1 \in 0 .. l
    BY <1>1
  <2>2. \A i \in 0 .. l : f[i] = IF i = 0 THEN start ELSE CopyArgument(v, f[i - 1])
    BY <1>6, <1>7, <2>1 DEF Unfolds
  <2> QED BY <1>7, <2>2
<1>9. copy = Loop(copy)
  <2> HIDE DEF Loop
  <2> QED BY <1>8
<1> HIDE DEF copy
<1>10. copy[0] = start /\ \A i \in 1 .. l : copy[i] = CopyArgument(v, copy[i - 1])
  <2>1. 0 \in 0 .. l /\ \A i \in 1 .. l : i \in 0 .. l /\ i # 0
    BY <1>1
  <2> QED BY <1>9, <2>1
<1>11. 0 \in T
  BY <1>1, <1>2, <1>10 DEF start
<1>12. ASSUME NEW k \in Nat, k \in T PROVE k + 1 \in T
  <2> SUFFICES ASSUME k + 1 \in 0 .. l PROVE Reached(k + 1)
    <3> HIDE DEF Reached
    <3> QED OBVIOUS
  <2>1. k \in 0 .. l /\ k + 1 \in 1 .. l /\ (k + 1) - 1 = k
    BY <1>1
  <2>2. PICK w, t : Copied(w, t, args, Upto(k)) /\ copy[k] = CopyState(P[Upto(k)], w, t)
    BY <1>12, <2>1
  <2>3. copy[k + 1] = CopyArgument(v, copy[k])
    BY <1>10, <2>1
  <2>4. CASE k < n
    <3>1. Upto(k) = k /\ Upto(k + 1) = k + 1 /\ k \in 0 .. n /\ k # n /\ k + 1 \in 0 .. n
      BY <2>4
    <3>2. copy[k + 1] = CopyState(P[k + 1], w \o NamedPair(args[k + 1]), t \o TextIfAny(args[k + 1]))
      BY <2>2, <2>3, <3>1, <1>0
    <3>3. Copied(w \o NamedPair(args[k + 1]), t \o TextIfAny(args[k + 1]), args, k + 1)
      BY <2>2, <3>1, CopyGrows
    <3> QED BY <3>1, <3>2, <3>3
  <2>5. CASE ~(k < n)
    <3>1. Upto(k) = n /\ Upto(k + 1) = n /\ n \in 0 .. n
      BY <2>5
    <3>2. copy[k + 1] = CopyState(P[n], w, t)
      <4>1. copy[k] = CopyState(P[n], w, t)
        BY ONLY <2>2, <3>1, Zenon
      <4> QED BY ONLY <2>3, <4>1, <1>e, Zenon
    <3> QED BY <2>2, <3>1, <3>2
  <2> QED BY <2>4, <2>5
<1>13. Nat \subseteq T
  <2> HIDE DEF T
  <2> QED BY <1>11, <1>12, SetInduction
<1>14. PICK w, t : Copied(w, t, args, n) /\ copy[l] = CopyState(P[n], w, t)
  <2>1. l \in 0 .. l /\ Upto(l) = n
    BY <1>1
  <2>2. Reached(l)
    <3> HIDE DEF Reached
    <3> QED BY <1>1, <1>13, <2>1
  <2> QED BY <2>1, <2>2
<1>15. copyErrorVector(v) = [words |-> copy[l].words \o <<End>>, strings |-> copy[l].strings]
  BY DEF copyErrorVector, copy, l, start, CopyState
<1>16. copy[l].words = w /\ copy[l].strings = t
  BY <1>14, CopyStateIs
<1> QED BY <1>14, <1>15, <1>16

(* The words of an exception: the names and values of its arguments, and   *)
(* pointers into its buffer b for the texts.                               *)
OwnWords == Words \union {<<"own", b, i>> : b \in Nat, i \in Nat}
Worded(words, args, n) ==
    /\ words \in Seq(OwnWords) /\ Len(words) = 2 * n + 1 /\ words[2 * n + 1] = End
    /\ \A i \in 1 .. n : /\ words[2 * i - 1] = NameCopied(args[i])
                         /\ ~CarriesText(args[i]) => words[2 * i] = args[i][2]
Pointed(words, b, args, n) ==
    \A i \in 1 .. n : CarriesText(args[i]) => words[2 * i] = <<"own", b, TextCount(args, i)>>

LEMMA CopyWorded ==
  ASSUME NEW n \in Nat, NEW args \in [1 .. n -> ServerArguments], NEW w, NEW t, Copied(w, t, args, n)
  PROVE  Worded(w \o <<End>>, args, n)
<1> DEFINE v == w \o <<End>>
           l == 2 * n
<1>1. w \in Seq(OwnWords) /\ Len(w) = l /\ <<End>> \in Seq(OwnWords) /\ Len(<<End>>) = 1 /\ <<End>>[1] = End
  <2>1. w \in Seq(Words) /\ Len(w) = 2 * n /\ End \in Words
    BY WordsAre DEF Copied
  <2>2. \A i \in 1 .. Len(w) : w[i] \in Words
    BY <2>1, ElementOfSeq
  <2>3. w \in [1 .. Len(w) -> OwnWords] /\ Len(w) \in Nat
    <3>1. w = [i \in 1 .. Len(w) |-> w[i]]
      BY <2>1, SeqDef, LenProperties
    <3> QED BY <2>1, <2>2, <3>1, LenProperties DEF OwnWords
  <2>4. w \in Seq(OwnWords)
    BY <2>3, SeqDef
  <2>5. End \in OwnWords
    BY <2>1 DEF OwnWords
  <2> QED BY <2>1, <2>4, <2>5
<1>2. v \in Seq(OwnWords) /\ Len(v) = l + 1 /\ \A i \in 1 .. l + 1 : v[i] = IF i <= l THEN w[i] ELSE <<End>>[i - l]
  <2> DEFINE x == <<End>>
  <2>1. x \in Seq(OwnWords) /\ Len(x) = 1
    BY <1>1
  <2> HIDE DEF x, l
  <2>2. /\ w \o x \in Seq(OwnWords) /\ Len(w \o x) = Len(w) + Len(x)
        /\ \A i \in 1 .. Len(w) + Len(x) : (w \o x)[i] = IF i <= Len(w) THEN w[i] ELSE x[i - Len(w)]
    BY <1>1, <2>1, ConcatProperties
  <2> QED BY <1>1, <2>1, <2>2 DEF x
<1> HIDE DEF v
<1>3. v[l + 1] = End
  <2>1. l + 1 \in 1 .. l + 1 /\ ~(l + 1 <= l) /\ (l + 1) - l = 1
    OBVIOUS
  <2> HIDE DEF l
  <2> QED BY <1>1, <1>2, <2>1
<1>4. ASSUME NEW i \in 1 .. n PROVE v[2 * i - 1] = NameCopied(args[i]) /\ v[2 * i] = WordCopied(args[i])
  <2>1. 2 * i - 1 \in 1 .. l + 1 /\ 2 * i \in 1 .. l + 1 /\ 2 * i - 1 <= l /\ 2 * i <= l
    OBVIOUS
  <2>2. w[2 * i - 1] = NameCopied(args[i]) /\ w[2 * i] = WordCopied(args[i])
    BY DEF Copied
  <2> HIDE DEF l
  <2> QED BY <1>2, <2>1, <2>2
<1> QED BY <1>2, <1>3, <1>4 DEF Worded, WordCopied, v

(* The pointers are set one after the other, whatever was in their place.  *)
LEMMA PointersSet ==
  ASSUME NEW n \in Nat, NEW args \in [1 .. n -> ServerArguments], NEW words, Worded(words, args, n), NEW b \in Nat
  PROVE  Worded(fixupStringPointers(words, b), args, n) /\ Pointed(fixupStringPointers(words, b), b, args, n)
<1> DEFINE l == 2 * n + 1
           at == TextArgs(words)
           count(j) == Cardinality({x \in at : x <= j})
           F == [i \in 1 .. Len(words) |-> IF i - 1 \in at THEN <<"own", b, count(i - 1)>> ELSE words[i]]
<1>1. /\ words \in Seq(OwnWords) /\ Len(words) = l /\ words[l] = End
      /\ \A i \in 1 .. n : /\ words[2 * i - 1] = NameCopied(args[i])
                           /\ ~CarriesText(args[i]) => words[2 * i] = args[i][2]
  BY DEF Worded
<1>2. fixupStringPointers(words, b) = F
  BY DEF fixupStringPointers
<1>3. \A i \in 1 .. n : 2 * i - 1 \in at <=> CarriesText(args[i])
  <2> SUFFICES ASSUME NEW i \in 1 .. n PROVE 2 * i - 1 \in at <=> CarriesText(args[i])
    OBVIOUS
  <2>1. 2 * i - 1 \in 1 .. l - 1 /\ (2 * i - 1) % 2 = 1
    OBVIOUS
  <2>2. words[2 * i - 1][2] \in TextKinds <=> CarriesText(args[i])
    BY <1>1, ArgumentIs
  <2> QED BY <1>1, <2>1, <2>2 DEF TextArgs
<1>4. \A x \in at : \E i \in 1 .. n : x = 2 * i - 1
  <2>1. \A x \in at : x \in 1 .. 2 * n /\ x % 2 = 1
    BY <1>1 DEF TextArgs
  <2>2. ASSUME NEW x \in 1 .. 2 * n, x % 2 = 1 PROVE \E i \in 1 .. n : x = 2 * i - 1
    <3>1. (x + 1) \div 2 \in 1 .. n /\ x = 2 * ((x + 1) \div 2) - 1
      BY <2>2
    <3> QED BY <3>1
  <2> QED BY <2>1, <2>2
<1> HIDE DEF at
<1>5. ASSUME NEW i \in 1 .. n PROVE count(2 * i - 1) = TextCount(args, i)
  <2> DEFINE S == TextsUpTo(args, i)
             D == {x \in at : x <= 2 * i - 1}
             f == [x \in S |-> 2 * x - 1]
  <2>1. \A x \in S : x \in 1 .. i /\ x \in 1 .. n /\ CarriesText(args[x])
    BY DEF TextsUpTo
  <2>2. \A x \in S : 2 * x - 1 \in D
    BY <1>3, <2>1
  <2>3. \A x, y \in S : 2 * x - 1 = 2 * y - 1 => x = y
    BY <2>1
  <2>4. \A d \in D : \E x \in S : d = 2 * x - 1
    <3> SUFFICES ASSUME NEW d \in at, d <= 2 * i - 1 PROVE \E x \in S : d = 2 * x - 1
      OBVIOUS
    <3>1. PICK x \in 1 .. n : d = 2 * x - 1
      BY <1>4
    <3>2. x \in 1 .. i /\ CarriesText(args[x])
      BY <1>3, <3>1
    <3> QED BY <3>1, <3>2 DEF TextsUpTo
  <2>5. IsFiniteSet(S)
    BY TextsCounted
  <2> HIDE DEF S, D
  <2>6. f \in Bijection(S, D)
    BY <2>2, <2>3, <2>4 DEF Bijection, Injection, Surjection, IsInjective
  <2>7. ExistsBijection(S, D)
    BY <2>6 DEF ExistsBijection
  <2>8. Cardinality(S) = Cardinality(D)
    BY <2>5, <2>7, FS_Bijection
  <2> QED BY <2>8 DEF S, D, TextCount
<1>6. \A j \in Nat : count(j) \in Nat
  <2>1. IsFiniteSet(at)
    <3>1. at \subseteq 1 .. 2 * n
      BY <1>4
    <3>2. IsFiniteSet(1 .. 2 * n)
      <4>1. 2 * n \in Int /\ 1 \in Int
        OBVIOUS
      <4> QED BY <4>1, FS_Interval
    <3> QED BY <3>1, <3>2, FS_Subset
  <2>2. \A j \in Nat : IsFiniteSet({x \in at : x <= j})
    BY <2>1, FS_Subset
  <2> QED BY <2>2, FS_CardinalityType
<1> HIDE DEF count
<1>7. F \in Seq(OwnWords) /\ Len(F) = l
  <2>1. \A i \in 1 .. l : F[i] \in OwnWords
    <3> SUFFICES ASSUME NEW i \in 1 .. l PROVE F[i] \in OwnWords
      OBVIOUS
    <3>1. CASE i - 1 \in at
      <4>1. count(i - 1) \in Nat
        BY <1>6
      <4>2. F[i] = <<"own", b, count(i - 1)>>
        BY <1>1, <3>1
      <4>3. \A j \in Nat : <<"own", b, j>> \in OwnWords
        BY DEF OwnWords
      <4> HIDE DEF F
      <4> QED BY <4>1, <4>2, <4>3
    <3>2. CASE i - 1 \notin at
      <4>1. words[i] \in OwnWords
        BY <1>1, ElementOfSeq
      <4> QED BY <1>1, <3>2, <4>1
    <3> QED BY <3>1, <3>2
  <2>2. F = [i \in 1 .. l |-> F[i]]
    BY <1>1
  <2>3. l \in Nat
    OBVIOUS
  <2> HIDE DEF F, l
  <2>4. F \in [1 .. l -> OwnWords]
    BY <2>1, <2>2
  <2>5. F \in Seq(OwnWords)
    BY <2>3, <2>4, SeqDef
  <2> QED BY <2>2, <2>3, <2>5, LengthOfFunction
<1>8. F[l] = End
  <2>1. l - 1 \notin at /\ l \in 1 .. l
    BY <1>4
  <2> QED BY <1>1, <2>1
<1>9. ASSUME NEW i \in 1 .. n
      PROVE  /\ F[2 * i - 1] = NameCopied(args[i])
             /\ ~CarriesText(args[i]) => F[2 * i] = args[i][2]
             /\ CarriesText(args[i]) => F[2 * i] = <<"own", b, TextCount(args, i)>>
  <2>1. 2 * i - 1 \in 1 .. l /\ 2 * i \in 1 .. l /\ (2 * i - 1) - 1 \notin at
    BY <1>4
  <2>2. F[2 * i - 1] = words[2 * i - 1]
    BY <1>1, <2>1
  <2>3. F[2 * i] = IF CarriesText(args[i]) THEN <<"own", b, count(2 * i - 1)>> ELSE words[2 * i]
    BY <1>1, <1>3, <2>1
  <2> QED BY <1>1, <1>5, <2>2, <2>3
<1> HIDE DEF F
<1> QED BY <1>2, <1>7, <1>8, <1>9 DEF Worded, Pointed

(* The walk to the first SQLSTATE. *)
States(args, n) == {i \in 1 .. n : Kind(args[i]) = "sql_state"}

LEMMA StateFound ==
  ASSUME NEW n \in Nat, NEW args \in [1 .. n -> ServerArguments], NEW v, NEW P, Walks(P, args, n, v)
  PROVE  extractSqlState(v) = IF States(args, n) = {} THEN <<>> ELSE args[Min(States(args, n))][2][2]
<1> DEFINE l == Len(v)
           V == {P[k] : k \in 0 .. n}
           Turn(p) == IF v[p] = End \/ v[p][2] = "sql_state" THEN p
                      ELSE IF v[p][2] = "cstring" THEN p + 3 ELSE p + 2
           step == [q \in (Nat \ {0}) \X V |-> Turn(q[2])]
           Loop(g) == [i \in 0 .. l |-> IF i = 0 THEN 1 ELSE Turn(g[i - 1])]
           at == CHOOSE g : g = Loop(g)
           S == States(args, n)
           Before(k) == \A i \in S : i > k
           Reached(k) == \E m \in 0 .. n : /\ at[k] = P[m] /\ Before(m)
                                           /\ m = k \/ m = n \/ m + 1 \in S
           T == {k \in Nat : k \in 0 .. l => Reached(k)}
<1>1. l \in Nat /\ n <= l /\ P[0] = 1 /\ 0 \in 0 .. n /\ v[P[n]] = End
  BY DEF Walks
<1>2. \A k \in 0 .. n : k # n => /\ k + 1 \in 1 .. n
                                 /\ v[P[k]] = args[k + 1][1] /\ v[P[k] + 1] = args[k + 1][2] /\ v[P[k]] # End
                                 /\ P[k + 1] = P[k] + (IF Kind(args[k + 1]) = "cstring" THEN 3 ELSE 2)
  <2> SUFFICES ASSUME NEW k \in 0 .. n, k # n
               PROVE  /\ k + 1 \in 1 .. n
                      /\ v[P[k]] = args[k + 1][1] /\ v[P[k] + 1] = args[k + 1][2] /\ v[P[k]] # End
                      /\ P[k + 1] = P[k] + (IF Kind(args[k + 1]) = "cstring" THEN 3 ELSE 2)
    OBVIOUS
  <2>1. k + 1 \in 1 .. n /\ (k + 1) - 1 = k
    OBVIOUS
  <2>2. args[k + 1] \in ServerArguments
    BY <2>1
  <2>3. args[k + 1][1] # End
    BY <2>2, ArgumentIs
  <2> QED BY <2>1, <2>3 DEF Walks
<1>3. \A k \in 0 .. n : Turn(P[k]) = IF k = n \/ k + 1 \in S THEN P[k] ELSE P[k + 1]
  <2> SUFFICES ASSUME NEW k \in 0 .. n PROVE Turn(P[k]) = IF k = n \/ k + 1 \in S THEN P[k] ELSE P[k + 1]
    OBVIOUS
  <2>1. CASE k = n
    BY <1>1, <2>1
  <2>2. CASE k # n
    <3>1. k + 1 \in S <=> Kind(args[k + 1]) = "sql_state"
      BY <1>2, <2>2 DEF States
    <3>2. v[P[k]][2] = Kind(args[k + 1])
      BY <1>2, <2>2 DEF Kind
    <3> QED BY <1>2, <2>2, <3>1, <3>2
  <2> QED BY <2>1, <2>2
<1>4. /\ StepsWithin(V, step) /\ \A i \in 1 .. l : \A p \in V : step[<<i, p>>] = Turn(p)
      /\ 1 \in V
  <2>1. \A p \in V : Turn(p) \in V
    <3>1. \A k \in 0 .. n : k # n => k + 1 \in 0 .. n
      OBVIOUS
    <3> HIDE DEF Turn
    <3> QED BY <1>3, <3>1
  <2> HIDE DEF Turn
  <2>2. \A i \in 1 .. l : i \in Nat \ {0}
    BY <1>1
  <2>3. 1 \in V
    BY <1>1
  <2> HIDE DEF V
  <2> QED BY <2>1, <2>2, <2>3 DEF StepsWithin
<1> HIDE DEF step, V, Turn, l
<1> DEFINE start == 1
<1> HIDE DEF start
<1>5. PICK f : f \in [0 .. l -> V] /\ Unfolds(f, start, step, l)
  <2>1. start \in V
    BY <1>4 DEF start
  <2> QED BY <1>1, <1>4, <2>1, RecursionExists
<1>6. f = Loop(f)
  <2>1. \A i \in 0 .. l : i # 0 => i \in 1 .. l /\ i - 1 \in 0 .. l
    BY <1>1
  <2>2. \A i \in 0 .. l : f[i] = IF i = 0 THEN 1 ELSE Turn(f[i - 1])
    BY <1>4, <1>5, <2>1 DEF Unfolds, start
  <2> QED BY <1>5, <2>2
<1>7. at = Loop(at)
  <2> HIDE DEF Loop
  <2> QED BY <1>6
<1> HIDE DEF at
<1>8. at[0] = 1 /\ \A i \in 1 .. l : at[i] = Turn(at[i - 1])
  <2>1. 0 \in 0 .. l /\ \A i \in 1 .. l : i \in 0 .. l /\ i # 0
    BY <1>1
  <2> QED BY <1>7, <2>1
<1>9. 0 \in T
  <2>1. Before(0)
    BY DEF States
  <2> QED BY <1>1, <1>8, <2>1
<1>10. ASSUME NEW k \in Nat, k \in T PROVE k + 1 \in T
  <2> SUFFICES ASSUME k + 1 \in 0 .. l PROVE Reached(k + 1)
    <3> HIDE DEF Reached
    <3> QED OBVIOUS
  <2>1. k \in 0 .. l /\ k + 1 \in 1 .. l /\ (k + 1) - 1 = k
    BY <1>1
  <2>2. PICK m \in 0 .. n : at[k] = P[m] /\ Before(m) /\ (m = k \/ m = n \/ m + 1 \in S)
    BY <1>10, <2>1
  <2>3. at[k + 1] = IF m = n \/ m + 1 \in S THEN P[m] ELSE P[m + 1]
    BY <1>3, <1>8, <2>1, <2>2
  <2>4. CASE m = n \/ m + 1 \in S
    BY <2>2, <2>3, <2>4
  <2>5. CASE m # n /\ m + 1 \notin S
    <3>1. m + 1 \in 0 .. n /\ m + 1 = k + 1 /\ at[k + 1] = P[m + 1]
      BY <2>2, <2>3, <2>5
    <3>2. Before(m + 1)
      <4>1. \A i \in S : i > m /\ i # m + 1 /\ i \in Nat
        BY <2>2, <2>5 DEF States
      <4> HIDE DEF S
      <4> QED BY <4>1
    <3> QED BY <3>1, <3>2
  <2> QED BY <2>4, <2>5
<1>11. Nat \subseteq T
  <2> HIDE DEF T
  <2> QED BY <1>9, <1>10, SetInduction
<1>12. PICK m \in 0 .. n : at[l] = P[m] /\ Before(m) /\ (m = n \/ m + 1 \in S)
  <2>1. l \in 0 .. l
    BY <1>1
  <2>2. Reached(l)
    <3> HIDE DEF Reached
    <3> QED BY <1>1, <1>11, <2>1
  <2> QED BY <1>1, <2>2
<1>13. extractSqlState(v) = IF v[at[l]] = End THEN <<>> ELSE v[at[l] + 1][2]
  BY DEF extractSqlState, at, l, Turn
<1>14. CASE m = n
  <2>1. S = {}
    BY <1>12, <1>14 DEF States
  <2> QED BY <1>1, <1>12, <1>13, <1>14, <2>1
<1>15. CASE m # n
  <2>1. m + 1 \in S /\ \A i \in S : m + 1 <= i
    BY <1>12, <1>15 DEF States
  <2>2. Min(S) = m + 1
    <3>1. S \in SUBSET Nat /\ S # {}
      BY <2>1 DEF States
    <3>2. Min(S) \in S /\ \A y \in S : Min(S) <= y
      BY <3>1, SmallestIn
    <3> HIDE DEF S
    <3> DEFINE x == Min(S)
    <3>3. x \in Nat /\ m + 1 \in Nat /\ x <= m + 1 /\ m + 1 <= x
      BY <2>1, <3>1, <3>2
    <3> HIDE DEF x
    <3>4. x = m + 1
      BY <3>3
    <3> QED BY <3>4 DEF x
  <2>3. v[P[m]] # End /\ v[P[m] + 1] = args[m + 1][2]
    BY <1>2, <1>15
  <2> QED BY <1>12, <1>13, <2>1, <2>2, <2>3
<1> QED BY <1>14, <1>15

(* The exceptions that can be made of a vector, by copying and moving. *)
TextsIn(strings, args, n) == \A i \in TextsUpTo(args, n) : strings[TextCount(args, i)] = TextOf(args[i])
Exceptions(args, n, t, state) ==
    {e \in [words : Seq(OwnWords), buffer : Nat, strings : {t}, sqlState : {state}] :
        Worded(e.words, args, n) /\ Pointed(e.words, e.buffer, args, n)}

LEMMA CopyStays ==
  ASSUME NEW n \in Nat, NEW args \in [1 .. n -> ServerArguments], NEW t, NEW state,
         NEW e \in Exceptions(args, n, t, state), NEW b \in Nat
  PROVE  CopyOf(e, b) \in Exceptions(args, n, t, state) /\ MoveOf(e) \in Exceptions(args, n, t, state)
<1> DEFINE words == fixupStringPointers(e.words, b)
<1>1. /\ e \in [words : Seq(OwnWords), buffer : Nat, strings : {t}, sqlState : {state}]
      /\ Worded(e.words, args, n)
  BY DEF Exceptions
<1>2. Worded(words, args, n) /\ Pointed(words, b, args, n)
  BY <1>1, PointersSet
<1>3. words \in Seq(OwnWords)
  BY <1>2 DEF Worded
<1>4. CopyOf(e, b) = [e EXCEPT !.buffer = b, !.words = words]
  BY DEF CopyOf
<1> HIDE DEF words
<1>5. /\ CopyOf(e, b) \in [words : Seq(OwnWords), buffer : Nat, strings : {t}, sqlState : {state}]
      /\ CopyOf(e, b).words = words /\ CopyOf(e, b).buffer = b
  BY <1>1, <1>3, <1>4
<1> QED BY <1>2, <1>5 DEF Exceptions, MoveOf

LEMMA ThrownMeans ==
  ASSUME NEW n \in Nat, NEW args \in [1 .. n -> ServerArguments]
  PROVE  \E t : /\ TextsIn(t, args, n)
                /\ DatabaseException(FlattenSeq(args) \o <<End>>, 0) \in
                      Exceptions(args, n, t, IF States(args, n) = {} THEN <<>> ELSE args[Min(States(args, n))][2][2])
<1> DEFINE v == FlattenSeq(args) \o <<End>>
           state == IF States(args, n) = {} THEN <<>> ELSE args[Min(States(args, n))][2][2]
<1>1. PICK P : Walks(P, args, n, v)
  BY WalkExists
<1> HIDE DEF v
<1>2. PICK w, t : Copied(w, t, args, n) /\ copyErrorVector(v) = [words |-> w \o <<End>>, strings |-> t]
  BY <1>1, VectorCopied
<1>3. extractSqlState(v) = state
  BY <1>1, StateFound
<1> HIDE DEF state
<1> DEFINE words == w \o <<End>>
           fixed == fixupStringPointers(words, 0)
<1>4. Worded(words, args, n)
  BY <1>2, CopyWorded
<1> HIDE DEF words
<1>5. Worded(fixed, args, n) /\ Pointed(fixed, 0, args, n)
  BY <1>4, PointersSet
<1>6. fixed \in Seq(OwnWords)
  BY <1>5 DEF Worded
<1>7. DatabaseException(v, 0) = [words |-> fixed, buffer |-> 0, strings |-> t, sqlState |-> state]
  BY <1>2, <1>3 DEF DatabaseException, words
<1> HIDE DEF fixed
<1>8. DatabaseException(v, 0) \in Exceptions(args, n, t, state)
  BY <1>5, <1>6, <1>7 DEF Exceptions
<1>9. TextsIn(t, args, n)
  BY <1>2 DEF Copied, TextsIn
<1> QED BY <1>8, <1>9 DEF v, state

LEMMA ExceptionSays ==
  ASSUME NEW n \in Nat \ {0}, NEW args \in [1 .. n -> ServerArguments], NEW t, TextsIn(t, args, n),
         NEW e \in Exceptions(args, n, t, IF States(args, n) = {} THEN <<>> ELSE args[Min(States(args, n))][2][2])
  PROVE  Says(e, args)
<1> DEFINE counted(a) == a[1] = <<"arg", "cstring">>
           meant(a) == IF counted(a) THEN <<<<"arg", "string">>, <<"text", SubSeq(a[3][2], 1, a[2][2])>>>> ELSE a
           read(word) == IF word[1] = "own"
                         THEN IF word[2] = e.buffer THEN <<"text", e.strings[word[3]]>> ELSE <<"freed", 0>>
                         ELSE word
           pairs == [i \in 1 .. Len(args) |-> meant(args[i])]
           vector == FlattenSeq(pairs) \o <<End>>
           states == {i \in 1 .. Len(args) : args[i][1][2] = "sql_state"}
           l == 2 * n + 1
<1>1. Len(args) = n
  <2>1. args = [i \in 1 .. n |-> args[i]]
    OBVIOUS
  <2> QED BY <2>1, LengthOfFunction
<1>2. /\ e.strings = t /\ Worded(e.words, args, n) /\ Pointed(e.words, e.buffer, args, n)
      /\ e.sqlState = IF states = {} THEN <<>> ELSE args[Min(states)][2][2]
  <2>1. states = States(args, n)
    BY <1>1 DEF States, Kind
  <2> HIDE DEF states
  <2> QED BY <2>1 DEF Exceptions
<1>3. ASSUME NEW a \in ServerArguments
      PROVE  /\ meant(a) \in Seq({meant(a)[1], meant(a)[2]}) /\ Len(meant(a)) = 2
             /\ meant(a)[1] = NameCopied(a)
             /\ meant(a)[2] = IF CarriesText(a) THEN <<"text", TextOf(a)>> ELSE a[2]
  <2>1. counted(a) <=> Kind(a) = "cstring"
    BY ArgumentIs DEF Kind
  <2>2. CASE Kind(a) = "cstring"
    <3> DEFINE x == <<"arg", "string">>
               y == <<"text", SubSeq(a[3][2], 1, a[2][2])>>
    <3>1. meant(a) = <<x, y>> /\ NameCopied(a) = x
      BY <2>1, <2>2 DEF NameCopied
    <3>2. CarriesText(a) /\ y = <<"text", TextOf(a)>>
      BY <2>2 DEF CarriesText, TextOf
    <3> HIDE DEF x, y, meant
    <3> QED BY <3>1, <3>2
  <2>3. CASE Kind(a) # "cstring"
    <3>1. meant(a) = a /\ NameCopied(a) = a[1] /\ TextOf(a) = a[2][2]
      BY <2>1, <2>3 DEF NameCopied, TextOf
    <3>2. a \in Seq(Words) /\ Len(a) = 2
      BY <2>3, ArgumentIs
    <3>3. a = <<a[1], a[2]>>
      BY <3>2
    <3>4. CarriesText(a) => a[2] = <<"text", TextOf(a)>>
      BY <2>3, <3>1, ArgumentIs
    <3> HIDE DEF meant
    <3>5. a \in Seq({a[1], a[2]})
      <4>1. \A x, y : <<x, y>> \in Seq({x, y})
        OBVIOUS
      <4>2. <<a[1], a[2]>> \in Seq({a[1], a[2]})
        BY <4>1
      <4> QED BY ONLY <3>3, <4>2, Zenon
    <3> QED BY <3>1, <3>2, <3>4, <3>5
  <2> QED BY <2>2, <2>3
<1> HIDE DEF meant
<1>4. /\ Len(vector) = l /\ vector[l] = End
      /\ \A i \in 1 .. n : vector[2 * i - 1] = meant(args[i])[1] /\ vector[2 * i] = meant(args[i])[2]
  <2> DEFINE W == {meant(args[i])[1] : i \in 1 .. n} \union {meant(args[i])[2] : i \in 1 .. n} \union {End}
             s == FlattenSeq(pairs)
  <2>1. \A i \in 1 .. n : meant(args[i]) \in Seq(W) /\ Len(meant(args[i])) = 2
    <3> SUFFICES ASSUME NEW i \in 1 .. n PROVE meant(args[i]) \in Seq(W) /\ Len(meant(args[i])) = 2
      OBVIOUS
    <3> DEFINE m == meant(args[i])
    <3>1. m \in Seq({m[1], m[2]}) /\ Len(m) = 2
      BY <1>3
    <3>2. m[1] \in W /\ m[2] \in W
      OBVIOUS
    <3> HIDE DEF m, W
    <3>3. m = <<m[1], m[2]>>
      BY <3>1
    <3>4. <<m[1], m[2]>> \in Seq(W)
      BY <3>2
    <3> QED BY <3>1, <3>3, <3>4 DEF m
  <2>2. End \in W
    OBVIOUS
  <2>3. pairs = [i \in 1 .. n |-> meant(args[i])]
    BY <1>1
  <2> HIDE DEF W
  <2>4. pairs \in Seq(Seq(W)) /\ Len(pairs) = n /\ \A i \in 1 .. n : pairs[i] = meant(args[i])
    <3>1. pairs \in [1 .. n -> Seq(W)] /\ pairs = [i \in 1 .. n |-> pairs[i]] /\ \A i \in 1 .. n : pairs[i] = meant(args[i])
      BY <2>1, <2>3
    <3> HIDE DEF pairs
    <3>2. pairs \in Seq(Seq(W))
      BY <3>1, SeqDef
    <3>3. Len(pairs) = n
      BY <3>1, LengthOfFunction
    <3> QED BY <3>1, <3>2, <3>3
  <2> HIDE DEF pairs
  <2>5. /\ s \in Seq(W) /\ Len(s) = 2 * n
        /\ \A i \in 1 .. n : s[2 * i - 1] = pairs[i][1] /\ s[2 * i] = pairs[i][2]
    <3>1. \A i \in 1 .. Len(pairs) : Len(pairs[i]) = 2
      BY <2>1, <2>4
    <3>2. /\ FlattenSeq(pairs) \in Seq(W) /\ Len(FlattenSeq(pairs)) = 2 * Len(pairs)
          /\ \A i \in 1 .. Len(pairs) : FlattenSeq(pairs)[2 * i - 1] = pairs[i][1] /\ FlattenSeq(pairs)[2 * i] = pairs[i][2]
      BY <2>4, <3>1, FlattenPairs
    <3> QED BY <2>4, <3>2
  <2> HIDE DEF s
  <2> DEFINE x == <<End>>
  <2>6. x \in Seq(W) /\ Len(x) = 1 /\ x[1] = End
    BY <2>2
  <2> HIDE DEF x
  <2>7. /\ Len(s \o x) = Len(s) + Len(x)
        /\ \A i \in 1 .. Len(s) + Len(x) : (s \o x)[i] = IF i <= Len(s) THEN s[i] ELSE x[i - Len(s)]
    BY <2>5, <2>6, ConcatProperties
  <2>8. Len(s \o x) = l /\ \A i \in 1 .. l : (s \o x)[i] = IF i <= 2 * n THEN s[i] ELSE x[i - 2 * n]
    BY <2>5, <2>6, <2>7
  <2>9. l \in 1 .. l /\ ~(l <= 2 * n) /\ l - 2 * n = 1
    OBVIOUS
  <2>10. \A i \in 1 .. n : 2 * i - 1 \in 1 .. l /\ 2 * i - 1 <= 2 * n /\ 2 * i \in 1 .. l /\ 2 * i <= 2 * n
    OBVIOUS
  <2>11. Len(s \o x) = l /\ (s \o x)[l] = End
    BY <2>6, <2>8, <2>9
  <2>12. \A i \in 1 .. n : (s \o x)[2 * i - 1] = meant(args[i])[1] /\ (s \o x)[2 * i] = meant(args[i])[2]
    BY <2>4, <2>5, <2>8, <2>10
  <2> QED BY <2>11, <2>12 DEF s, x
<1> HIDE DEF vector
<1>5. Len(e.words) = Len(vector)
  BY <1>2, <1>4 DEF Worded
<1>6. ASSUME NEW i \in 1 .. n
      PROVE  read(e.words[2 * i - 1]) = vector[2 * i - 1] /\ read(e.words[2 * i]) = vector[2 * i]
  <2> DEFINE a == args[i]
  <2>1. a \in ServerArguments
    OBVIOUS
  <2>2. /\ vector[2 * i - 1] = NameCopied(a)
        /\ vector[2 * i] = IF CarriesText(a) THEN <<"text", TextOf(a)>> ELSE a[2]
    BY <1>3, <1>4
  <2>3. e.words[2 * i - 1] = NameCopied(a) /\ (~CarriesText(a) => e.words[2 * i] = a[2])
    BY <1>2 DEF Worded
  <2>4. NameCopied(a)[1] = "arg" /\ (~CarriesText(a) => a[2][1] = "number")
    BY <2>1, ArgumentIs
  <2>5. ASSUME CarriesText(a) PROVE read(e.words[2 * i]) = <<"text", TextOf(a)>>
    <3>1. e.words[2 * i] = <<"own", e.buffer, TextCount(args, i)>>
      BY <1>2, <2>5 DEF Pointed
    <3>2. i \in TextsUpTo(args, n)
      BY <2>5 DEF TextsUpTo
    <3>3. t[TextCount(args, i)] = TextOf(a)
      BY <3>2 DEF TextsIn
    <3>4. read(<<"own", e.buffer, TextCount(args, i)>>) = <<"text", e.strings[TextCount(args, i)]>>
      OBVIOUS
    <3> QED BY <1>2, <3>1, <3>3, <3>4
  <2> HIDE DEF a
  <2> QED BY <2>2, <2>3, <2>4, <2>5
<1>7. read(e.words[l]) = vector[l]
  <2>1. e.words[l] = End
    BY <1>2 DEF Worded
  <2> QED BY <1>4, <2>1 DEF End
<1>8. \A j \in 1 .. Len(vector) : read(e.words[j]) = vector[j]
  <2> SUFFICES ASSUME NEW j \in 1 .. l PROVE read(e.words[j]) = vector[j]
    BY <1>4
  <2> HIDE DEF read
  <2>1. CASE j = l
    BY <1>7, <2>1
  <2>2. CASE j # l /\ j % 2 = 1
    <3>1. (j + 1) \div 2 \in 1 .. n /\ j = 2 * ((j + 1) \div 2) - 1
      BY <2>2
    <3> QED BY <1>6, <3>1
  <2>3. CASE j # l /\ j % 2 # 1
    <3>1. j \div 2 \in 1 .. n /\ j = 2 * (j \div 2)
      BY <2>3
    <3> QED BY <1>6, <3>1
  <2> QED BY <2>1, <2>2, <2>3
<1>9. getErrorCode(e) = IF args[1][1][2] = "gds" THEN args[1][2][2] ELSE 0
  <2> DEFINE a == args[1]
  <2>1. a \in ServerArguments /\ 1 \in 1 .. n /\ 2 * 1 - 1 = 1 /\ 2 * 1 = 2 /\ l >= 2
    OBVIOUS
  <2>2. e.words[1] = NameCopied(a) /\ (~CarriesText(a) => e.words[2] = a[2]) /\ Len(e.words) = l
    BY <1>2, <2>1 DEF Worded
  <2>3. NameCopied(a) = <<"arg", "gds">> <=> Kind(a) = "gds"
    BY <2>1, ArgumentIs DEF NameCopied, Kind
  <2>4. Kind(a) = "gds" => ~CarriesText(a)
    BY DEF CarriesText, TextKinds
  <2> HIDE DEF a
  <2>5. getErrorCode(e) = IF Kind(a) = "gds" THEN a[2][2] ELSE 0
    BY <2>1, <2>2, <2>3, <2>4 DEF getErrorCode
  <2> QED BY <2>5 DEF a, Kind
<1>10. e.sqlState = IF states = {} THEN <<>> ELSE args[Min(states)][2][2]
  BY <1>2
<1> HIDE DEF read, states
<1> QED BY <1>5, <1>8, <1>9, <1>10 DEF Says, read, states, vector, pairs, meant, counted

(* What a handler gets of a thrown vector. *)
LEMMA ThrowAnswers ==
  ASSUME ThrowVector
  PROVE  request'.op = "throw" /\ Says(outcome', request'.args)
<1>0. PICK n \in 1 .. MaxArguments : \E args \in [1 .. n -> Arguments], hops \in Hops :
         LET thrown == DatabaseException(FlattenSeq(args) \o <<End>>, 0)
             at[k \in 0 .. Len(hops)] ==
                 IF k = 0 THEN thrown
                 ELSE IF hops[k] = "copy" THEN CopyOf(at[k - 1], k) ELSE MoveOf(at[k - 1])
         IN  Answer([op |-> "throw", args |-> args], {at[Len(hops)]})
  BY Zenon DEF ThrowVector
<1>1. PICK args \in [1 .. n -> Arguments], hops \in Hops :
         LET thrown == DatabaseException(FlattenSeq(args) \o <<End>>, 0)
             at[k \in 0 .. Len(hops)] ==
                 IF k = 0 THEN thrown
                 ELSE IF hops[k] = "copy" THEN CopyOf(at[k - 1], k) ELSE MoveOf(at[k - 1])
         IN  Answer([op |-> "throw", args |-> args], {at[Len(hops)]})
  BY <1>0, Zenon
<1> DEFINE thrown == DatabaseException(FlattenSeq(args) \o <<End>>, 0)
           l == Len(hops)
           Hop(k, e) == IF hops[k] = "copy" THEN CopyOf(e, k) ELSE MoveOf(e)
           Loop(g) == [k \in 0 .. l |-> IF k = 0 THEN thrown ELSE Hop(k, g[k - 1])]
           at == CHOOSE g : g = Loop(g)
           state == IF States(args, n) = {} THEN <<>> ELSE args[Min(States(args, n))][2][2]
<1>2. request' = [op |-> "throw", args |-> args] /\ outcome' = at[l]
  BY <1>1 DEF Answer
<1>3. n \in Nat \ {0} /\ args \in [1 .. n -> ServerArguments]
  <2>1. Arguments \subseteq ServerArguments /\ MaxArguments \in Nat
    BY ConversionsAssumption DEF ServerArguments
  <2> QED BY <2>1
<1>4. l \in Nat
  <2>1. PICK m \in 0 .. 2 : hops \in [1 .. m -> {"copy", "move"}]
    BY DEF Hops
  <2>2. hops = [i \in 1 .. m |-> hops[i]] /\ m \in Nat
    BY <2>1
  <2>3. Len(hops) = m
    BY <2>2, LengthOfFunction
  <2> QED BY <2>2, <2>3
<1> HIDE DEF l
<1>5. PICK t : TextsIn(t, args, n) /\ thrown \in Exceptions(args, n, t, state)
  BY <1>3, ThrownMeans
<1> DEFINE V == Exceptions(args, n, t, state)
           step == [q \in (Nat \ {0}) \X V |-> Hop(q[1], q[2])]
<1>6. ASSUME NEW k \in Nat, NEW e \in V PROVE Hop(k, e) \in V
  <2>1. CopyOf(e, k) \in V /\ MoveOf(e) \in V
    <3> HIDE DEF state
    <3> QED BY <1>3, CopyStays
  <2> HIDE DEF V
  <2> QED BY <2>1
<1> HIDE DEF V, Hop, thrown
<1>7. StepsWithin(V, step) /\ \A i \in 1 .. l : \A e \in V : step[<<i, e>>] = Hop(i, e)
  <2>1. \A i \in 1 .. l : i \in Nat \ {0}
    BY <1>4
  <2> QED BY <1>6, <2>1 DEF StepsWithin
<1> HIDE DEF step
<1>8. PICK f : f \in [0 .. l -> V] /\ Unfolds(f, thrown, step, l)
  <2>1. thrown \in V
    BY <1>5 DEF V
  <2> QED BY <1>4, <1>7, <2>1, RecursionExists
<1>9. \A k \in 0 .. l : f[k] = IF k = 0 THEN thrown ELSE Hop(k, f[k - 1])
  <2>1. \A i \in 0 .. l : i # 0 => i \in 1 .. l /\ i - 1 \in 0 .. l
    BY <1>4
  <2> QED BY <1>7, <1>8, <2>1 DEF Unfolds
<1>10. at = Loop(at)
  <2>1. f = Loop(f)
    BY <1>8, <1>9
  <2> HIDE DEF Loop
  <2> QED BY <2>1
<1> HIDE DEF at
<1>11. at[l] = f[l]
  <2>1. 0 \in 0 .. l /\ \A i \in 1 .. l : i \in 0 .. l /\ i # 0
    BY <1>4
  <2>2. \A k \in 0 .. l : at[k] = IF k = 0 THEN thrown ELSE Hop(k, at[k - 1])
    BY <1>10
  <2>3. GoTogether(at, f, l)
    BY <1>9, <2>1, <2>2 DEF GoTogether
  <2> QED BY <1>4, <2>3, RecursionAgrees
<1>12. at[l] \in V
  BY <1>4, <1>8, <1>11
<1>13. Says(at[l], args)
  BY <1>3, <1>5, <1>12, ExceptionSays DEF V, state
<1>14. request'.op = "throw" /\ request'.args = args
  BY <1>2
<1> HIDE DEF state
<1> QED BY <1>2, <1>13, <1>14

(* A wrapper after a request, which clears it first: what the answer set.  *)
Replied(answer) ==
    CASE answer = "fine" -> NewWrapper
      [] answer = "warning" -> [dirty |-> TRUE, errors |-> <<>>]
      [] OTHER -> [dirty |-> TRUE, errors |-> <<answer>>]
Wrappers(answers) == {NewWrapper} \union {Replied(answers[i]) : i \in DOMAIN answers}

LEMMA SetDirty ==
  ASSUME NEW a, NEW b, NEW x
  PROVE  [[dirty |-> a, errors |-> x] EXCEPT !.dirty = b] = [dirty |-> b, errors |-> x]
  OBVIOUS

LEMMA SetBoth ==
  ASSUME NEW a, NEW b, NEW x, NEW y
  PROVE  [[dirty |-> a, errors |-> x] EXCEPT !.dirty = b, !.errors = y] = [dirty |-> b, errors |-> y]
<1>1. [[dirty |-> b, errors |-> x] EXCEPT !.errors = y] = [dirty |-> b, errors |-> y]
  OBVIOUS
<1> QED BY <1>1, SetDirty

LEMMA RequestMeans ==
  ASSUME NEW answers, NEW w \in Wrappers(answers), NEW answer
  PROVE  Request(w, answer) = Replied(answer)
<1>1. clearException(w) = NewWrapper
  <2>1. CASE w = NewWrapper
    BY <2>1 DEF clearException
  <2>2. ASSUME NEW x, w = Replied(x) PROVE clearException(w) = NewWrapper
    <3>1. CASE x = "fine"
      BY <2>2, <3>1 DEF Replied, clearException
    <3>2. CASE x # "fine"
      <4>1. w.dirty = TRUE
        BY <2>2, <3>2 DEF Replied
      <4> QED BY <4>1 DEF clearException
    <3> QED BY <3>1, <3>2
  <2> QED BY <2>1, <2>2 DEF Wrappers
<1>2. CASE answer = "fine"
  BY <1>1, <1>2 DEF Request, Replied
<1>3. CASE answer = "warning"
  <2>1. setWarnings(NewWrapper) = [dirty |-> TRUE, errors |-> <<>>]
    <3> DEFINE unset == FALSE
               set == TRUE
               none == <<>>
    <3> HIDE DEF unset, set, none
    <3>1. [[dirty |-> unset, errors |-> none] EXCEPT !.dirty = set] = [dirty |-> set, errors |-> none]
      BY SetDirty
    <3> QED BY <3>1, Zenon DEF setWarnings, NewWrapper, unset, set, none
  <2>2. Request(w, answer) = setWarnings(NewWrapper)
    BY <1>1, <1>3 DEF Request
  <2> QED BY <1>3, <2>1, <2>2 DEF Replied
<1>4. CASE answer # "fine" /\ answer # "warning"
  <2>1. setErrors(NewWrapper, <<answer>>) = [dirty |-> TRUE, errors |-> <<answer>>]
    BY SetBoth, Zenon DEF setErrors, NewWrapper
  <2>2. Request(w, answer) = setErrors(NewWrapper, <<answer>>)
    BY <1>1, <1>4 DEF Request
  <2> QED BY <1>4, <2>1, <2>2 DEF Replied
<1> QED BY <1>2, <1>3, <1>4

LEMMA InRange ==
  \A bound \in Nat : \A m \in 1 .. bound : m \in Nat
  OBVIOUS

LEMMA RequestsMean ==
  ASSUME NEW n \in Nat, NEW S, NEW answers \in [1 .. n -> S]
  PROVE  Requests(answers) = [i \in 1 .. Len(answers) |->
                                 IF answers[i] \in {"fine", "warning"} THEN <<>> ELSE <<answers[i]>>]
<1> DEFINE V == Wrappers(answers)
           step == [q \in (Nat \ {0}) \X V |-> IF q[1] \in 1 .. n THEN Request(q[2], answers[q[1]]) ELSE NewWrapper]
           Loop(g) == [i \in 0 .. Len(answers) |-> IF i = 0 THEN NewWrapper ELSE Request(g[i - 1], answers[i])]
           wrapper == CHOOSE g : g = Loop(g)
<1>1. Len(answers) = n
  <2>1. answers = [i \in 1 .. n |-> answers[i]]
    OBVIOUS
  <2> QED BY <2>1, LengthOfFunction
<1>2. \A w \in V : \A i \in 1 .. n : Request(w, answers[i]) = Replied(answers[i]) /\ Replied(answers[i]) \in V
  <2>1. \A i \in 1 .. n : Replied(answers[i]) \in V
    BY DEF Wrappers
  <2> HIDE DEF V
  <2>2. \A w \in V : \A i \in 1 .. n : Request(w, answers[i]) = Replied(answers[i])
    BY RequestMeans DEF V
  <2> QED BY <2>1, <2>2
<1>3. NewWrapper \in V
  BY DEF Wrappers
<1> HIDE DEF V
<1>4. StepsWithin(V, step) /\ \A i \in 1 .. n : \A w \in V : step[<<i, w>>] = Request(w, answers[i])
  <2>1. \A i \in 1 .. n : i \in Nat \ {0}
    OBVIOUS
  <2> QED BY <1>2, <1>3, <2>1 DEF StepsWithin
<1> HIDE DEF step
<1> DEFINE start == NewWrapper
<1>5. PICK f : f \in [0 .. n -> V] /\ Unfolds(f, start, step, n)
  <2>1. start \in V
    BY <1>3
  <2> HIDE DEF start
  <2> QED BY <1>4, <2>1, RecursionExists
<1>6. \A i \in 0 .. n : f[i] = IF i = 0 THEN NewWrapper ELSE Request(f[i - 1], answers[i])
  <2>1. \A i \in 0 .. n : i # 0 => i \in 1 .. n /\ i - 1 \in 0 .. n
    OBVIOUS
  <2> QED BY <1>4, <1>5, <2>1 DEF Unfolds
<1>7. wrapper = Loop(wrapper)
  <2>1. f = Loop(f)
    BY <1>1, <1>5, <1>6
  <2> HIDE DEF Loop
  <2> QED BY <2>1
<1> HIDE DEF wrapper
<1>8. \A i \in 0 .. n : wrapper[i] = IF i = 0 THEN NewWrapper ELSE Request(wrapper[i - 1], answers[i])
  BY <1>1, <1>7
<1>9. ASSUME NEW i \in 1 .. n PROVE wrapper[i] = Replied(answers[i])
  <2>1. i \in Nat /\ i \in 0 .. n /\ i - 1 \in 0 .. n /\ i # 0
    OBVIOUS
  <2>2. wrapper[i] = f[i]
    <3>1. \A j \in 1 .. i : j \in 0 .. n /\ j # 0
      OBVIOUS
    <3>2. 0 \in 0 .. n
      OBVIOUS
    <3>3. GoTogether(wrapper, f, i)
      BY <1>6, <1>8, <3>1, <3>2 DEF GoTogether
    <3> QED BY <2>1, <3>3, RecursionAgrees
  <2>3. f[i] = Request(f[i - 1], answers[i]) /\ f[i - 1] \in V
    BY <1>5, <1>6, <2>1
  <2> QED BY <1>2, <2>2, <2>3
<1>10. \A a : checkException(Replied(a)) = IF a \in {"fine", "warning"} THEN <<>> ELSE <<a>>
  <2> SUFFICES ASSUME NEW a PROVE checkException(Replied(a)) = IF a \in {"fine", "warning"} THEN <<>> ELSE <<a>>
    OBVIOUS
  <2>1. CASE a = "fine"
    BY <2>1 DEF Replied, checkException, NewWrapper
  <2>2. CASE a = "warning"
    BY <2>2 DEF Replied, checkException
  <2>3. CASE a # "fine" /\ a # "warning"
    BY <2>3 DEF Replied, checkException
  <2> QED BY <2>1, <2>2, <2>3
<1>11. Requests(answers) = [i \in 1 .. Len(answers) |-> checkException(wrapper[i])]
  BY DEF Requests, wrapper
<1> QED BY <1>1, <1>9, <1>10, <1>11

-----------------------------------------------------------------------------
(* An error of the server reaches the handler of the call it belongs to,   *)
(* unchanged: for vectors of any arguments a server writes, counted texts  *)
(* and SQLSTATEs among them, and any number of requests through one        *)
(* wrapper.  The vectors the library makes itself have no kind before      *)
(* their first code: they are not claimed, see OwnErrorsReported.          *)
THEOREM ServerErrorsKeptHolds == Spec => []ServerErrorsKept
<1>1. Init => ServerErrorsKept
  BY DEF Init, Idle, ServerErrorsKept, VectorKept, AnswersKept
<1>2. ServerErrorsKept /\ [Next]_vars => ServerErrorsKept'
  <2> SUFFICES ASSUME ServerErrorsKept, [Next]_vars PROVE ServerErrorsKept'
    OBVIOUS
  <2>1. CASE UNCHANGED vars
    BY <2>1 DEF vars, ServerErrorsKept, VectorKept, AnswersKept
  <2>2. CASE Next
    <3>1. VectorKept'
      <4>1. CASE request'.op = "throw"
        <5>1. Says(outcome', request'.args)
          BY <2>2, <4>1, CallsByTheirOp, ThrowAnswers
        <5>2. VectorKept' <=> (request'.op = "throw" => Says(outcome, request.args)')
          BY DEF VectorKept
        <5> QED BY <5>1, <5>2
      <4>2. CASE request'.op # "throw"
        BY <4>2 DEF VectorKept
      <4> QED BY <4>1, <4>2
    <3>2. AnswersKept'
      <4>1. CASE request'.op = "wrapper"
        <5>0. PICK n \in 1 .. Replies : \E answers \in [1 .. n -> {"fine", "warning", "error A", "error B"}] :
                 request' = [op |-> "wrapper", answers |-> answers] /\ outcome' = Requests(answers)
          BY <2>2, <4>1, CallsByTheirOp DEF UseWrapper, Answer
        <5>1. PICK answers \in [1 .. n -> {"fine", "warning", "error A", "error B"}] :
                 request' = [op |-> "wrapper", answers |-> answers] /\ outcome' = Requests(answers)
          BY <5>0
        <5>2. n \in Nat /\ request'.answers = answers
          <6>1. Replies \in Nat
            BY ConversionsAssumption
          <6>2. n \in Nat
            BY <6>1, InRange
          <6>3. request' = [op |-> "wrapper", answers |-> answers]
            BY <5>1
          <6> QED BY <6>2, <6>3
        <5>3. outcome' = [i \in 1 .. Len(answers) |-> IF answers[i] \in {"fine", "warning"} THEN <<>> ELSE <<answers[i]>>]
          BY <5>1, <5>2, RequestsMean
        <5> QED BY <5>2, <5>3 DEF AnswersKept
      <4>2. CASE request'.op # "wrapper"
        BY <4>2 DEF AnswersKept
      <4> QED BY <4>1, <4>2
    <3> QED BY <3>1, <3>2 DEF ServerErrorsKept
  <2> QED BY <2>1, <2>2
<1> QED BY <1>1, <1>2, PTL DEF Spec

-----------------------------------------------------------------------------
(* A number brought from one scale to another is the nearest one the new   *)
(* scale has, and it is refused exactly when the target does not hold it:  *)
(* for any widths, any two scales and any number, though the code looks at *)
(* one digit of what it drops and multiplies step by step.                 *)
THEOREM RescaleIsNearestHolds == Spec => []RescaleIsNearest
<1>1. Init => RescaleIsNearest
  BY DEF Init, Idle, RescaleIsNearest
<1>2. RescaleIsNearest /\ [Next]_vars => RescaleIsNearest'
  <2> SUFFICES ASSUME RescaleIsNearest, [Next]_vars PROVE RescaleIsNearest'
    OBVIOUS
  <2>1. CASE UNCHANGED vars
    BY <2>1 DEF vars, RescaleIsNearest
  <2>2. CASE Next /\ request'.op = "rescale"
    <3>1. PICK from \in IntTypes, to \in IntTypes, fromScale \in Scales, toScale \in Scales :
             \E v \in MinOf(from) .. MaxOf(from) :
                Answer([op |-> "rescale", v |-> v, fromScale |-> fromScale, to |-> to, toScale |-> toScale],
                       {IntToInt(v, from, fromScale, to, toScale)})
      BY <2>2, CallsByTheirOp DEF Rescale
    <3>2. PICK v \in MinOf(from) .. MaxOf(from) :
             /\ request' = [op |-> "rescale", v |-> v, fromScale |-> fromScale, to |-> to, toScale |-> toScale]
             /\ outcome' = IntToInt(v, from, fromScale, to, toScale)
      BY <3>1 DEF Answer
    <3>3. v \in Int /\ fromScale \in Int /\ toScale \in Int
      BY ConversionsAssumption
    <3> DEFINE exact == Scaled(v, toScale - fromScale)
    <3>4. outcome' = IF Fits(exact, to) THEN Ok(exact) ELSE Throw("numeric_out_of_range")
      BY <3>2, <3>3, IntToIntMeans
    <3>5. exact = IF toScale - fromScale > 0 THEN NearestInt(v, toScale - fromScale) ELSE v * PowerOfTen(-(toScale - fromScale))
      BY DEF Scaled, Rounded, NearestInt
    <3>6. request'.v = v /\ request'.fromScale = fromScale /\ request'.to = to /\ request'.toScale = toScale
      BY <3>2
    <3> HIDE DEF exact
    <3> QED BY <3>4, <3>5, <3>6 DEF RescaleIsNearest
  <2>3. CASE Next /\ request'.op # "rescale"
    BY <2>3 DEF RescaleIsNearest
  <2> QED BY <2>1, <2>2, <2>3
<1> QED BY <1>1, <1>2, PTL DEF Spec

(* Why a value may be refused, and why it may not come back. *)
Excused(kind, v) ==
    \/ kind = "date" /\ BadDate(v)
    \/ kind = "timeTz" /\ (BadTime(v.utc) \/ ~knownZone(v.zone))
    \/ kind = "timestamp" /\ (BadDate(v.date) \/ BadTime(v.time) \/ Backward(v.date))
    \/ kind = "timestampTz" /\ (BadDate(v.utc.date) \/ BadTime(v.utc.time) \/ ~knownZone(v.zone))
Unclaimed(kind, v) ==
    \/ kind = "date" /\ Backward(v)
    \/ kind = "timestamp" /\ Backward(v.date)
    \/ kind = "timestampTz" /\ Backward(v.utc.date)
Answered(kind, v) ==
    \/ Through(kind, v) = Fine(v)
    \/ Excused(kind, v) /\ Refused(Through(kind, v))
    \/ Unclaimed(kind, v) /\ \E w : Through(kind, v) = Fine(w)

(* What goes in as a calendar value, or as its text, comes back, or is     *)
(* refused because the code may refuse it: for a calendar and zones of any *)
(* sizes, and any dates of C++ but those before year 0, of which whatever  *)
(* the client library makes is allowed.                                    *)
THEOREM CalendarKeptHolds == Spec => []CalendarKept
<1>1. Init => CalendarKept
  BY DEF Init, Idle, CalendarKept, CalendarValueKept, CalendarTextKept
<1>2. CalendarKept /\ [Next]_vars => CalendarKept'
  <2> SUFFICES ASSUME CalendarKept, [Next]_vars PROVE CalendarKept'
    OBVIOUS
  <2>1. CASE UNCHANGED vars
    BY <2>1 DEF vars, CalendarKept, CalendarValueKept, CalendarTextKept
  <2>2. CASE Next
    <3>1. CalendarValueKept'
      <4>1. CASE request'.op # "calendar"
        BY <4>1 DEF CalendarValueKept
      <4>2. CASE request'.op = "calendar"
        <5>1. ASSUME NEW kind \in {"date", "timeTz", "timestamp", "timestampTz"}, NEW v,
                     Written(kind, v), Answered(kind, v)
              PROVE  CalendarValueKept'
          <6>1. request' = [op |-> "calendar", kind |-> kind, v |-> v] /\ outcome' = Through(kind, v)
            BY <5>1 DEF Written, Answer, Through
          <6>2. request'.kind = kind /\ request'.v = v
            BY <6>1
          <6>3. CASE outcome' = Fine(v)
            <7>1. outcome'.ok = TRUE /\ outcome'.value = v
              BY <6>3, Outcomes
            <7> QED BY <5>1, <6>2, <7>1 DEF CalendarValueKept
          <6>4. CASE Excused(kind, v) /\ Refused(outcome')
            <7>1. outcome'.ok = FALSE
              BY <6>4, Outcomes DEF Refused
            <7> QED BY <5>1, <6>2, <6>4, <7>1 DEF CalendarValueKept, Excused, Backward, BadDate, BadTime
          <6>5. CASE Unclaimed(kind, v) /\ \E w : outcome' = Fine(w)
            <7>1. outcome'.ok = TRUE
              BY <6>5, Outcomes
            <7> QED BY <5>1, <6>2, <6>5, <7>1 DEF CalendarValueKept, Unclaimed, Backward, BadDate
          <6> QED BY <5>1, <6>1, <6>3, <6>4, <6>5 DEF Answered
        <5>2. CASE WriteDate
          <6>1. PICK v \in DateFields : Written("date", v)
            BY <5>2 DEF WriteDate
          <6>2. Answered("date", v)
            BY <6>1, DatesTried, DateKept DEF Answered, Excused, Unclaimed
          <6> QED BY <5>1, <6>1, <6>2
        <5>3. CASE WriteTime
          <6>1. PICK v \in Instants : Written("time", v)
            BY <5>3 DEF WriteTime
          <6>2. v \in Int
            BY <6>1, ConversionsAssumption
          <6>3. PICK w \in Int : Through("time", v) = Fine(w) /\ (v >= 0 /\ v % MicrosPerTick = 0 => w = v)
            BY <6>2, TimeKept
          <6>4. request' = [op |-> "calendar", kind |-> "time", v |-> v] /\ outcome' = Fine(w)
            BY <6>1, <6>3 DEF Written, Answer, Through
          <6>5. request'.kind = "time" /\ request'.v = v /\ outcome'.ok = TRUE /\ outcome'.value = w
            BY <6>4, Outcomes
          <6>6. w = v \/ v < 0 \/ v % MicrosPerTick # 0
            BY <6>2, <6>3
          <6> QED BY <6>5, <6>6 DEF CalendarValueKept
        <5>4. CASE WriteTimeTz
          <6>1. PICK v \in [utc : Instants, zone : ZoneNames] : Written("timeTz", v)
            BY <5>4 DEF WriteTimeTz
          <6>2. v.utc \in Int /\ v = [utc |-> v.utc, zone |-> v.zone]
            BY <6>1, ConversionsAssumption
          <6>3. Answered("timeTz", v)
            BY <6>2, TimeTzKept DEF Answered, Excused
          <6> QED BY <5>1, <6>1, <6>3
        <5>5. CASE WriteTimestamp
          <6>1. PICK v \in [date : DateFields, time : Instants] : Written("timestamp", v)
            BY <5>5 DEF WriteTimestamp
          <6>2. v.date \in Dates /\ v.time \in Int /\ v = [date |-> v.date, time |-> v.time]
            BY <6>1, ConversionsAssumption, DatesTried
          <6>3. Answered("timestamp", v)
            BY <6>2, TimestampKept DEF Answered, Excused, Unclaimed
          <6> QED BY <5>1, <6>1, <6>3
        <5>6. CASE WriteTimestampTz
          <6>1. PICK d \in DateFields, t \in Instants, z \in ZoneNames :
                   Written("timestampTz", [utc |-> [date |-> d, time |-> t], zone |-> z])
            BY <5>6 DEF WriteTimestampTz
          <6> DEFINE v == [utc |-> [date |-> d, time |-> t], zone |-> z]
          <6>2. v.utc.date = d /\ v.utc.time = t /\ v.zone = z
            OBVIOUS
          <6>3. \/ Through("timestampTz", v) = Fine(v)
                \/ (BadDate(d) \/ BadTime(t) \/ ~knownZone(z)) /\ Refused(Through("timestampTz", v))
                \/ Backward(d) /\ \E w : Through("timestampTz", v) = Fine(w)
            BY <6>1, ConversionsAssumption, DatesTried, TimestampTzKept
          <6>4. Written("timestampTz", v)
            BY <6>1
          <6> HIDE DEF v
          <6>5. Answered("timestampTz", v)
            BY <6>2, <6>3 DEF Answered, Excused, Unclaimed
          <6> QED BY <5>1, <6>4, <6>5
        <5> QED BY <2>2, <4>2, CallsByTheirOp, <5>2, <5>3, <5>4, <5>5, <5>6
      <4> QED BY <4>1, <4>2
    <3>2. CalendarTextKept'
      <4>1. CASE request'.op # "calendarText"
        BY <4>1 DEF CalendarTextKept
      <4>2. CASE request'.op = "calendarText"
        <5>1. PICK kind \in {"date", "time", "timeTz", "timestamp", "timestampTz"}, d \in DateFields, t \in TextTimes, z \in ZoneNames :
                 /\ FourDigits(d.y)
                 /\ \E s \in {TextFields(d, t, z), NoMatch} :
                       Answer([op |-> "calendarText", kind |-> kind, s |-> s], {ThroughString(kind, s)})
          BY <2>2, <4>2, CallsByTheirOp DEF ReadCalendarText, TextFields, ThroughString
        <5>2. PICK s \in {TextFields(d, t, z), NoMatch} :
                 request' = [op |-> "calendarText", kind |-> kind, s |-> s] /\ outcome' = ThroughString(kind, s)
          BY <5>1 DEF Answer
        <5>3. TypedFields(t)
          BY ConversionsAssumption DEF TypedFields
        <5>4. request'.s = s
          BY <5>2
        <5>5. CASE Refused(outcome')
          <6>1. outcome'.ok = FALSE
            BY <5>5, Outcomes DEF Refused
          <6> QED BY <6>1 DEF CalendarTextKept
        <5>7. request'.kind = kind
          BY <5>2
        <5>8. CASE kind = "timestampTz" /\ s.date.y = 0
          BY <5>4, <5>7, <5>8 DEF CalendarTextKept
        <5>6. CASE ~Refused(outcome') /\ ~(kind = "timestampTz" /\ s.date.y = 0)
          <6>1. s = TextFields(d, t, z)
            BY <5>2, <5>6, NoMatchRefused
          <6>2. s.date = d /\ s.time = t /\ s.zone = z
            BY <6>1 DEF TextFields
          <6> DEFINE back == FieldsBack(t)
          <6>3. \/ outcome' = Fine([matches |-> TRUE, date |-> d])
                \/ outcome' = Fine([matches |-> TRUE, time |-> back])
                \/ outcome' = Fine([matches |-> TRUE, zone |-> z, time |-> back])
                \/ outcome' = Fine([matches |-> TRUE, date |-> d, time |-> back])
                \/ outcome' = Fine([matches |-> TRUE, zone |-> z, date |-> d, time |-> back])
            <7>1. CASE kind = "date"
              BY <5>1, <5>2, <5>3, <5>6, <6>1, <7>1, DatesTried, DateTextKept
            <7>2. CASE kind = "time"
              BY <5>2, <5>3, <5>6, <6>1, <7>2, DatesTried, TimeTextKept
            <7>3. CASE kind = "timeTz"
              BY <5>2, <5>3, <5>6, <6>1, <7>3, DatesTried, TimeTzTextKept
            <7>4. CASE kind = "timestamp"
              BY <5>1, <5>2, <5>3, <5>6, <6>1, <7>4, DatesTried, TimestampTextKept
            <7>5. CASE kind = "timestampTz"
              <8>1. d.y > 0
                <9>1. d.y # 0 /\ d.y \in 0 .. LastYear /\ LastYear \in Nat
                  BY <5>1, <5>6, <6>2, <7>5, YearsAssumption DEF FourDigits
                <9> QED BY <9>1
              <8> QED BY <5>1, <5>2, <5>3, <5>6, <6>1, <7>5, <8>1, DatesTried, TimestampTzTextKept
            <7> QED BY <5>1, <7>1, <7>2, <7>3, <7>4, <7>5
          <6>4. /\ back.h = t.h /\ back.m = t.m /\ back.s = t.s
                /\ Fraction(back.fraction) = Fraction(t.fraction)
                /\ \A i \in 1 .. Len(t.fraction) : back.fraction[i] = t.fraction[i]
            <7>1. back.h = t.h /\ back.m = t.m /\ back.s = t.s /\ back.fraction = Padded(t.fraction)
              BY DEF FieldsBack
            <7>2. t.fraction \in Seq(0 .. 9) /\ Len(t.fraction) <= FractionDigits
              BY <5>3 DEF TypedFields
            <7>3. \A i \in 1 .. Len(t.fraction) : Padded(t.fraction)[i] = t.fraction[i]
              <8>1. \A i \in 1 .. Len(t.fraction) : i \in 1 .. FractionDigits /\ i <= Len(t.fraction)
                BY <7>2, LenProperties, CalendarSizes
              <8> QED BY <8>1 DEF Padded
            <7> QED BY <7>1, <7>2, <7>3, PaddedReads
          <6> HIDE DEF back
          <6> DEFINE v == outcome'.value
          <6>5. /\ "date" \in DOMAIN v => v.date = d
                /\ "zone" \in DOMAIN v => v.zone = z
                /\ "time" \in DOMAIN v => v.time = back
            <7>1. CASE outcome' = Fine([matches |-> TRUE, date |-> d])
              BY <7>1, Outcomes
            <7>2. CASE outcome' = Fine([matches |-> TRUE, time |-> back])
              BY <7>2, Outcomes
            <7>3. CASE outcome' = Fine([matches |-> TRUE, zone |-> z, time |-> back])
              BY <7>3, Outcomes
            <7>4. CASE outcome' = Fine([matches |-> TRUE, date |-> d, time |-> back])
              BY <7>4, Outcomes
            <7>5. CASE outcome' = Fine([matches |-> TRUE, zone |-> z, date |-> d, time |-> back])
              BY <7>5, Outcomes
            <7> QED BY <6>3, <7>1, <7>2, <7>3, <7>4, <7>5
          <6> QED BY <5>4, <6>2, <6>4, <6>5 DEF CalendarTextKept
        <5> QED BY <5>5, <5>6, <5>8
      <4> QED BY <4>1, <4>2
    <3> QED BY <3>1, <3>2 DEF CalendarKept
  <2> QED BY <2>1, <2>2
<1> QED BY <1>1, <1>2, PTL DEF Spec

-----------------------------------------------------------------------------
(* A text's points, signs and digits.                                      *)
PointsOf(s) == {i \in 1 .. Len(s) : s[i] = "."}
MinusOf(s) == {i \in 1 .. Len(s) : s[i] = "-"}
DigitsIn(s) == {i \in 1 .. Len(s) : IsDigit(s[i])}
IsDecimal(s) ==
    /\ PointsOf(s) \union MinusOf(s) \union DigitsIn(s) = 1 .. Len(s) /\ DigitsIn(s) # {}
    /\ \A p, q \in PointsOf(s) : p = q
    /\ \A m \in MinusOf(s) : \A i \in DigitsIn(s) \union (MinusOf(s) \ {m}) : m < i
DigitsBehind(s, i) == Cardinality({j \in DigitsIn(s) : i < j})

(* Where a character is without the last dot.                              *)
Ahead(s, i) == IF LastDot(s) = 0 \/ i < LastDot(s) THEN i ELSE i - 1

LEMMA AheadAndBehind ==
  ASSUME NEW S, NEW s \in Seq(S)
  PROVE  LET w == WithoutDot(s)
         IN  /\ \A i \in 1 .. Len(s) : i # LastDot(s) =>
                   Ahead(s, i) \in 1 .. Len(w) /\ w[Ahead(s, i)] = s[i] /\ BehindDot(s, Ahead(s, i)) = i
             /\ \A j \in 1 .. Len(w) :
                   /\ BehindDot(s, j) \in 1 .. Len(s) /\ BehindDot(s, j) # LastDot(s)
                   /\ Ahead(s, BehindDot(s, j)) = j /\ w[j] = s[BehindDot(s, j)]
<1> DEFINE n == Len(s)
           dot == LastDot(s)
           w == WithoutDot(s)
           l == Len(w)
<1>1. n \in Nat /\ dot \in 0 .. n /\ l = (IF dot = 0 THEN n ELSE n - 1)
      /\ \A j \in 1 .. l : w[j] = s[BehindDot(s, j)]
  BY LenProperties, WithoutDotMeans
<1>2. \A i : /\ Ahead(s, i) = IF dot = 0 \/ i < dot THEN i ELSE i - 1
            /\ BehindDot(s, i) = IF dot = 0 \/ i < dot THEN i ELSE i + 1
  BY DEF Ahead, BehindDot
<1> HIDE DEF n, dot, w, l
<1>3. ASSUME NEW i \in 1 .. n, i # dot
      PROVE  Ahead(s, i) \in 1 .. l /\ BehindDot(s, Ahead(s, i)) = i
  <2>1. CASE dot = 0 \/ i < dot
    <3>1. Ahead(s, i) = i /\ BehindDot(s, i) = i /\ i \in 1 .. l
      BY <1>1, <1>2, <2>1
    <3> QED BY <3>1
  <2>2. CASE ~(dot = 0 \/ i < dot)
    <3>1. Ahead(s, i) = i - 1 /\ i - 1 \in 1 .. l /\ ~(dot = 0 \/ i - 1 < dot) /\ (i - 1) + 1 = i
      BY <1>1, <1>2, <1>3, <2>2
    <3>2. BehindDot(s, i - 1) = i
      BY <1>2, <3>1
    <3> QED BY <3>1, <3>2
  <2> QED BY <2>1, <2>2
<1>4. ASSUME NEW i \in 1 .. n, i # dot PROVE w[Ahead(s, i)] = s[i]
  BY <1>1, <1>3, <1>4
<1>5. ASSUME NEW j \in 1 .. l
      PROVE  BehindDot(s, j) \in 1 .. n /\ BehindDot(s, j) # dot /\ Ahead(s, BehindDot(s, j)) = j
  <2>1. CASE dot = 0 \/ j < dot
    <3>1. Ahead(s, j) = j /\ BehindDot(s, j) = j /\ j \in 1 .. n /\ j # dot
      BY <1>1, <1>2, <2>1
    <3> QED BY <3>1
  <2>2. CASE ~(dot = 0 \/ j < dot)
    <3>1. BehindDot(s, j) = j + 1 /\ j + 1 \in 1 .. n /\ ~(dot = 0 \/ j + 1 < dot) /\ (j + 1) - 1 = j /\ j + 1 # dot
      BY <1>1, <1>2, <2>2
    <3>2. Ahead(s, j + 1) = j
      BY <1>2, <3>1
    <3> QED BY <3>1, <3>2
  <2> QED BY <2>1, <2>2
<1> QED BY <1>1, <1>3, <1>4, <1>5 DEF n, dot, w, l

(* The order of two characters does not change.                            *)
LEMMA AheadInOrder ==
  ASSUME NEW S, NEW s \in Seq(S), NEW i \in 1 .. Len(s), NEW k \in 1 .. Len(s), i # LastDot(s), k # LastDot(s), i < k
  PROVE  Ahead(s, i) < Ahead(s, k)
<1>1. Len(s) \in Nat /\ LastDot(s) \in 0 .. Len(s)
  BY LenProperties, WithoutDotMeans
<1> QED BY <1>1 DEF Ahead

(* What a character of a text is that std::from_chars takes.               *)
CharKinds(s) ==
    \A i \in 1 .. Len(s) :
        \/ i = LastDot(s) /\ s[i] = "."
        \/ i # LastDot(s) /\ Ahead(s, i) >= FirstDigit(WithoutDot(s)) /\ IsDigit(s[i])
        \/ i # LastDot(s) /\ Ahead(s, i) = 1 /\ FirstDigit(WithoutDot(s)) = 2 /\ s[i] = "-"

LEMMA KindsKnown ==
  ASSUME NEW S, NEW s \in Seq(S), WellFormed(WithoutDot(s))
  PROVE  CharKinds(s)
<1> DEFINE w == WithoutDot(s)
           first == FirstDigit(w)
<1>1. first \in {1, 2} /\ (first = 2 => w[1] = "-") /\ \A j \in first .. Len(w) : IsDigit(w[j])
  BY DEF FirstDigit, WellFormed
<1>2. Len(w) \in Nat
  BY LenProperties, WithoutDotMeans
<1> SUFFICES ASSUME NEW i \in 1 .. Len(s)
             PROVE  \/ i = LastDot(s) /\ s[i] = "."
                    \/ i # LastDot(s) /\ Ahead(s, i) >= first /\ IsDigit(s[i])
                    \/ i # LastDot(s) /\ Ahead(s, i) = 1 /\ first = 2 /\ s[i] = "-"
  BY DEF CharKinds
<1>3. CASE i = LastDot(s)
  <2>1. i # 0
    BY LenProperties
  <2> QED BY <1>3, <2>1, WithoutDotMeans
<1>4. CASE i # LastDot(s)
  <2>1. Ahead(s, i) \in 1 .. Len(w) /\ w[Ahead(s, i)] = s[i]
    BY <1>4, AheadAndBehind
  <2> HIDE DEF w, first
  <2>2. CASE Ahead(s, i) >= first
    <3>1. Ahead(s, i) \in first .. Len(w)
      BY <1>1, <1>2, <2>1, <2>2
    <3> QED BY <1>1, <1>4, <2>1, <2>2, <3>1
  <2>3. CASE ~(Ahead(s, i) >= first)
    <3>1. Ahead(s, i) = 1 /\ first = 2
      BY <1>1, <1>2, <2>1, <2>3
    <3> QED BY <1>1, <1>4, <2>1, <3>1
  <2> QED BY <2>2, <2>3
<1> QED BY <1>3, <1>4

LEMMA TextMarks == ~IsDigit(".") /\ ~IsDigit("-") /\ "." # "-"
  BY TenDigits

(* The texts that std::from_chars takes are the decimals.                  *)
LEMMA DecimalsTaken ==
  ASSUME NEW S, NEW s \in Seq(S)
  PROVE  IsDecimal(s) <=> WellFormed(WithoutDot(s))
<1> DEFINE w == WithoutDot(s)
           first == FirstDigit(w)
           dot == LastDot(s)
           n == Len(s)
<1>1. first \in {1, 2} /\ (first = 2 => w[1] = "-") /\ (w # <<>> /\ w[1] = "-" => first = 2)
  BY DEF FirstDigit
<1>2. Len(w) \in Nat /\ n \in Nat /\ dot \in 0 .. n /\ (dot # 0 => s[dot] = ".")
      /\ (\A i \in 1 .. n : s[i] = "." => i <= dot) /\ w \in Seq(S)
  BY LenProperties, WithoutDotMeans
<1>3. /\ \A i \in 1 .. n : i # dot => Ahead(s, i) \in 1 .. Len(w) /\ w[Ahead(s, i)] = s[i] /\ BehindDot(s, Ahead(s, i)) = i
      /\ \A j \in 1 .. Len(w) : /\ BehindDot(s, j) \in 1 .. n /\ BehindDot(s, j) # dot
                                /\ Ahead(s, BehindDot(s, j)) = j /\ w[j] = s[BehindDot(s, j)]
  BY AheadAndBehind
<1>4. ASSUME WellFormed(w) PROVE IsDecimal(s)
  <2>1. \A i \in 1 .. n : \/ i = dot /\ s[i] = "."
                          \/ i # dot /\ Ahead(s, i) >= first /\ IsDigit(s[i])
                          \/ i # dot /\ Ahead(s, i) = 1 /\ first = 2 /\ s[i] = "-"
    BY <1>4, KindsKnown DEF CharKinds
  <2>2. Len(w) >= first /\ \A j \in first .. Len(w) : IsDigit(w[j])
    BY <1>4 DEF WellFormed
  <2> HIDE DEF w, first, dot, n
  <2> DEFINE points == {i \in 1 .. n : s[i] = "."}
             minus == {i \in 1 .. n : s[i] = "-"}
             digits == {i \in 1 .. n : IsDigit(s[i])}
  <2>3. points \union minus \union digits = 1 .. n
    BY <2>1
  <2>4. digits # {}
    <3>1. first \in 1 .. Len(w) /\ first \in first .. Len(w)
      BY <1>1, <1>2, <2>2
    <3>2. BehindDot(s, first) \in digits
      BY <1>3, <2>2, <3>1
    <3> QED BY <3>2
  <2>5. \A p, q \in points : p = q
    <3>1. \A p \in points : p = dot
      BY <2>1, TextMarks
    <3> QED BY <3>1
  <2>6. ASSUME NEW m \in minus, NEW i \in digits \union (minus \ {m}) PROVE m < i
    <3>1. m \in 1 .. n /\ m # dot /\ Ahead(s, m) = 1 /\ first = 2
      BY <2>1, TextMarks
    <3>2. i \in 1 .. n /\ i # dot /\ i # m
      BY <2>1, <2>6, TextMarks
    <3>3. ~(Ahead(s, i) < 1)
      BY <1>2, <1>3, <3>2
    <3>4. i < m => Ahead(s, i) < Ahead(s, m)
      BY <3>1, <3>2, AheadInOrder DEF n, dot
    <3> QED BY <3>1, <3>2, <3>3, <3>4
  <2>7. PointsOf(s) = points /\ MinusOf(s) = minus /\ DigitsIn(s) = digits
    BY DEF PointsOf, MinusOf, DigitsIn, n
  <2> HIDE DEF points, minus, digits
  <2> QED BY <2>3, <2>4, <2>5, <2>6, <2>7 DEF IsDecimal, n
<1>5. ASSUME IsDecimal(s) PROVE WellFormed(w)
  <2> DEFINE points == {i \in 1 .. n : s[i] = "."}
             minus == {i \in 1 .. n : s[i] = "-"}
             digits == {i \in 1 .. n : IsDigit(s[i])}
  <2>1. PointsOf(s) = points /\ MinusOf(s) = minus /\ DigitsIn(s) = digits
    BY DEF PointsOf, MinusOf, DigitsIn
  <2>2. /\ points \union minus \union digits = 1 .. n /\ digits # {}
        /\ \A p, q \in points : p = q
        /\ \A m \in minus : \A i \in digits \union (minus \ {m}) : m < i
    BY <1>5, <2>1 DEF IsDecimal
  <2> HIDE DEF w, first, dot, n
  <2>3. ASSUME NEW j \in 1 .. Len(w) PROVE BehindDot(s, j) \in minus \union digits
    <3>1. BehindDot(s, j) \in 1 .. n /\ BehindDot(s, j) # dot
      BY <1>3
    <3>2. BehindDot(s, j) \notin points
      <4> SUFFICES ASSUME BehindDot(s, j) \in points PROVE FALSE
        OBVIOUS
      <4>1. dot # 0 /\ dot \in 1 .. n
        BY <1>2, <3>1
      <4>2. dot \in points
        BY <1>2, <4>1
      <4> QED BY <2>2, <3>1, <4>2
    <3> QED BY <2>2, <3>1, <3>2
  <2>4. ASSUME NEW j \in first .. Len(w) PROVE IsDigit(w[j])
    <3>1. j \in 1 .. Len(w) /\ 1 \in 1 .. Len(w)
      BY <1>1, <1>2
    <3>2. CASE BehindDot(s, j) \in digits
      <4>1. IsDigit(s[BehindDot(s, j)])
        BY <3>2
      <4> QED BY <1>3, <3>1, <4>1
    <3>3. CASE BehindDot(s, j) \in minus
      <4>1. w[j] = "-"
        BY <1>3, <3>1, <3>3
      <4>2. j # 1
        <5> SUFFICES ASSUME j = 1 PROVE FALSE
          OBVIOUS
        <5>1. w # <<>>
          BY <1>2, <3>1, EmptySeq
        <5>2. first = 2
          BY <1>1, <4>1, <5>1
        <5> QED BY <1>2, <5>2
      <4> DEFINE one == BehindDot(s, 1)
                 i == BehindDot(s, j)
      <4>3. one \in minus \union digits /\ i \in minus /\ Ahead(s, one) = 1 /\ Ahead(s, i) = j /\ one \in 1 .. n /\ i \in 1 .. n
            /\ one # dot /\ i # dot
        BY <1>3, <2>3, <3>1, <3>3
      <4> HIDE DEF one, i
      <4>4. one # i
        BY <4>2, <4>3
      <4>5. i < one
        <5>1. one \in digits \union (minus \ {i})
          BY <4>3, <4>4
        <5> QED BY <2>2, <4>3, <5>1
      <4>6. Ahead(s, i) < Ahead(s, one)
        BY <4>3, <4>5, AheadInOrder DEF n, dot
      <4>7. j < 1
        BY <4>3, <4>6
      <4> QED BY <1>2, <3>1, <4>7
    <3> QED BY <2>3, <3>1, <3>2, <3>3
  <2>5. Len(w) >= first
    <3>1. PICK i \in digits : TRUE
      BY <2>2
    <3>2. i \in 1 .. n /\ IsDigit(s[i]) /\ s[i] # "." /\ s[i] # "-"
      BY TextMarks
    <3>3. i # dot
      BY <1>2, <3>2
    <3>4. Ahead(s, i) \in 1 .. Len(w) /\ w[Ahead(s, i)] = s[i]
      BY <1>3, <3>2, <3>3
    <3>5. first = 2 => Ahead(s, i) # 1
      BY <1>1, <3>2, <3>4
    <3> QED BY <1>1, <1>2, <3>4, <3>5
  <2> QED BY <2>4, <2>5 DEF WellFormed, first
<1> QED BY <1>4, <1>5

(* A decimal's sign is the parser's.                                       *)
LEMMA SignsAgree ==
  ASSUME NEW S, NEW s \in Seq(S), WellFormed(WithoutDot(s))
  PROVE  FirstDigit(WithoutDot(s)) = IF MinusOf(s) = {} THEN 1 ELSE 2
<1> DEFINE w == WithoutDot(s)
           first == FirstDigit(w)
<1>1. first \in {1, 2} /\ (first = 2 => w # <<>> /\ w[1] = "-")
  BY DEF FirstDigit
<1>2. CharKinds(s)
  BY KindsKnown
<1>3. CASE first = 1
  <2>1. \A i \in 1 .. Len(s) : s[i] # "-"
    <3>1. \A i \in 1 .. Len(s) : (i = LastDot(s) /\ s[i] = ".") \/ IsDigit(s[i])
      BY <1>2, <1>3 DEF CharKinds
    <3> QED BY <3>1, TextMarks
  <2>2. MinusOf(s) = {}
    BY <2>1 DEF MinusOf
  <2> QED BY <1>3, <2>2
<1>4. CASE first = 2
  <2>1. Len(w) \in Nat /\ w \in Seq(S) /\ Len(w) >= first
    BY LenProperties, WithoutDotMeans DEF WellFormed
  <2>2. 1 \in 1 .. Len(w)
    <3> HIDE DEF w, first
    <3> QED BY <1>4, <2>1
  <2>3. BehindDot(s, 1) \in 1 .. Len(s) /\ w[1] = s[BehindDot(s, 1)]
    BY <2>2, AheadAndBehind
  <2>4. BehindDot(s, 1) \in MinusOf(s)
    BY <1>1, <1>4, <2>3 DEF MinusOf
  <2>5. MinusOf(s) # {}
    BY <2>4
  <2> QED BY <1>4, <2>5
<1> QED BY <1>1, <1>3, <1>4

(* A decimal's places are the digits behind its point.                     *)
PlacesIn(s) ==
    IF PointsOf(s) = {} \/ \E p \in PointsOf(s), m \in MinusOf(s) : p < m THEN 0
    ELSE DigitsBehind(s, CHOOSE p \in PointsOf(s) : TRUE)
LEMMA PlacesAgree ==
  ASSUME NEW S, NEW s \in Seq(S), WellFormed(WithoutDot(s))
  PROVE  PlacesIn(s) \in Nat /\ ScaleOfText(s) = 0 - PlacesIn(s)
<1> DEFINE dot == LastDot(s)
           n == Len(s)
<1>1. n \in Nat /\ dot \in 0 .. n /\ (dot # 0 => s[dot] = ".") /\ (\A i \in 1 .. n : s[i] = "." => i <= dot)
  BY LenProperties, WithoutDotMeans
<1>2. \A i \in 1 .. n : \/ i = dot /\ s[i] = "."
                        \/ i # dot /\ IsDigit(s[i])
                        \/ i # dot /\ Ahead(s, i) = 1 /\ s[i] = "-"
  BY KindsKnown DEF CharKinds
<1>3. PointsOf(s) = IF dot = 0 THEN {} ELSE {dot}
  <2>1. \A p \in PointsOf(s) : p = dot /\ dot # 0
    BY <1>1, <1>2, TextMarks DEF PointsOf
  <2>2. dot # 0 => dot \in PointsOf(s)
    BY <1>1 DEF PointsOf
  <2> HIDE DEF dot, n
  <2> QED BY <2>1, <2>2
<1>4. 0 - 0 = 0 /\ 0 \in Nat
  OBVIOUS
<1>5. CASE dot = 0
  <2>1. ScaleOfText(s) = 0 /\ PlacesIn(s) = 0
    BY <1>3, <1>5 DEF ScaleOfText, PlacesIn
  <2> QED BY <1>4, <2>1
<1>6. CASE dot # 0 /\ \E m \in MinusOf(s) : dot < m
  <2>1. PICK m \in MinusOf(s) : dot < m
    BY <1>6
  <2>2. m \in 1 .. n /\ s[m] = "-"
    BY DEF MinusOf
  <2>3. Ahead(s, m) = 1
    BY <1>2, <2>2, TextMarks
  <2>4. m = dot + 1
    BY <1>1, <1>6, <2>1, <2>2, <2>3 DEF Ahead
  <2>5. dot < n /\ ~IsDigit(s[dot + 1])
    BY <1>1, <2>2, <2>4, TextMarks
  <2>6. ScaleOfText(s) = 0
    BY <1>6, <2>5, ScaleOfTextIs
  <2>7. PlacesIn(s) = 0
    BY <1>3, <1>6 DEF PlacesIn
  <2> QED BY <1>4, <2>6, <2>7
<1>7. CASE dot # 0 /\ ~\E m \in MinusOf(s) : dot < m
  <2>1. \A i \in dot + 1 .. n : IsDigit(s[i])
    <3> SUFFICES ASSUME NEW i \in dot + 1 .. n PROVE IsDigit(s[i])
      OBVIOUS
    <3>1. i \in 1 .. n /\ i # dot /\ dot < i
      <4> HIDE DEF n, dot
      <4> QED BY <1>1
    <3>2. s[i] # "-"
      BY <1>7, <3>1 DEF MinusOf
    <3> QED BY <1>2, <3>1, <3>2
  <2>2. ScaleOfText(s) = -(n - dot)
    BY <1>7, <2>1, ScaleOfTextIs
  <2>3. PlacesIn(s) = DigitsBehind(s, dot)
    <3>1. (CHOOSE p \in PointsOf(s) : TRUE) = dot
      BY <1>3, <1>7
    <3> HIDE DEF dot
    <3> QED BY <1>3, <1>7, <3>1 DEF PlacesIn
  <2>4. DigitsBehind(s, dot) = n - dot
    <3>1. {j \in DigitsIn(s) : dot < j} = dot + 1 .. n
      <4>1. \A j \in DigitsIn(s) : dot < j => j \in dot + 1 .. n
        BY <1>1 DEF DigitsIn
      <4>2. \A j \in dot + 1 .. n : j \in 1 .. n /\ dot < j
        <5> HIDE DEF n, dot
        <5> QED BY <1>1
      <4>3. \A j \in dot + 1 .. n : j \in DigitsIn(s) /\ dot < j
        BY <2>1, <4>2 DEF DigitsIn
      <4> HIDE DEF n, dot
      <4> QED BY <4>1, <4>3
    <3>2. Cardinality(dot + 1 .. n) = n - dot
      <4> DEFINE b == dot + 1
      <4>1. b \in Int /\ n \in Int /\ (IF b > n THEN 0 ELSE n - b + 1) = n - dot
        <5> HIDE DEF n, dot
        <5> QED BY <1>1
      <4> HIDE DEF b, n, dot
      <4>2. Cardinality(b .. n) = IF b > n THEN 0 ELSE n - b + 1
        BY <4>1, FS_Interval
      <4> QED BY <4>1, <4>2 DEF b
    <3> QED BY <3>1, <3>2 DEF DigitsBehind
  <2>5. n - dot \in Nat /\ -(n - dot) = 0 - (n - dot)
    <3>1. n - dot \in Nat
      BY <1>1
    <3> QED BY <3>1, Negated
  <2> QED BY <2>2, <2>3, <2>4, <2>5
<1> QED BY <1>5, <1>6, <1>7

(* A decimal's digits, each weighed by how many follow it, add up to what  *)
(* the parser counts.                                                      *)
Weighs(weight, s) ==
    /\ weight[0] = 0
    /\ \A i \in 1 .. Len(s) :
          weight[i] = weight[i - 1] + (IF i \in DigitsIn(s) THEN DigitValue(s[i]) * PowerOfTen(DigitsBehind(s, i)) ELSE 0)

LEMMA BehindNext ==
  ASSUME NEW S, NEW s \in Seq(S), NEW i \in 1 .. Len(s)
  PROVE  /\ DigitsBehind(s, i) \in Nat
         /\ DigitsBehind(s, i - 1) = DigitsBehind(s, i) + (IF i \in DigitsIn(s) THEN 1 ELSE 0)
<1> DEFINE D == DigitsIn(s)
           after == {j \in D : i < j}
           from == {j \in D : i - 1 < j}
<1>1. Len(s) \in Nat /\ D \in SUBSET (1 .. Len(s))
  BY LenProperties DEF DigitsIn
<1>2. i \in Nat /\ \A j \in D : j \in Int
  BY <1>1
<1>3. IsFiniteSet(after) /\ Cardinality(after) \in Nat
  <2>1. IsFiniteSet(1 .. Len(s))
    <3> DEFINE one == 1
    <3>1. one \in Int /\ Len(s) \in Int
      BY <1>1
    <3> HIDE DEF one
    <3>2. IsFiniteSet(one .. Len(s))
      BY <3>1, FS_Interval
    <3> QED BY <3>2 DEF one
  <2>2. after \in SUBSET (1 .. Len(s))
    BY <1>1
  <2> HIDE DEF after
  <2> QED BY <2>1, <2>2, FS_Subset, FS_CardinalityType
<1> HIDE DEF D
<1>4. CASE i \in D
  <2>1. from = after \union {i} /\ i \notin after
    <3>1. \A j \in D : (i - 1 < j) <=> (i < j \/ j = i)
      BY <1>2
    <3>2. ~(i < i)
      BY <1>2
    <3> QED BY <1>4, <3>1, <3>2, Zenon
  <2>2. Cardinality(after \union {i}) = Cardinality(after) + 1
    <3> HIDE DEF after
    <3> QED BY <1>3, <2>1, FS_AddElement
  <2> QED BY <1>3, <1>4, <2>1, <2>2 DEF DigitsBehind, D
<1>5. CASE i \notin D
  <2>1. from = after
    <3>1. \A j \in D : (i - 1 < j) <=> (i < j \/ j = i)
      BY <1>2
    <3> QED BY <1>5, <3>1, Zenon
  <2>2. Cardinality(from) = Cardinality(after) + 0
    <3> HIDE DEF from, after
    <3>1. \A c \in Nat : c + 0 = c
      OBVIOUS
    <3> QED BY <1>3, <2>1, <3>1
  <2> QED BY <1>3, <1>5, <2>2 DEF DigitsBehind, D
<1> QED BY <1>4, <1>5

LEMMA WeightCounted ==
  ASSUME NEW S, NEW s \in Seq(S), WellFormed(WithoutDot(s)),
         NEW h \in [0 .. Len(WithoutDot(s)) -> Nat], Counts(h, WithoutDot(s)),
         NEW weight, Weighs(weight, s)
  PROVE  weight[Len(s)] = h[Len(WithoutDot(s))]
<1> DEFINE n == Len(s)
           dot == LastDot(s)
           w == WithoutDot(s)
           l == Len(w)
           first == FirstDigit(w)
           ten(i) == PowerOfTen(DigitsBehind(s, i))
           T == {i \in Nat : i \in 0 .. n => weight[i] = h[Ahead(s, i)] * ten(i)}
<1>1. n \in Nat /\ dot \in 0 .. n /\ l = (IF dot = 0 THEN n ELSE n - 1) /\ first \in {1, 2}
  BY LenProperties, WithoutDotMeans DEF FirstDigit
<1>2. \A i : Ahead(s, i) = IF dot = 0 \/ i < dot THEN i ELSE i - 1
  BY DEF Ahead
<1>3. \A i \in 1 .. n : \/ i = dot /\ s[i] = "."
                        \/ i # dot /\ Ahead(s, i) >= first /\ IsDigit(s[i])
                        \/ i # dot /\ Ahead(s, i) = 1 /\ first = 2 /\ s[i] = "-"
  BY KindsKnown DEF CharKinds
<1>4. \A i \in 1 .. n : i # dot => Ahead(s, i) \in 1 .. l /\ w[Ahead(s, i)] = s[i]
  BY AheadAndBehind
<1>5. h[0] = 0 /\ \A j \in 1 .. l : h[j] = IF j < first THEN 0 ELSE h[j - 1] * 10 + DigitValue(w[j])
  BY DEF Counts
<1>6. \A i \in 1 .. n : DigitsBehind(s, i) \in Nat
         /\ DigitsBehind(s, i - 1) = DigitsBehind(s, i) + (IF i \in DigitsIn(s) THEN 1 ELSE 0)
  BY BehindNext
<1>7. \A i \in 1 .. n : i \in DigitsIn(s) <=> IsDigit(s[i])
  BY DEF DigitsIn
<1>8. weight[0] = 0 /\ \A i \in 1 .. n :
         weight[i] = weight[i - 1] + (IF i \in DigitsIn(s) THEN DigitValue(s[i]) * ten(i) ELSE 0)
  BY DEF Weighs
<1>9. /\ \A i \in 1 .. n : ten(i) \in Nat
      /\ \A i \in 1 .. n : i \in DigitsIn(s) => ten(i - 1) = 10 * ten(i)
      /\ \A i \in 1 .. n : i \notin DigitsIn(s) => ten(i - 1) = ten(i)
  <2> SUFFICES ASSUME NEW i \in 1 .. n
               PROVE  /\ ten(i) \in Nat /\ (i \in DigitsIn(s) => ten(i - 1) = 10 * ten(i))
                      /\ (i \notin DigitsIn(s) => ten(i - 1) = ten(i))
    OBVIOUS
  <2> DEFINE k == DigitsBehind(s, i)
  <2>1. k \in Nat /\ DigitsBehind(s, i - 1) = k + (IF i \in DigitsIn(s) THEN 1 ELSE 0)
    BY <1>6
  <2>2. ten(i) = PowerOfTen(k)
    OBVIOUS
  <2> HIDE DEF k
  <2>3. PowerOfTen(k) \in Nat
    BY <2>1, PowerType
  <2>4. PowerOfTen(k + 1) = 10 * PowerOfTen(k)
    BY <2>1, PowerStep
  <2>5. i \in DigitsIn(s) => ten(i - 1) = PowerOfTen(k + 1)
    BY <2>1
  <2>6. i \notin DigitsIn(s) => ten(i - 1) = PowerOfTen(k)
    <3>1. k + 0 = k
      BY <2>1
    <3> QED BY <2>1, <3>1
  <2> HIDE DEF ten
  <2> QED BY <2>2, <2>3, <2>4, <2>5, <2>6
<1>l. l \in Nat /\ \A j \in 0 .. l : h[j] \in Nat
  BY <1>1
<1> HIDE DEF n, dot, w, l, first, ten
<1>10. 0 \in T
  <2>1. Ahead(s, 0) = 0
    BY <1>1, <1>2
  <2>2. h[0] * ten(0) = 0
    <3>1. ten(0) \in Int
      <4>1. CASE n = 0
        <5>1. DigitsBehind(s, 0) \in Nat
          <6>1. {j \in DigitsIn(s) : 0 < j} = {}
            BY <4>1 DEF DigitsIn, n
          <6>2. Cardinality({}) = 0
            BY FS_EmptySet
          <6>3. DigitsBehind(s, 0) = 0
            BY <6>1, <6>2 DEF DigitsBehind
          <6> QED BY <6>3
        <5> QED BY <5>1, PowerType DEF ten
      <4>2. CASE n # 0
        <5>1. 1 \in 1 .. n /\ 1 - 1 = 0
          BY <1>1, <4>2
        <5>2. ten(1) \in Nat /\ (ten(0) = 10 * ten(1) \/ ten(0) = ten(1))
          BY <1>9, <5>1
        <5> QED BY <5>2
      <4> QED BY <4>1, <4>2
    <3> QED BY <1>5, <3>1
  <2> QED BY <1>8, <2>1, <2>2
<1>11. ASSUME NEW k \in Nat, k \in T PROVE k + 1 \in T
  <2> SUFFICES ASSUME k + 1 \in 0 .. n PROVE weight[k + 1] = h[Ahead(s, k + 1)] * ten(k + 1)
    OBVIOUS
  <2> DEFINE i == k + 1
             j == Ahead(s, i)
  <2>1. i \in 1 .. n /\ i - 1 = k /\ k \in 0 .. n
    BY <1>1
  <2>2. weight[k] = h[Ahead(s, k)] * ten(k)
    BY <1>11, <2>1
  <2>3. Ahead(s, k) \in 0 .. l
    BY <1>1, <1>2, <2>1
  <2>i. ten(i) \in Nat
    BY <1>9, <2>1
  <2> HIDE DEF i, j
  <2>4. CASE i = dot
    <3>1. j = i - 1 /\ Ahead(s, k) = k
      BY <1>1, <1>2, <2>1, <2>4 DEF j
    <3>2. i \notin DigitsIn(s)
      BY <1>3, <1>7, <2>1, <2>4, TextMarks
    <3>3. weight[i] = weight[k] + 0 /\ ten(k) = ten(i)
      BY <1>8, <1>9, <2>1, <3>2
    <3>4. h[k] \in Nat
      BY <1>l, <2>3, <3>1
    <3>5. weight[k] = h[k] * ten(i) /\ h[k] * ten(i) \in Nat
      BY <2>2, <2>i, <3>1, <3>3, <3>4
    <3>6. weight[i] = h[j] * ten(i)
      BY <2>1, <3>1, <3>3, <3>5
    <3> QED BY <3>6 DEF i, j
  <2>5. CASE i # dot /\ IsDigit(s[i])
    <3>1. j >= first /\ j \in 1 .. l /\ w[j] = s[i]
      BY <1>3, <1>4, <2>1, <2>5, TextMarks DEF j
    <3>2. Ahead(s, k) = j - 1
      BY <1>1, <1>2, <2>1, <2>5 DEF j
    <3> DEFINE d == DigitValue(s[i])
    <3>3. d \in 0 .. 9
      BY <2>5, DigitWorth
    <3>4. weight[i] = weight[k] + d * ten(i) /\ ten(k) = 10 * ten(i)
      BY <1>7, <1>8, <1>9, <2>1, <2>5
    <3>5. h[j] = h[j - 1] * 10 + d
      <4>1. ~(j < first)
        BY <1>1, <3>1
      <4> QED BY <1>5, <3>1, <4>1
    <3>6. h[j - 1] \in Nat
      BY <1>l, <2>3, <3>2
    <3> DEFINE x == h[j - 1]
               t == ten(i)
    <3>7. weight[i] = x * (10 * t) + d * t /\ h[j] = x * 10 + d /\ x \in Nat /\ t \in Nat
      BY <2>2, <2>i, <3>2, <3>4, <3>5, <3>6
    <3> HIDE DEF x, d
    <3>8. weight[i] = h[j] * t
      <4> HIDE DEF t
      <4>1. x * (10 * t) + d * t = (x * 10 + d) * t
        BY <3>3, <3>7
      <4> QED BY <3>7, <4>1
    <3> QED BY <3>8 DEF i, j
  <2>6. CASE i # dot /\ ~IsDigit(s[i])
    <3>1. j = 1 /\ first = 2 /\ j \in 1 .. l
      BY <1>3, <1>4, <2>1, <2>6 DEF j
    <3>2. Ahead(s, k) = 0
      BY <1>1, <1>2, <2>1, <2>6, <3>1 DEF j
    <3>3. h[j] = 0 /\ h[0] = 0
      BY <1>5, <3>1
    <3>4. weight[i] = weight[k] + 0 /\ ten(k) = ten(i)
      BY <1>7, <1>8, <1>9, <2>1, <2>6
    <3>5. weight[k] = 0
      BY <2>2, <2>i, <3>2, <3>3, <3>4
    <3>6. weight[i] = h[j] * ten(i)
      BY <2>i, <3>3, <3>4, <3>5
    <3> QED BY <3>6 DEF i, j
  <2> QED BY <2>4, <2>5, <2>6
<1>12. Nat \subseteq T
  <2> HIDE DEF T
  <2> QED BY <1>10, <1>11, SetInduction
<1>13. weight[n] = h[Ahead(s, n)] * ten(n)
  BY <1>1, <1>12
<1>14. Ahead(s, n) = l
  BY <1>1, <1>2
<1>15. ten(n) = 1
  <2>1. {j \in DigitsIn(s) : n < j} = {}
    BY <1>1 DEF DigitsIn, n
  <2>2. DigitsBehind(s, n) = 0
    BY <2>1, FS_EmptySet DEF DigitsBehind
  <2> QED BY <2>2, PowerStep DEF ten
<1>16. h[l] \in Nat
  BY <1>l
<1> QED BY <1>13, <1>14, <1>15, <1>16 DEF n, l, w

(* The weights are added up by a function. *)
WeightLoop(s, g) ==
    [i \in 0 .. Len(s) |->
        IF i = 0 THEN 0
        ELSE g[i - 1] + (IF i \in DigitsIn(s) THEN DigitValue(s[i]) * PowerOfTen(DigitsBehind(s, i)) ELSE 0)]
Weight(s) == CHOOSE g : g = WeightLoop(s, g)

LEMMA WeightExists ==
  ASSUME NEW S, NEW s \in Seq(S)
  PROVE  Weighs(Weight(s), s)
<1> DEFINE n == Len(s)
           Worth(i) == IF i \in DigitsIn(s) THEN DigitValue(s[i]) * PowerOfTen(DigitsBehind(s, i)) ELSE 0
           step == [p \in (Nat \ {0}) \X Nat |-> IF p[1] \in 1 .. n THEN p[2] + Worth(p[1]) ELSE 0]
           z == 0
<1>1. n \in Nat /\ z \in Nat
  BY LenProperties
<1>2. \A i \in 1 .. n : Worth(i) \in Nat
  <2> SUFFICES ASSUME NEW i \in 1 .. n, i \in DigitsIn(s) PROVE DigitValue(s[i]) * PowerOfTen(DigitsBehind(s, i)) \in Nat
    OBVIOUS
  <2> DEFINE d == DigitValue(s[i])
             k == DigitsBehind(s, i)
  <2>1. IsDigit(s[i])
    BY DEF DigitsIn
  <2>2. d \in 0 .. 9
    BY <2>1, DigitWorth
  <2>3. k \in Nat
    BY BehindNext
  <2> HIDE DEF d, k
  <2>4. PowerOfTen(k) \in Nat
    BY <2>3, PowerType
  <2> QED BY <2>2, <2>4 DEF d, k
<1>3. WeightLoop(s, Weight(s)) = [i \in 0 .. n |-> IF i = 0 THEN 0 ELSE Weight(s)[i - 1] + Worth(i)]
      /\ \A g : WeightLoop(s, g) = [i \in 0 .. n |-> IF i = 0 THEN 0 ELSE g[i - 1] + Worth(i)]
  BY DEF WeightLoop
<1>w. (\A i \in 1 .. n : Weight(s)[i] = Weight(s)[i - 1] + Worth(i)) /\ Weight(s)[0] = 0 => Weighs(Weight(s), s)
  BY DEF Weighs
<1> HIDE DEF n, z, Worth
<1>4. \A i \in Nat \ {0}, v \in Nat : step[<<i, v>>] = IF i \in 1 .. n THEN v + Worth(i) ELSE 0
  OBVIOUS
<1> HIDE DEF step
<1>5. StepsWithin(Nat, step)
  <2>1. ASSUME NEW i \in Nat \ {0}, NEW v \in Nat PROVE step[<<i, v>>] \in Nat
    <3>1. CASE i \in 1 .. n
      <4>1. step[<<i, v>>] = v + Worth(i) /\ Worth(i) \in Nat
        BY <1>2, <1>4, <3>1
      <4> QED BY <4>1
    <3>2. CASE i \notin 1 .. n
      BY <1>4, <3>2
    <3> QED BY <3>1, <3>2
  <2> QED BY <2>1 DEF StepsWithin
<1>6. PICK h \in [0 .. n -> Nat] : Unfolds(h, z, step, n)
  BY <1>1, <1>5, RecursionExists
<1>7. \A i \in 0 .. n : h[i] = IF i = 0 THEN 0 ELSE h[i - 1] + Worth(i)
  <2> SUFFICES ASSUME NEW i \in 0 .. n PROVE h[i] = IF i = 0 THEN 0 ELSE h[i - 1] + Worth(i)
    OBVIOUS
  <2>1. CASE i = 0
    BY <1>6, <2>1 DEF Unfolds, z
  <2>2. CASE i # 0
    <3>1. i \in 1 .. n /\ i \in Nat \ {0} /\ i - 1 \in 0 .. n
      BY <1>1, <2>2
    <3>2. h[i - 1] \in Nat /\ h[i] = step[<<i, h[i - 1]>>]
      BY <1>6, <3>1 DEF Unfolds
    <3> QED BY <1>4, <2>2, <3>1, <3>2
  <2> QED BY <2>1, <2>2
<1>8. h = WeightLoop(s, h)
  <2>1. h = [i \in 0 .. n |-> h[i]]
    OBVIOUS
  <2>2. [i \in 0 .. n |-> h[i]] = [i \in 0 .. n |-> IF i = 0 THEN 0 ELSE h[i - 1] + Worth(i)]
    BY <1>7
  <2>3. WeightLoop(s, h) = [i \in 0 .. n |-> IF i = 0 THEN 0 ELSE h[i - 1] + Worth(i)]
    BY <1>3
  <2> HIDE DEF WeightLoop
  <2> QED BY <2>1, <2>2, <2>3
<1>9. Weight(s) = WeightLoop(s, Weight(s))
  BY <1>8 DEF Weight
<1>10. \A i \in 0 .. n : Weight(s)[i] = IF i = 0 THEN 0 ELSE Weight(s)[i - 1] + Worth(i)
  BY <1>3, <1>9
<1>11. (0 \in 0 .. n) /\ \A i \in 1 .. n : i \in 0 .. n /\ i # 0
  BY <1>1
<1> QED BY <1>w, <1>10, <1>11

(* The number a decimal writes, and its nearest at a scale. *)
Number(s) == (IF MinusOf(s) = {} THEN 1 ELSE -1) * Weight(s)[Len(s)]
Exact(s, toScale) ==
    LET up == PlacesIn(s) + toScale
    IN  IF up > 0 THEN NearestInt(Number(s), up) ELSE Number(s) * PowerOfTen(-up)

Stored(exact, to) == IF Fits(exact, to) THEN Ok(exact) ELSE Throw("numeric_out_of_range")
LEMMA TextStored ==
  ASSUME NEW s, NEW n \in Int, NEW to \in {"INT16", "INT32", "INT64"}, NEW toScale \in Int, NEW shift \in Int,
         FromChars(WithoutDot(s), "INT64") = Ok(n), ScaleOfText(s) \in Int, shift = toScale - ScaleOfText(s)
  PROVE  StringToInt(s, to, toScale) = Stored(Scaled(n, shift), to)
BY StringToIntMeans DEF Stored

(* What a text is read as. *)
ReadAs(s, to, toScale, answer) ==
    IF IsDecimal(s) /\ Fits(Number(s), "INT64") /\ Fits(Exact(s, toScale), to)
    THEN answer = Ok(Exact(s, toScale)) ELSE ~answer.ok

LEMMA DecimalsMeant ==
  /\ ReadIsItsDecimal <=> (request.op = "text" => ReadAs(request.s, request.to, request.toScale, outcome))
  /\ ReadIsItsDecimal' <=> (request.op = "text" => ReadAs(request.s, request.to, request.toScale, outcome))'
BY DEF ReadIsItsDecimal, ReadAs, IsDecimal, Number, Exact, PlacesIn, DigitsBehind, PointsOf, MinusOf, DigitsIn, Weight, WeightLoop

(* What setString answers for a text. *)
LEMMA TextIsRead ==
  ASSUME NEW S, NEW s \in Seq(S), NEW to \in {"INT16", "INT32", "INT64"}, NEW toScale \in Int
  PROVE  ReadAs(s, to, toScale, StringToInt(s, to, toScale))
<1> DEFINE w == WithoutDot(s)
           parsed == FromChars(w, "INT64")
           answer == StringToInt(s, to, toScale)
<1>1. \A e : Throw(e).ok = FALSE
  BY DEF Throw
<1>2. parsed = Throw("convert_error") => ~answer.ok
  <2> DEFINE refused == FromChars(WithoutDot(s), "INT64")
  <2>1. StringToInt(s, to, toScale) =
           LET wide == IF refused.ok THEN IntToInt(refused.value, "INT64", ScaleOfText(s), "INT64", toScale) ELSE refused
           IN  IF wide.ok THEN IntToInt(wide.value, "INT64", toScale, to, toScale) ELSE wide
    BY DEF StringToInt
  <2>2. refused = parsed
    OBVIOUS
  <2> HIDE DEF refused, parsed
  <2> QED BY <1>1, <2>1, <2>2
<1>3. IsDecimal(s) <=> WellFormed(w)
  BY DecimalsTaken
<1>4. CASE ~IsDecimal(s)
  <2>1. parsed = Throw("convert_error")
    BY <1>3, <1>4, FromCharsRefuses
  <2> QED BY <1>2, <1>4, <2>1 DEF ReadAs
<1>5. CASE IsDecimal(s)
  <2>0. WellFormed(WithoutDot(s)) /\ w \in Seq(S) /\ Len(w) \in Nat
    BY <1>3, <1>5, WithoutDotMeans, LenProperties
  <2>1. PICK h \in [0 .. Len(w) -> Nat] : Counts(h, w)
    BY <2>0, CountingExists
  <2>2. Weight(s)[Len(s)] = h[Len(w)]
    BY <2>0, <2>1, WeightCounted, WeightExists
  <2>3. h[Len(w)] \in Nat
    BY <2>0, <2>1
  <2>4. Signed(w, h[Len(w)]) = Number(s) /\ Number(s) \in Int
    <3>1. FirstDigit(w) = IF MinusOf(s) = {} THEN 1 ELSE 2
      BY <2>0, SignsAgree
    <3>2. Signed(w, h[Len(w)]) = (IF FirstDigit(w) = 2 THEN -1 ELSE 1) * h[Len(w)]
      BY DEF Signed
    <3>3. Number(s) = (IF MinusOf(s) = {} THEN 1 ELSE -1) * h[Len(w)]
      BY <2>2 DEF Number
    <3> DEFINE c == h[Len(w)]
    <3> HIDE DEF c
    <3>4. (IF MinusOf(s) = {} THEN 1 ELSE -1) = (IF FirstDigit(w) = 2 THEN -1 ELSE 1)
      BY <3>1
    <3>5. Number(s) \in Int
      BY <2>3, <3>3
    <3> QED BY <3>2, <3>3, <3>4, <3>5
  <2>5. parsed = IF Fits(Number(s), "INT64") THEN Ok(Number(s)) ELSE Throw("convert_error")
    BY <2>0, <2>1, <2>4, FromCharsIs
  <2>6. CASE ~Fits(Number(s), "INT64")
    BY <1>2, <2>5, <2>6 DEF ReadAs
  <2>7. CASE Fits(Number(s), "INT64")
    <3>1. PlacesIn(s) \in Nat /\ ScaleOfText(s) = 0 - PlacesIn(s)
      BY <2>0, PlacesAgree
    <3> DEFINE shift == PlacesIn(s) + toScale
               m == Number(s)
    <3>2. shift = toScale - ScaleOfText(s) /\ ScaleOfText(s) \in Int
      BY <3>1
    <3>3. Scaled(m, shift) = Exact(s, toScale)
      BY DEF Scaled, Rounded, NearestInt, Exact
    <3>4. m \in Int /\ FromChars(WithoutDot(s), "INT64") = Ok(m)
      BY <2>4, <2>5, <2>7
    <3>5. answer = Stored(Scaled(m, shift), to)
      <4>1. shift \in Int
        BY <3>1
      <4> HIDE DEF shift, m, w, parsed
      <4> QED BY ONLY <3>2, <3>4, <4>1, TextStored, to \in {"INT16", "INT32", "INT64"}, toScale \in Int
    <3>6. answer = IF Fits(Exact(s, toScale), to) THEN Ok(Exact(s, toScale)) ELSE Throw("numeric_out_of_range")
      <4> HIDE DEF shift, m, answer
      <4> QED BY <3>3, <3>5 DEF Stored
    <3> HIDE DEF answer
    <3>7. IF Fits(Exact(s, toScale), to) THEN answer = Ok(Exact(s, toScale)) ELSE ~answer.ok
      BY <1>1, <3>6
    <3> QED BY <1>5, <2>7, <3>7 DEF answer, ReadAs
  <2> QED BY <2>6, <2>7
<1> QED BY <1>4, <1>5

(* setString stores in an integer column the decimal number a text writes, *)
(* to the nearest at the column's scale, and refuses exactly the texts     *)
(* that write no decimal number or one the column or 64 bits do not hold;  *)
(* and the text getString prints of an integer column of no positive scale *)
(* is read back as the same integer.                                       *)
THEOREM TextMeansItsDecimalHolds == Spec => []TextMeansItsDecimal
<1>1. Init => TextMeansItsDecimal
  BY DEF Init, Idle, TextMeansItsDecimal, ReadIsItsDecimal, PrintedIsRead
<1>2. TextMeansItsDecimal /\ [Next]_vars => TextMeansItsDecimal'
  <2> SUFFICES ASSUME TextMeansItsDecimal, [Next]_vars PROVE TextMeansItsDecimal'
    OBVIOUS
  <2>1. CASE UNCHANGED vars
    <3>1. request' = request /\ outcome' = outcome
      BY <2>1 DEF vars
    <3>2. ReadIsItsDecimal'
      <4>1. request.op = "text" => ReadAs(request.s, request.to, request.toScale, outcome)
        BY DecimalsMeant DEF TextMeansItsDecimal
      <4>2. (request.op = "text" => ReadAs(request.s, request.to, request.toScale, outcome))'
        BY <3>1, <4>1
      <4> QED BY <4>2, DecimalsMeant
    <3>3. PrintedIsRead'
      BY <3>1, Zenon DEF TextMeansItsDecimal, PrintedIsRead
    <3> QED BY <3>2, <3>3 DEF TextMeansItsDecimal
  <2>2. CASE Next
    <3>1. ReadIsItsDecimal'
      <4>1. CASE request'.op = "text"
        <5>1. PICK s \in Texts, to \in {"INT16", "INT64"}, toScale \in {-1, 0} :
                 Answer([op |-> "text", s |-> s, to |-> to, toScale |-> toScale], {StringToInt(s, to, toScale)})
          BY <2>2, <4>1, CallsByTheirOp DEF ReadText
        <5>2. /\ request' = [op |-> "text", s |-> s, to |-> to, toScale |-> toScale]
              /\ outcome' = StringToInt(s, to, toScale)
          BY <5>1 DEF Answer
        <5>3. request'.s = s /\ request'.to = to /\ request'.toScale = toScale
          BY <5>2
        <5>4. s \in Seq(STRING) /\ to \in {"INT16", "INT32", "INT64"} /\ toScale \in Int
          BY ConversionsAssumption
        <5>5. ReadAs(s, to, toScale, outcome')
          BY <5>2, <5>4, TextIsRead
        <5>6. (request.op = "text" => ReadAs(request.s, request.to, request.toScale, outcome))'
          BY <5>3, <5>5
        <5> QED BY <5>6, DecimalsMeant
      <4>2. CASE request'.op # "text"
        BY <4>2 DEF ReadIsItsDecimal
      <4> QED BY <4>1, <4>2
    <3>2. PrintedIsRead'
      <4>1. CASE request'.op = "throughText"
        <5>1. PICK t \in IntTypes \ {"INT128"}, scale \in Scales : \E v \in MinOf(t) .. MaxOf(t) :
                 Answer([op |-> "throughText", v |-> v, scale |-> scale], {StringToInt(NumberToString(v, scale), t, scale)})
          BY <2>2, <4>1, CallsByTheirOp DEF ThroughText
        <5>2. PICK v \in MinOf(t) .. MaxOf(t) :
                 /\ request' = [op |-> "throughText", v |-> v, scale |-> scale]
                 /\ outcome' = StringToInt(NumberToString(v, scale), t, scale)
          BY <5>1 DEF Answer
        <5>3. request'.v = v /\ request'.scale = scale
          BY <5>2
        <5>4. v \in Int /\ scale \in Int /\ t \in {"INT16", "INT32", "INT64"} /\ Fits(v, t)
          BY ConversionsAssumption DEF IntTypes, Fits
        <5>5. scale <= 0 => outcome' = Ok(v)
          BY <5>2, <5>4, PrintedStored
        <5> QED BY <5>3, <5>5 DEF PrintedIsRead
      <4>2. CASE request'.op # "throughText"
        BY <4>2 DEF PrintedIsRead
      <4> QED BY <4>1, <4>2
    <3> QED BY <3>1, <3>2 DEF TextMeansItsDecimal
  <2> QED BY <2>1, <2>2
<1> QED BY <1>1, <1>2, PTL DEF Spec
=============================================================================

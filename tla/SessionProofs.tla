---------------------------- MODULE SessionProofs ----------------------------
(***************************************************************************)
(* A transaction and what is used under it, for any set of databases, any  *)
(* number of objects, results, RowSets, buffers and blobs of any sizes:    *)
(* the transaction's invariant TxInv is inductive, and implies that a      *)
(* prepared transaction is atomic and that none is left active; the rows   *)
(* of a Statement and the bytes of a Blob come in order and complete.      *)
(***************************************************************************)
EXTENDS Session, DataLemmas

-----------------------------------------------------------------------------
(* Blob: bytes, segments and chunks. *)


LEMMA NumberedFacts ==
  ASSUME NEW from \in Nat, NEW count \in Nat
  PROVE  /\ Numbered(from, count) \in Seq(Nat) /\ Len(Numbered(from, count)) = count
         /\ \A i \in 1 .. count : Numbered(from, count)[i] = from + i
<1>1. \A i \in 1 .. count : from + i \in Nat
  OBVIOUS
<1> QED BY <1>1 DEF Numbered

LEMMA NumberedNone == ASSUME NEW from \in Nat PROVE Numbered(from, 0) = <<>>
<1>1. Numbered(from, 0) \in Seq(Nat) /\ Len(Numbered(from, 0)) = 0
  BY NumberedFacts
<1> QED BY <1>1, EmptySeq

LEMMA NumberedConcat ==
  ASSUME NEW from \in Nat, NEW m \in Nat, NEW n \in Nat
  PROVE  Numbered(from, m) \o Numbered(from + m, n) = Numbered(from, m + n)
<1> DEFINE s == Numbered(from, m)
           t == Numbered(from + m, n)
           u == Numbered(from, m + n)
<1>1. s \in Seq(Nat) /\ Len(s) = m /\ \A i \in 1 .. m : s[i] = from + i
  BY NumberedFacts
<1>2. t \in Seq(Nat) /\ Len(t) = n /\ \A i \in 1 .. n : t[i] = from + m + i
  <2>1. from + m \in Nat
    OBVIOUS
  <2> QED BY <2>1, NumberedFacts
<1>3. u \in Seq(Nat) /\ Len(u) = m + n /\ \A i \in 1 .. m + n : u[i] = from + i
  <2>1. m + n \in Nat
    OBVIOUS
  <2> QED BY <2>1, NumberedFacts
<1> HIDE DEF s, t, u
<1>4. /\ s \o t \in Seq(Nat) /\ Len(s \o t) = m + n
      /\ \A i \in 1 .. m + n : (s \o t)[i] = IF i <= m THEN s[i] ELSE t[i - m]
  BY <1>1, <1>2, ConcatProperties
<1>5. ASSUME NEW i \in 1 .. m + n PROVE (s \o t)[i] = u[i]
  <2>1. CASE i <= m
    <3>1. i \in 1 .. m
      BY <2>1
    <3> QED BY <2>1, <3>1, <1>1, <1>3, <1>4
  <2>2. CASE ~(i <= m)
    <3>1. i - m \in 1 .. n /\ from + m + (i - m) = from + i
      BY <2>2
    <3> QED BY <2>2, <3>1, <1>2, <1>3, <1>4
  <2> QED BY <2>1, <2>2
<1>6. s \o t = u
  BY <1>3, <1>4, <1>5, SeqEqual
<1> QED BY <1>6 DEF s, t, u
-----------------------------------------------------------------------------
(* The bytes in the first k chunks of a buffer. *)
Upto(size, k) == IF k * MaxChunk <= size THEN k * MaxChunk ELSE size

LEMMA ChunkArithmetic ==
  ASSUME NEW size \in Nat
  PROVE  /\ ChunkCount(size) \in Nat
         /\ Upto(size, 0) = 0 /\ Upto(size, ChunkCount(size)) = size
         /\ \A k \in 0 .. ChunkCount(size) : Upto(size, k) \in Nat /\ Upto(size, k) <= size
         /\ \A k \in 1 .. ChunkCount(size) :
               /\ (k - 1) * MaxChunk \in Nat /\ Chunk(size, k) \in Nat
               /\ Upto(size, k - 1) = (k - 1) * MaxChunk
               /\ Upto(size, k) = Upto(size, k - 1) + Chunk(size, k)
<1> DEFINE m == MaxChunk
           q == (size + m - 1) \div m
<1>1. m \in Nat \ {0}
  BY BlobAssumption
<1> HIDE DEF m
<1>2. q \in Nat /\ q * m >= size /\ (q - 1) * m < size
  <2>1. q \in Nat /\ q * m >= size
    BY <1>1
  <2>2. (q - 1) * m < size
    BY <1>1
  <2> QED BY <2>1, <2>2
<1>3. ChunkCount(size) = q
  BY DEF ChunkCount, m
<1> HIDE DEF q
<1>4. \A k \in Nat : k * m \in Nat
  BY <1>1
<1>5. 0 * m = 0
  BY <1>1
<1>6. ASSUME NEW k \in 1 .. q
      PROVE  (k - 1) * m \in Nat /\ k * m = (k - 1) * m + m /\ (k - 1) * m < size
  <2>1. k - 1 \in Nat /\ k - 1 <= q - 1 /\ q - 1 \in Nat
    BY <1>2
  <2>2. (k - 1) * m <= (q - 1) * m
    <3>1. \A i, j \in Nat : i <= j => i * m <= j * m
      BY <1>1
    <3> QED BY <2>1, <3>1
  <2>3. (k - 1) * m \in Nat /\ (q - 1) * m \in Nat
    BY <1>4, <2>1
  <2>4. k * m = (k - 1) * m + m
    <3>1. \A i \in Nat : (i + 1) * m = i * m + m
      BY <1>1
    <3>2. (k - 1) + 1 = k
      OBVIOUS
    <3> QED BY <2>1, <3>1, <3>2
  <2> QED BY <1>2, <2>2, <2>3, <2>4
<1>7. ASSUME NEW k \in 1 .. q
      PROVE  /\ (k - 1) * m \in Nat /\ Chunk(size, k) \in Nat
             /\ Upto(size, k - 1) = (k - 1) * m
             /\ Upto(size, k) = Upto(size, k - 1) + Chunk(size, k)
  <2> DEFINE a == (k - 1) * m
             b == k * m
  <2>1. a \in Nat /\ b = a + m /\ a < size
    BY <1>6
  <2>2. Chunk(size, k) = IF a >= size THEN 0 ELSE IF b <= size THEN m ELSE size - a
    BY DEF Chunk, m
  <2>3. Upto(size, k) = IF b <= size THEN b ELSE size
    BY DEF Upto, m
  <2>4. Upto(size, k - 1) = IF a <= size THEN a ELSE size
    BY DEF Upto, m
  <2> HIDE DEF a, b
  <2>5. a \in Nat /\ Chunk(size, k) \in Nat /\ Upto(size, k - 1) = a /\ Upto(size, k) = Upto(size, k - 1) + Chunk(size, k)
    BY <1>1, <2>1, <2>2, <2>3, <2>4
  <2> QED BY <2>5 DEF a
<1>8. Upto(size, 0) = 0 /\ Upto(size, q) = size
  <2>1. q * m \in Nat /\ (q * m <= size => q * m = size)
    BY <1>2, <1>4
  <2> QED BY <1>5, <2>1 DEF Upto, m
<1>9. ASSUME NEW k \in 0 .. q PROVE Upto(size, k) \in Nat /\ Upto(size, k) <= size
  <2>1. k * m \in Nat
    BY <1>4
  <2> QED BY <2>1 DEF Upto, m
<1> QED BY <1>2, <1>3, <1>7, <1>8, <1>9 DEF m

(* Chunks joined are the bytes of the buffer, to the last one stored. *)
LEMMA ChunksJoined ==
  ASSUME NEW size \in Nat, NEW first \in Nat, NEW k \in Nat, k <= ChunkCount(size),
         NEW s \in Seq(Seq(Nat)), Len(s) = k,
         \A i \in 1 .. k : s[i] = Numbered(first + (i - 1) * MaxChunk, Chunk(size, i))
  PROVE  Content(s) = Numbered(first, Upto(size, k))
<1>1. k \in Nat /\ k \in 0 .. k
  OBVIOUS
<1>2. PICK f : Joins(f, Nat, s) /\ FlattenSeq(s) = f[k]
  BY FlattenJoins
<1> DEFINE g == [i \in 0 .. k |-> Numbered(first, Upto(size, i))]
<1>3. g[0] = f[0]
  <2>1. 0 \in 0 .. k
    BY <1>1
  <2>2. g[0] = Numbered(first, 0)
    BY <2>1, ChunkArithmetic
  <2> QED BY <2>2, <1>2, NumberedNone DEF Joins
<1>4. ASSUME NEW i \in 1 .. k PROVE g[i] = g[i - 1] \o s[i]
  <2>1. i \in 0 .. k /\ i - 1 \in 0 .. k /\ i \in 1 .. ChunkCount(size) /\ i - 1 \in 0 .. ChunkCount(size)
    <3>1. ChunkCount(size) \in Nat
      BY ChunkArithmetic
    <3> QED BY <1>1, <3>1
  <2>2. /\ Upto(size, i - 1) \in Nat /\ Chunk(size, i) \in Nat
        /\ Upto(size, i - 1) = (i - 1) * MaxChunk
        /\ Upto(size, i) = Upto(size, i - 1) + Chunk(size, i)
    BY <2>1, ChunkArithmetic
  <2>3. s[i] = Numbered(first + Upto(size, i - 1), Chunk(size, i))
    BY <2>2
  <2>4. Numbered(first, Upto(size, i - 1)) \o s[i] = Numbered(first, Upto(size, i))
    <3> DEFINE a == Upto(size, i - 1)
               b == Chunk(size, i)
    <3>1. a \in Nat /\ b \in Nat /\ s[i] = Numbered(first + a, b) /\ Upto(size, i) = a + b
      BY <2>2, <2>3
    <3> HIDE DEF a, b
    <3>2. Numbered(first, a) \o Numbered(first + a, b) = Numbered(first, a + b)
      BY <3>1, NumberedConcat
    <3> QED BY <3>1, <3>2 DEF a
  <2> QED BY <2>1, <2>4
<1> HIDE DEF g
<1>5. GoTogether(g, f, k)
  BY <1>2, <1>3, <1>4 DEF Joins, GoTogether
<1>6. g[k] = f[k]
  BY <1>5, RecursionAgrees
<1>7. g[k] = Numbered(first, Upto(size, k))
  BY <1>1 DEF g
<1> QED BY <1>2, <1>6, <1>7 DEF Content

LEMMA ChunksFacts ==
  ASSUME NEW size \in Nat, NEW first \in Nat
  PROVE  /\ Chunks(size, first) \in Seq(Seq(Nat)) /\ Len(Chunks(size, first)) = ChunkCount(size)
         /\ Content(Chunks(size, first)) = Numbered(first, size)
         /\ \A k \in 0 .. ChunkCount(size) :
               /\ SubSeq(Chunks(size, first), 1, k) \in Seq(Seq(Nat))
               /\ Len(Content(SubSeq(Chunks(size, first), 1, k))) <= size
<1> DEFINE q == ChunkCount(size)
           s == Chunks(size, first)
           piece(k) == Numbered(first + (k - 1) * MaxChunk, Chunk(size, k))
<1>1. q \in Nat
  BY ChunkArithmetic
<1>2. ASSUME NEW k \in 1 .. q PROVE piece(k) \in Seq(Nat)
  <2>1. (k - 1) * MaxChunk \in Nat /\ Chunk(size, k) \in Nat
    BY ChunkArithmetic
  <2>2. first + (k - 1) * MaxChunk \in Nat
    BY <2>1
  <2> QED BY <2>1, <2>2, NumberedFacts
<1>3. s = [k \in 1 .. q |-> piece(k)]
  BY DEF Chunks
<1> HIDE DEF piece, q, s
<1>4. s \in Seq(Seq(Nat)) /\ Len(s) = q /\ \A k \in 1 .. q : s[k] = piece(k)
  BY <1>1, <1>2, <1>3
<1>5. ASSUME NEW k \in 0 .. q
      PROVE  /\ SubSeq(s, 1, k) \in Seq(Seq(Nat))
             /\ Content(SubSeq(s, 1, k)) = Numbered(first, Upto(size, k))
  <2> DEFINE t == SubSeq(s, 1, k)
  <2>1. t \in Seq(Seq(Nat)) /\ Len(t) = k /\ \A i \in 1 .. k : t[i] = s[i]
    <3>1. 1 \in 1 .. Len(s) + 1 /\ k \in 0 .. Len(s) /\ k - 1 + 1 = k /\ (~(1 <= k) => k = 0)
      BY <1>1, <1>4
    <3>2. /\ t \in Seq(Seq(Nat)) /\ Len(t) = IF 1 <= k THEN k - 1 + 1 ELSE 0
          /\ \A i \in 1 .. k - 1 + 1 : t[i] = s[1 + i - 1]
      BY <1>4, <3>1, SubSeqProperties
    <3>3. \A i \in 1 .. k : 1 + i - 1 = i
      OBVIOUS
    <3> QED BY <3>1, <3>2, <3>3
  <2> HIDE DEF t
  <2>2. \A i \in 1 .. k : t[i] = piece(i)
    <3>1. \A i \in 1 .. k : i \in 1 .. q
      BY <1>1
    <3> QED BY <2>1, <3>1, <1>4
  <2>3. k \in Nat /\ k <= ChunkCount(size)
    BY <1>1 DEF q
  <2>4. Content(t) = Numbered(first, Upto(size, k))
    BY <2>1, <2>2, <2>3, ChunksJoined DEF piece
  <2> QED BY <2>1, <2>4 DEF t
<1>6. SubSeq(s, 1, q) = s
  BY <1>4, SubSeqFull
<1>7. Content(s) = Numbered(first, size)
  <2>1. q \in 0 .. q /\ Upto(size, q) = size
    BY <1>1, ChunkArithmetic DEF q
  <2> QED BY <1>5, <1>6, <2>1
<1>8. ASSUME NEW k \in 0 .. q PROVE Len(Content(SubSeq(s, 1, k))) <= size
  <2>1. Upto(size, k) \in Nat /\ Upto(size, k) <= size
    BY ChunkArithmetic DEF q
  <2> QED BY <1>5, <2>1, NumberedFacts
<1> QED BY <1>4, <1>5, <1>7, <1>8 DEF q, s
-----------------------------------------------------------------------------
Segments == Seq(Seq(Nat))

LEMMA BytesJoin == \A x, y, z \in Seq(Nat) : x \o y \in Seq(Nat) /\ (x \o y) \o z = x \o (y \o z)
<1> DEFINE B == Nat
<1> HIDE DEF B
<1>1. \A x, y, z \in Seq(B) : x \o y \in Seq(B) /\ (x \o y) \o z = x \o (y \o z)
  BY Associative
<1> QED BY <1>1 DEF B

LEMMA ContentType == ASSUME NEW s \in Segments PROVE Content(s) \in Seq(Nat)
  BY FlattenType DEF Segments, Content

LEMMA ContentNone == Content(<<>>) = <<>> /\ <<>> \in Segments
  BY FlattenNone DEF Segments, Content

LEMMA ContentOne ==
  ASSUME NEW b \in Seq(Nat)
  PROVE  <<b>> \in Segments /\ Content(<<b>>) = b
<1>1. Content(<<b>>) = b
  BY FlattenOne DEF Content
<1> QED BY <1>1 DEF Segments

LEMMA ContentConcat ==
  ASSUME NEW s \in Segments, NEW t \in Segments
  PROVE  s \o t \in Segments /\ Content(s \o t) = Content(s) \o Content(t)
<1>1. s \o t \in Segments
  BY ConcatProperties DEF Segments
<1>2. Content(s \o t) = Content(s) \o Content(t)
  BY FlattenConcat DEF Segments, Content
<1> QED BY <1>1, <1>2

(* A segment in front of others. *)
LEMMA InFront ==
  ASSUME NEW b \in Seq(Nat), NEW t \in Segments
  PROVE  /\ <<b>> \o t \in Segments /\ Content(<<b>> \o t) = b \o Content(t)
         /\ HasEmptySegment(<<b>> \o t) <=> b = <<>> \/ HasEmptySegment(t)
<1> DEFINE u == <<b>> \o t
<1>1. u \in Segments /\ Content(u) = b \o Content(t)
  <2> DEFINE one == <<b>>
  <2>1. one \in Segments /\ Content(one) = b
    BY ContentOne
  <2> HIDE DEF one
  <2>2. one \o t \in Segments /\ Content(one \o t) = b \o Content(t)
    BY <2>1, ContentConcat
  <2> QED BY <2>2 DEF one
<1>2. <<b>> \in Seq(Seq(Nat)) /\ t \in Seq(Seq(Nat)) /\ Len(<<b>>) = 1 /\ <<b>>[1] = b
  BY DEF Segments
<1>3. Len(u) = 1 + Len(t) /\ Len(t) \in Nat /\ \A i \in 1 .. 1 + Len(t) : u[i] = IF i <= 1 THEN b ELSE t[i - 1]
  <2>1. /\ Len(u) = Len(<<b>>) + Len(t)
        /\ \A i \in 1 .. Len(<<b>>) + Len(t) : u[i] = IF i <= Len(<<b>>) THEN <<b>>[i] ELSE t[i - Len(<<b>>)]
    BY <1>2, ConcatProperties
  <2>2. Len(t) \in Nat
    BY <1>2, LenProperties
  <2>3. \A i \in 1 .. 1 + Len(t) : i <= 1 => i = 1
    OBVIOUS
  <2> HIDE DEF u
  <2> QED BY <1>2, <2>1, <2>2, <2>3
<1>4. ToSet(t) = {t[i] : i \in 1 .. Len(t)}
  BY <1>2, ElementsByPosition
<1>5. ToSet(u) = {u[i] : i \in 1 .. 1 + Len(t)}
  <2>1. ToSet(u) = {u[i] : i \in 1 .. Len(u)}
    <3>1. u \in Seq(Seq(Nat))
      BY <1>1 DEF Segments
    <3> HIDE DEF u
    <3> QED BY <3>1, ElementsByPosition
  <2> QED BY <1>3, <2>1
<1> HIDE DEF u
<1>6. ToSet(u) = {b} \union ToSet(t)
  <2>1. ASSUME NEW x \in ToSet(u) PROVE x \in {b} \union ToSet(t)
    <3>1. PICK i \in 1 .. 1 + Len(t) : x = u[i]
      BY <1>5, <2>1
    <3>2. i <= 1 \/ i - 1 \in 1 .. Len(t)
      BY <1>3
    <3> QED BY <3>1, <3>2, <1>3, <1>4
  <2>2. b \in ToSet(u)
    <3>1. 1 \in 1 .. 1 + Len(t) /\ 1 <= 1
      BY <1>3
    <3> QED BY <3>1, <1>3, <1>5
  <2>3. ASSUME NEW x \in ToSet(t) PROVE x \in ToSet(u)
    <3>1. PICK i \in 1 .. Len(t) : x = t[i]
      BY <1>4, <2>3
    <3>2. i + 1 \in 1 .. 1 + Len(t) /\ ~(i + 1 <= 1) /\ (i + 1) - 1 = i
      BY <1>3
    <3>3. u[i + 1] = t[i]
      BY <3>2, <1>3
    <3> QED BY <3>1, <3>2, <3>3, <1>5
  <2> QED BY <2>1, <2>2, <2>3
<1>7. HasEmptySegment(u) <=> b = <<>> \/ HasEmptySegment(t)
  BY <1>6 DEF HasEmptySegment
<1> QED BY <1>1, <1>7 DEF u

LEMMA HeadAndTail ==
  ASSUME NEW s \in Segments, s # <<>>
  PROVE  Head(s) \in Seq(Nat) /\ Tail(s) \in Segments /\ s = <<Head(s)>> \o Tail(s)
<1>1. s \in Seq(Seq(Nat)) /\ Len(s) \in Nat /\ Len(s) >= 1
  BY LenProperties, EmptySeq DEF Segments
<1>2. Head(s) = s[1] /\ Head(s) \in Seq(Nat) /\ Tail(s) \in Seq(Seq(Nat)) /\ Tail(s) = SubSeq(s, 2, Len(s))
  <2>1. Head(s) \in Seq(Nat) /\ Tail(s) \in Seq(Seq(Nat)) /\ Head(s) = s[1]
    BY <1>1, HeadTailProperties, ElementOfSeq
  <2>2. Tail(s) = SubSeq(s, 2, Len(s))
    BY <1>1, TailIsSubSeq
  <2> QED BY <2>1, <2>2
<1>3. s = SubSeq(s, 1, Len(s))
  BY <1>1, SubSeqFull
<1>4. SubSeq(s, 1, Len(s)) = <<s[1]>> \o SubSeq(s, 1 + 1, Len(s))
  <2>1. 1 \in 1 .. Len(s) /\ Len(s) \in 1 .. Len(s) /\ 1 <= Len(s)
    BY <1>1
  <2> QED BY <1>1, <2>1, SubSeqRecursiveFirst
<1> QED BY <1>2, <1>3, <1>4 DEF Segments

(* What a read has handed over, and what it left. *)
Handed(segments, a) ==
    /\ a.bytes \in Seq(Nat) /\ a.rest \in Segments
    /\ a.bytes \o Content(a.rest) = Content(segments)
    /\ HasEmptySegment(a.rest) => HasEmptySegment(segments)
Exhausted(segments, a) == Content(a.rest) = <<>> \/ HasEmptySegment(segments)

LEMMA NothingHanded ==
  ASSUME NEW s \in Segments, NEW a, a.bytes = <<>>, a.rest = s
  PROVE  Handed(s, a)
<1>1. <<>> \o Content(s) = Content(s) /\ <<>> \in Seq(Nat)
  BY ContentType, ConcatEmptySeq
<1> QED BY <1>1 DEF Handed

LEMMA SegmentHanded ==
  ASSUME NEW s \in Segments, NEW size \in Nat, NEW a, a = ReadSegmentOf(s, size)
  PROVE  /\ Handed(s, a) /\ Len(a.bytes) <= size
         /\ a.bytes = <<>> /\ size # 0 => Exhausted(s, a)
<1>1. Len(<<>>) = 0 /\ 0 <= size
  OBVIOUS
<1>2. CASE size = 0 \/ s = <<>>
  <2>1. a.bytes = <<>> /\ a.rest = s
    BY <1>2 DEF ReadSegmentOf, GetSegment
  <2>2. size # 0 => Content(a.rest) = <<>>
    BY <1>2, <2>1, ContentNone
  <2> QED BY <1>1, <2>1, <2>2, NothingHanded DEF Exhausted
<1>3. CASE size # 0 /\ s # <<>>
  <2> DEFINE h == Head(s)
             t == Tail(s)
  <2>1. h \in Seq(Nat) /\ t \in Segments /\ s = <<h>> \o t
    BY <1>3, HeadAndTail
  <2>2. a = IF Len(h) <= size THEN [bytes |-> h, rest |-> t]
            ELSE [bytes |-> SubSeq(h, 1, size), rest |-> <<SubSeq(h, size + 1, Len(h))>> \o t]
    BY <1>3 DEF ReadSegmentOf, GetSegment
  <2> HIDE DEF h, t
  <2>3. Content(s) = h \o Content(t) /\ (HasEmptySegment(s) <=> h = <<>> \/ HasEmptySegment(t)) /\ Len(h) \in Nat
    BY <2>1, InFront, LenProperties
  <2>4. CASE Len(h) <= size
    <3>1. a.bytes = h /\ a.rest = t
      BY <2>2, <2>4
    <3> QED BY <2>1, <2>3, <2>4, <3>1 DEF Handed, Exhausted
  <2>5. CASE ~(Len(h) <= size)
    <3> DEFINE b == SubSeq(h, 1, size)
               r == SubSeq(h, size + 1, Len(h))
    <3>1. a.bytes = b /\ a.rest = <<r>> \o t
      BY <2>2, <2>5
    <3>2. b \in Seq(Nat) /\ Len(b) = size
      <4>1. 1 \in 1 .. Len(h) + 1 /\ size \in 0 .. Len(h) /\ 1 <= size /\ size - 1 + 1 = size
        BY <1>3, <2>3, <2>5
      <4>2. b \in Seq(Nat) /\ Len(b) = IF 1 <= size THEN size - 1 + 1 ELSE 0
        BY <2>1, <4>1, SubSeqProperties
      <4> QED BY <4>1, <4>2
    <3>3. r \in Seq(Nat) /\ Len(r) # 0
      <4>1. size + 1 \in 1 .. Len(h) + 1 /\ Len(h) \in 0 .. Len(h) /\ size + 1 <= Len(h) /\ Len(h) - (size + 1) + 1 # 0
        BY <1>3, <2>3, <2>5
      <4>2. r \in Seq(Nat) /\ Len(r) = IF size + 1 <= Len(h) THEN Len(h) - (size + 1) + 1 ELSE 0
        BY <2>1, <4>1, SubSeqProperties
      <4> QED BY <4>1, <4>2
    <3>4. b \o r = h
      <4>1. 1 \in 1 .. Len(h) + 1 /\ size \in 0 .. Len(h) /\ size \in 1 - 1 .. Len(h) /\ Len(h) \in size .. Len(h)
        BY <1>3, <2>3, <2>5
      <4>2. b \o r = SubSeq(h, 1, Len(h))
        BY <2>1, <4>1, ConcatAdjacentSubSeq
      <4> QED BY <2>1, <4>2, SubSeqFull
    <3> HIDE DEF b, r
    <3>5. r # <<>> /\ b # <<>>
      BY <1>1, <1>3, <3>2, <3>3
    <3>6. /\ <<r>> \o t \in Segments /\ Content(<<r>> \o t) = r \o Content(t)
          /\ HasEmptySegment(<<r>> \o t) => HasEmptySegment(t)
      BY <2>1, <3>3, <3>5, InFront
    <3>7. b \o (r \o Content(t)) = h \o Content(t)
      <4> DEFINE c == Content(t)
      <4>1. c \in Seq(Nat)
        BY <2>1, ContentType
      <4> HIDE DEF c
      <4>2. (b \o r) \o c = b \o (r \o c)
        BY <3>2, <3>3, <4>1, BytesJoin
      <4> QED BY <3>4, <4>2 DEF c
    <3>8. Handed(s, a)
      BY <2>3, <3>1, <3>2, <3>6, <3>7 DEF Handed
    <3>9. Len(a.bytes) <= size /\ a.bytes # <<>>
      BY <3>1, <3>2, <3>5
    <3> QED BY <3>8, <3>9
  <2> QED BY <2>4, <2>5
<1> QED BY <1>2, <1>3

(* read(), chunk after chunk. *)
ReadStart(s, size) == [bytes |-> <<>>, rest |-> s, done |-> size = 0]
ReadStep(size, before) ==
    LET chunk(left) == IF left < MaxChunk THEN left ELSE MaxChunk
        left == size - Len(before.bytes)
        now == ReadSegmentOf(before.rest, chunk(left))
    IN  IF before.done THEN before
        ELSE [bytes |-> before.bytes \o now.bytes, rest |-> now.rest,
              done |-> now.bytes = <<>> \/ Len(now.bytes) = left]

(* What holds after every chunk. *)
Going(s, size) ==
    {v \in [bytes : Seq(Nat), rest : Segments, done : BOOLEAN] :
        /\ Handed(s, v) /\ Len(v.bytes) <= size
        /\ IF v.done THEN Len(v.bytes) = size \/ Exhausted(s, v) ELSE Len(v.bytes) < size}

LEMMA StartGoing ==
  ASSUME NEW s \in Segments, NEW size \in Nat
  PROVE  ReadStart(s, size) \in Going(s, size)
<1> DEFINE v == ReadStart(s, size)
<1>1. v \in [bytes : Seq(Nat), rest : Segments, done : BOOLEAN] /\ v.bytes = <<>> /\ v.rest = s /\ v.done = (size = 0)
  BY DEF ReadStart
<1> HIDE DEF v
<1>2. Len(v.bytes) = 0
  BY <1>1
<1>3. Handed(s, v)
  BY <1>1, NothingHanded
<1>4. v \in Going(s, size)
  BY <1>1, <1>2, <1>3 DEF Going
<1> QED BY <1>4 DEF v

LEMMA StepGoing ==
  ASSUME NEW s \in Segments, NEW size \in Nat, NEW v \in Going(s, size)
  PROVE  /\ ReadStep(size, v) \in Going(s, size)
         /\ ReadStep(size, v).done \/ Len(ReadStep(size, v).bytes) > Len(v.bytes)
<1> DEFINE w == ReadStep(size, v)
           left == size - Len(v.bytes)
           chunk == IF left < MaxChunk THEN left ELSE MaxChunk
           now == ReadSegmentOf(v.rest, chunk)
<1>1. /\ v.bytes \in Seq(Nat) /\ v.rest \in Segments /\ v.done \in BOOLEAN /\ Len(v.bytes) \in Nat
      /\ Handed(s, v) /\ Len(v.bytes) <= size /\ (~v.done => Len(v.bytes) < size)
  BY LenProperties DEF Going
<1>2. CASE v.done
  <2>1. w = v
    BY <1>2 DEF ReadStep
  <2> HIDE DEF w
  <2>2. w \in Going(s, size) /\ w.done
    BY <1>2, <2>1
  <2> QED BY <2>2 DEF w
<1>3. CASE ~v.done
  <2>1. left \in Nat /\ left # 0 /\ chunk \in Nat /\ chunk # 0 /\ chunk <= left /\ Len(v.bytes) + left = size
    <3> DEFINE k == Len(v.bytes)
    <3>1. k \in Nat /\ k <= size /\ k < size /\ MaxChunk \in Nat \ {0}
      BY <1>1, <1>3, BlobAssumption
    <3>2. left = size - k /\ chunk = IF left < MaxChunk THEN left ELSE MaxChunk
      OBVIOUS
    <3> HIDE DEF k, left, chunk
    <3>3. left \in Nat /\ left # 0 /\ chunk \in Nat /\ chunk # 0 /\ chunk <= left /\ k + left = size
      BY <3>1, <3>2
    <3> QED BY <3>3 DEF k
  <2>2. w = [bytes |-> v.bytes \o now.bytes, rest |-> now.rest, done |-> now.bytes = <<>> \/ Len(now.bytes) = left]
    BY <1>3 DEF ReadStep
  <2> HIDE DEF w, left, chunk, now
  <2>3. /\ Handed(v.rest, now) /\ Len(now.bytes) <= chunk
        /\ now.bytes = <<>> => Exhausted(v.rest, now)
    BY <1>1, <2>1, SegmentHanded DEF now
  <2>4. /\ w.bytes = v.bytes \o now.bytes /\ w.rest = now.rest
        /\ w.done = (now.bytes = <<>> \/ Len(now.bytes) = left)
        /\ w = [bytes |-> w.bytes, rest |-> w.rest, done |-> w.done]
    BY <2>2
  <2>5. now.bytes \in Seq(Nat) /\ now.rest \in Segments /\ Len(now.bytes) \in Nat
    BY <2>3, LenProperties DEF Handed
  <2>6. w.bytes \in Seq(Nat) /\ Len(w.bytes) = Len(v.bytes) + Len(now.bytes)
    <3> DEFINE x == v.bytes
               y == now.bytes
    <3>1. x \in Seq(Nat) /\ y \in Seq(Nat) /\ w.bytes = x \o y
      BY <1>1, <2>4, <2>5
    <3> HIDE DEF x, y
    <3>2. x \o y \in Seq(Nat) /\ Len(x \o y) = Len(x) + Len(y)
      BY <3>1, ConcatProperties
    <3> QED BY <3>1, <3>2 DEF x, y
  <2>7. w.bytes \o Content(w.rest) = Content(s)
    <3>1. Content(now.rest) \in Seq(Nat)
      BY <2>5, ContentType
    <3>2. (v.bytes \o now.bytes) \o Content(now.rest) = v.bytes \o (now.bytes \o Content(now.rest))
      BY <1>1, <2>5, <3>1, BytesJoin
    <3>3. now.bytes \o Content(now.rest) = Content(v.rest) /\ v.bytes \o Content(v.rest) = Content(s)
      BY <1>1, <2>3 DEF Handed
    <3> QED BY <2>4, <3>2, <3>3
  <2>8. HasEmptySegment(v.rest) => HasEmptySegment(s)
    BY <1>1 DEF Handed
  <2>9. Handed(s, w)
    BY <2>3, <2>4, <2>5, <2>6, <2>7, <2>8 DEF Handed
  <2>10. Len(w.bytes) <= size
    <3> DEFINE k == Len(v.bytes)
               l == Len(now.bytes)
    <3>1. k \in Nat /\ l \in Nat /\ l <= chunk /\ Len(w.bytes) = k + l
      BY <1>1, <2>3, <2>5, <2>6
    <3>2. left \in Nat /\ chunk \in Nat /\ chunk <= left /\ k + left = size
      BY <2>1
    <3> HIDE DEF k, l
    <3> QED BY <3>1, <3>2
  <2>11. ASSUME w.done PROVE Len(w.bytes) = size \/ Exhausted(s, w)
    <3>1. CASE now.bytes = <<>>
      BY <3>1, <2>3, <2>4, <2>8 DEF Exhausted
    <3>2. CASE Len(now.bytes) = left
      BY <3>2, <2>1, <2>6
    <3> QED BY <2>4, <2>11, <3>1, <3>2
  <2>12. ASSUME ~w.done PROVE Len(w.bytes) < size /\ Len(w.bytes) > Len(v.bytes)
    <3>1. now.bytes # <<>> /\ Len(now.bytes) # left
      BY <2>4, <2>12
    <3>2. Len(now.bytes) # 0
      BY <3>1, <2>5, EmptySeq
    <3> DEFINE k == Len(v.bytes)
               l == Len(now.bytes)
    <3>3. k \in Nat /\ l \in Nat /\ l # 0 /\ l <= chunk /\ Len(w.bytes) = k + l /\ l # left
      BY <3>1, <3>2, <1>1, <2>3, <2>5, <2>6
    <3>4. left \in Nat /\ chunk \in Nat /\ chunk <= left /\ k + left = size
      BY <2>1
    <3> HIDE DEF k, l
    <3>5. Len(w.bytes) < size /\ Len(w.bytes) > k
      BY <3>3, <3>4
    <3> QED BY <3>5 DEF k
  <2>13. w.done \in BOOLEAN
    BY <2>4
  <2>14. w \in [bytes : Seq(Nat), rest : Segments, done : BOOLEAN]
    BY <2>4, <2>5, <2>6, <2>13
  <2>15. w \in Going(s, size)
    BY <2>9, <2>10, <2>11, <2>12, <2>14 DEF Going
  <2>16. w.done \/ Len(w.bytes) > Len(v.bytes)
    BY <2>12
  <2> QED BY <2>15, <2>16 DEF w
<1> QED BY <1>1, <1>2, <1>3

(* However many chunks it takes, read() hands over the bytes as they lie   *)
(* in the blob, and stops short only at its end or at an empty segment.    *)
LEMMA ReadHanded ==
  ASSUME NEW s \in Segments, NEW size \in Nat, NEW a, a = ReadFrom(s, size)
  PROVE  /\ Handed(s, a) /\ Len(a.bytes) <= size
         /\ Len(a.bytes) < size => Exhausted(s, a)
<1> DEFINE V == Going(s, size)
           start0 == ReadStart(s, size)
           Loop(f) ==
             [n \in 0 .. size |->
                IF n = 0 THEN [bytes |-> <<>>, rest |-> s, done |-> size = 0]
                ELSE LET chunk(left) == IF left < MaxChunk THEN left ELSE MaxChunk
                         before == f[n - 1]
                         left == size - Len(before.bytes)
                         now == ReadSegmentOf(before.rest, chunk(left))
                     IN  IF before.done THEN before
                         ELSE [bytes |-> before.bytes \o now.bytes, rest |-> now.rest,
                               done |-> now.bytes = <<>> \/ Len(now.bytes) = left]]
           step == [p \in (Nat \ {0}) \X V |-> ReadStep(size, p[2])]
           after == CHOOSE f : f = Loop(f)
<1>1. start0 \in V /\ \A v \in V : ReadStep(size, v) \in V
  BY StartGoing, StepGoing
<1>2. ASSUME NEW g
      PROVE  g = Loop(g) <=> g = [n \in 0 .. size |-> IF n = 0 THEN start0 ELSE ReadStep(size, g[n - 1])]
  <2>1. Loop(g) = [n \in 0 .. size |-> IF n = 0 THEN start0 ELSE ReadStep(size, g[n - 1])]
    BY DEF ReadStart, ReadStep
  <2> HIDE DEF Loop, step, after
  <2> QED BY <2>1
<1>3. a = after[size]
  BY DEF ReadFrom
<1> HIDE DEF Loop, V, start0
<1>4. StepsWithin(V, step) /\ \A n \in Nat \ {0} : \A v \in V : step[<<n, v>>] = ReadStep(size, v)
  BY <1>1 DEF StepsWithin
<1> HIDE DEF step
<1>5. PICK f : f \in [0 .. size -> V] /\ Unfolds(f, start0, step, size)
  <2> HIDE DEF after
  <2> QED BY <1>1, <1>4, RecursionExists
<1>6. \A n \in 1 .. size : n - 1 \in 0 .. size /\ n \in Nat \ {0}
  OBVIOUS
<1>7. f[0] = start0 /\ \A n \in 1 .. size : f[n] = ReadStep(size, f[n - 1])
  BY <1>4, <1>5, <1>6 DEF Unfolds
<1>8. f = [n \in 0 .. size |-> IF n = 0 THEN start0 ELSE ReadStep(size, f[n - 1])]
  <2>1. ASSUME NEW n \in 0 .. size PROVE f[n] = IF n = 0 THEN start0 ELSE ReadStep(size, f[n - 1])
    <3>1. n # 0 => n \in 1 .. size
      OBVIOUS
    <3> QED BY <3>1, <1>7
  <2> QED BY <2>1, <1>5
<1>9. after = [n \in 0 .. size |-> IF n = 0 THEN start0 ELSE ReadStep(size, after[n - 1])]
  <2>1. after = Loop(after)
    BY <1>2, <1>8
  <2> HIDE DEF after
  <2> QED BY <2>1, <1>2
<1> HIDE DEF after
<1>10. after[0] = start0 /\ \A n \in 1 .. size : after[n] = ReadStep(size, after[n - 1])
  <2>1. 0 \in 0 .. size /\ \A n \in 1 .. size : n \in 0 .. size /\ n # 0
    OBVIOUS
  <2> QED BY <1>9, <2>1
<1> DEFINE S == {n \in Nat : n \in 0 .. size =>
                    after[n] \in V /\ (after[n].done \/ Len(after[n].bytes) >= n)}
<1>11. \A v \in V : Len(v.bytes) \in Nat /\ Len(v.bytes) <= size
  BY LenProperties DEF V, Going
<1>12. 0 \in S
  BY <1>1, <1>10, <1>11
<1>13. ASSUME NEW n \in Nat, n \in S PROVE n + 1 \in S
  <2> SUFFICES ASSUME n + 1 \in 0 .. size
               PROVE  after[n + 1] \in V /\ (after[n + 1].done \/ Len(after[n + 1].bytes) >= n + 1)
    OBVIOUS
  <2>1. n \in 0 .. size /\ n + 1 \in 1 .. size /\ (n + 1) - 1 = n
    OBVIOUS
  <2>2. after[n] \in V /\ (after[n].done \/ Len(after[n].bytes) >= n)
    BY <1>13, <2>1
  <2>3. after[n + 1] = ReadStep(size, after[n])
    BY <1>10, <2>1
  <2> DEFINE v == after[n]
             w == after[n + 1]
  <2>4. w \in V /\ (w.done \/ Len(w.bytes) > Len(v.bytes))
    BY <2>2, <2>3, StepGoing DEF V
  <2>5. v.done => w = v
    BY <2>3 DEF ReadStep
  <2>6. Len(v.bytes) \in Nat /\ Len(w.bytes) \in Nat
    BY <1>11, <2>2, <2>4
  <2> HIDE DEF v, w
  <2>7. (v.done \/ Len(v.bytes) >= n) => (w.done \/ Len(w.bytes) >= n + 1)
    BY <2>4, <2>5, <2>6
  <2> QED BY <2>2, <2>4, <2>7 DEF v, w
<1>14. Nat \subseteq S
  <2> HIDE DEF S
  <2> QED BY <1>12, <1>13, SetInduction
<1>15. a \in V /\ (a.done \/ Len(a.bytes) >= size)
  BY <1>3, <1>14
<1>16. Len(a.bytes) \in Nat
  BY <1>11, <1>15
<1> QED BY <1>15, <1>16 DEF V, Going
-----------------------------------------------------------------------------
(* What the calls of the Blob keep. *)
Reader ==
    blob.mode = "read" =>
        /\ given = Len(Content(stored)) /\ start <= given
        /\ HasEmptySegment(place) => HasEmptySegment(stored)
        /\ taken \o Content(place) = SubSeq(Content(stored), start + 1, given)
        /\ (last.got < last.asked /\ ~last.single) => Content(place) = <<>> \/ HasEmptySegment(stored)
Writer == blob.mode = "write" => Content(stored) = Numbered(0, given)
BlobInv ==
    /\ BlobTypes /\ (blob.handle => blob.exists) /\ (blob.open => blob.handle)
    /\ Len(Content(stored)) <= MaxBytes
    /\ Reader /\ Writer

(* What is taken off the front of the rest is what lies there. *)
LEMMA TakenInOrder ==
  ASSUME NEW c \in Seq(Nat), NEW from \in Nat, from <= Len(c), NEW t \in Seq(Nat), NEW r \in Seq(Nat),
         t \o r = SubSeq(c, from + 1, Len(c))
  PROVE  t = SubSeq(c, from + 1, from + Len(t))
<1> DEFINE u == SubSeq(c, from + 1, Len(c))
           v == SubSeq(c, from + 1, from + Len(t))
           l == Len(c)
           k == Len(t)
           n == Len(r)
<1>1. l \in Nat /\ k \in Nat /\ n \in Nat /\ from <= l
  BY LenProperties
<1>2. u = t \o r
  OBVIOUS
<1>3. Len(u) = k + n /\ \A i \in 1 .. k + n : u[i] = IF i <= k THEN t[i] ELSE r[i - k]
  <2> HIDE DEF u
  <2> QED BY <1>2, ConcatProperties
<1>4. Len(u) = (IF from + 1 <= l THEN l - (from + 1) + 1 ELSE 0) /\ \A i \in 1 .. l - (from + 1) + 1 : u[i] = c[from + 1 + i - 1]
  <2>1. from + 1 \in 1 .. Len(c) + 1 /\ Len(c) \in 0 .. Len(c)
    BY <1>1
  <2> QED BY <2>1, PartOf
<1>5. k + n = l - from
  <2> HIDE DEF u, k, n, l
  <2> QED BY <1>1, <1>3, <1>4
<1>6. v \in Seq(Nat) /\ Len(v) = k /\ \A i \in 1 .. k : v[i] = c[from + 1 + i - 1]
  <2>1. from + 1 \in 1 .. Len(c) + 1 /\ from + k \in 0 .. Len(c)
    <3> HIDE DEF k, n
    <3> QED BY <1>1, <1>5
  <2>2. /\ v \in Seq(Nat) /\ Len(v) = IF from + 1 <= from + k THEN from + k - (from + 1) + 1 ELSE 0
        /\ \A i \in 1 .. from + k - (from + 1) + 1 : v[i] = c[from + 1 + i - 1]
    <3> DEFINE a == from + 1
               b == from + k
    <3>1. a \in 1 .. Len(c) + 1 /\ b \in 0 .. Len(c)
      BY <2>1
    <3> HIDE DEF a, b, k, n, l, u, v
    <3>2. /\ SubSeq(c, a, b) \in Seq(Nat) /\ Len(SubSeq(c, a, b)) = IF a <= b THEN b - a + 1 ELSE 0
          /\ \A i \in 1 .. b - a + 1 : SubSeq(c, a, b)[i] = c[a + i - 1]
      BY <3>1, PartOf
    <3> QED BY <3>2 DEF a, b, v, k
  <2> HIDE DEF v, k, n, l
  <2>3. from + k - (from + 1) + 1 = k /\ (~(from + 1 <= from + k) => k = 0)
    BY <1>1
  <2> QED BY <2>2, <2>3
<1> HIDE DEF u, v
<1>7. ASSUME NEW i \in 1 .. k PROVE t[i] = v[i]
  <2>1. i \in 1 .. k + n /\ i \in 1 .. l - (from + 1) + 1 /\ i <= k
    <3> HIDE DEF k, n, l
    <3> QED BY <1>1, <1>5
  <2> QED BY <2>1, <1>3, <1>4, <1>6
<1>8. t = v
  BY <1>6, <1>7, SeqEqual
<1> QED BY <1>8 DEF v

LEMMA Bounds == MaxBytes \in Nat /\ BufferSizes \subseteq Nat
  BY BlobAssumption

LEMMA BlobInvFacts ==
  ASSUME BlobInv
  PROVE  /\ stored \in Segments /\ place \in Segments /\ taken \in Seq(Nat)
         /\ given \in Nat /\ given <= MaxBytes /\ start \in Nat /\ start <= MaxBytes
<1>1. given \in 0 .. MaxBytes /\ start \in 0 .. MaxBytes
  BY DEF BlobInv, BlobTypes
<1>2. given \in Nat /\ given <= MaxBytes /\ start \in Nat /\ start <= MaxBytes
  BY <1>1, Bounds
<1>3. stored \in Segments /\ place \in Segments /\ taken \in Seq(Nat)
  BY DEF BlobInv, BlobTypes, Segments
<1> QED BY <1>2, <1>3

LEMMA BlobInvMeans == BlobInv => BlobTypeOK /\ BytesConserved
<1> SUFFICES ASSUME BlobInv PROVE BlobTypeOK /\ BytesConserved
  OBVIOUS
<1>1. BlobTypeOK
  BY DEF BlobInv, Reader, BlobTypeOK
<1>2. ASSUME blob.mode = "read" PROVE taken = SubSeq(Content(stored), start + 1, start + Len(taken))
  <2> DEFINE c == Content(stored)
             r == Content(place)
  <2>1. c \in Seq(Nat) /\ r \in Seq(Nat) /\ start \in Nat /\ start <= Len(c) /\ taken \in Seq(Nat)
    <3>1. stored \in Segments /\ place \in Segments /\ taken \in Seq(Nat) /\ start \in Nat
      BY BlobInvFacts
    <3>2. start <= Len(c)
      BY <1>2 DEF BlobInv, Reader
    <3> QED BY <3>1, <3>2, ContentType
  <2>2. taken \o r = SubSeq(c, start + 1, Len(c))
    BY <1>2 DEF BlobInv, Reader
  <2> HIDE DEF c, r
  <2>3. taken = SubSeq(c, start + 1, start + Len(taken))
    BY <2>1, <2>2, TakenInOrder
  <2> QED BY <2>3 DEF c
<1>3. BytesConserved
  BY <1>2 DEF BlobInv, Reader, Writer, BytesConserved
<1> QED BY <1>1, <1>3

LEMMA EmptyBlob == Content(<<>>) = Numbered(0, 0) /\ Len(Content(<<>>)) = 0 /\ 0 <= MaxBytes /\ 0 \in 0 .. MaxBytes
<1>1. Content(<<>>) = <<>> /\ Numbered(0, 0) = <<>>
  <2>1. 0 \in Nat
    OBVIOUS
  <2> QED BY <2>1, ContentNone, NumberedNone
<1>2. Len(<<>>) = 0
  OBVIOUS
<1>3. 0 <= MaxBytes /\ 0 \in 0 .. MaxBytes
  BY BlobAssumption
<1> QED BY <1>1, <1>2, <1>3

LEMMA NoReadType == NoRead \in [asked : Nat, got : Nat, single : BOOLEAN] /\ ~(NoRead.got < NoRead.asked)
  BY DEF NoRead

LEMMA BlobStart == BlobInit => BlobInv
<1> SUFFICES ASSUME BlobInit PROVE BlobInv
  OBVIOUS
<1>1. BlobTypes
  BY EmptyBlob, NoReadType DEF BlobInit, BlobTypes, NoBlob
<1>2. Len(Content(stored)) <= MaxBytes
  BY EmptyBlob DEF BlobInit
<1> QED BY <1>1, <1>2 DEF BlobInit, BlobInv, NoBlob, Reader, Writer

LEMMA CreateKeeps == ASSUME BlobInv, CreateBlob PROVE BlobInv'
<1>1. BlobTypes'
  <2>1. blob' \in [exists : BOOLEAN, handle : BOOLEAN, open : BOOLEAN, mode : {"none", "write", "failed", "read", "read failed"}]
    BY DEF CreateBlob
  <2>2. stored' \in Seq(Seq(Nat)) /\ given' \in 0 .. MaxBytes
    BY EmptyBlob DEF CreateBlob
  <2>3. UNCHANGED <<place, taken, start, last>>
    BY DEF CreateBlob
  <2> QED BY <2>1, <2>2, <2>3 DEF BlobInv, BlobTypes
<1>2. (Len(Content(stored)) <= MaxBytes)'
  BY EmptyBlob DEF CreateBlob
<1>3. blob'.exists /\ blob'.handle /\ blob'.mode = "write"
  BY DEF CreateBlob
<1>4. Reader' /\ Writer'
  BY <1>3, EmptyBlob DEF CreateBlob, Reader, Writer
<1> QED BY <1>1, <1>2, <1>3, <1>4 DEF BlobInv

LEMMA OpenKeeps == ASSUME BlobInv, OpenBlob PROVE BlobInv'
<1>1. stored' \in Segments /\ Len(Content(stored')) <= MaxBytes
  BY BlobAssumption DEF BlobInv, BlobTypes, OpenBlob, Segments
<1> DEFINE c == Content(stored')
<1>2. c \in Seq(Nat) /\ Len(c) \in Nat
  BY <1>1, ContentType, LenProperties
<1>3. blob'.exists /\ blob'.handle /\ blob'.mode = "read"
  BY DEF OpenBlob
<1>4. given' = Len(c) /\ place' = stored' /\ taken' = <<>> /\ start' = 0 /\ last' = NoRead
  BY DEF OpenBlob
<1>5. Len(c) \in 0 .. MaxBytes /\ 0 <= Len(c) /\ 0 + 1 = 1
  BY <1>1, <1>2, BlobAssumption
<1>6. BlobTypes'
  BY <1>1, <1>4, <1>5, EmptyBlob, NoReadType DEF BlobTypes, OpenBlob, Segments
<1>7. <<>> \o c = SubSeq(c, 1, Len(c))
  <2> HIDE DEF c
  <2> QED BY <1>2, ConcatEmptySeq, SubSeqFull
<1> HIDE DEF c
<1>8. Reader' /\ Writer'
  BY <1>3, <1>4, <1>5, <1>7, NoReadType DEF Reader, Writer, c
<1> QED BY <1>1, <1>3, <1>6, <1>8 DEF BlobInv

LEMMA NumberedFromStart ==
  ASSUME NEW m \in Nat, NEW n \in Nat
  PROVE  Numbered(0, m) \o Numbered(m, n) = Numbered(0, m + n)
<1> DEFINE z == 0
<1>1. z \in Nat /\ z + m = m
  OBVIOUS
<1> HIDE DEF z
<1>2. Numbered(z, m) \o Numbered(z + m, n) = Numbered(z, m + n)
  BY <1>1, NumberedConcat
<1>3. Numbered(z, m) \o Numbered(m, n) = Numbered(z, m + n)
  BY <1>1, <1>2
<1> QED BY <1>3 DEF z

(* Bytes are written behind those that are there: s holds the next ones. *)
LEMMA WrittenBehind ==
  ASSUME BlobInv, writing, NEW size \in BufferSizes, given + size <= MaxBytes,
         NEW s \in Segments, Content(s) = Numbered(given, size),
         stored' = stored \o s, given' = given + size, UNCHANGED <<blob, place, taken, start, last>>
  PROVE  BlobInv'
<1>1. size \in Nat /\ given \in Nat /\ given + size \in 0 .. MaxBytes /\ given + size \in Nat
  BY Bounds, BlobInvFacts
<1>2. stored \in Segments /\ Content(stored) = Numbered(0, given) /\ blob.mode = "write"
  BY DEF BlobInv, BlobTypes, Writer, writing, Segments
<1>3. stored' \in Segments /\ Content(stored') = Numbered(0, given) \o Numbered(given, size)
  BY <1>2, ContentConcat
<1>4. Numbered(0, given) \o Numbered(given, size) = Numbered(0, given + size)
  BY <1>1, NumberedFromStart
<1>5. Content(stored') = Numbered(0, given') /\ Len(Content(stored')) <= MaxBytes
  <2>1. Len(Numbered(0, given + size)) = given + size
    <3>1. 0 \in Nat
      OBVIOUS
    <3> QED BY <1>1, <3>1, NumberedFacts
  <2> QED BY <1>3, <1>4, <2>1
<1>6. BlobTypes'
  BY <1>1, <1>3 DEF BlobInv, BlobTypes, Segments
<1>7. Reader' /\ Writer'
  BY <1>2, <1>5 DEF Reader, Writer
<1> QED BY <1>5, <1>6, <1>7 DEF BlobInv

LEMMA WriteKeeps == ASSUME BlobInv, write PROVE BlobInv'
<1>1. PICK size \in BufferSizes :
         given + size <= MaxBytes /\ stored' = stored \o Chunks(size, given) /\ given' = given + size
  BY DEF write
<1>2. writing /\ UNCHANGED <<blob, place, taken, start, last>>
  BY DEF write
<1>3. size \in Nat /\ given \in Nat
  BY Bounds, BlobInvFacts
<1>4. Chunks(size, given) \in Segments /\ Content(Chunks(size, given)) = Numbered(given, size)
  BY <1>3, ChunksFacts DEF Segments
<1> QED BY <1>1, <1>2, <1>4, WrittenBehind

LEMMA WriteSegmentKeeps == ASSUME BlobInv, writeSegment PROVE BlobInv'
<1>1. PICK size \in BufferSizes :
         /\ given + size <= MaxBytes /\ given' = given + size
         /\ stored' = IF size = 0 THEN stored ELSE Append(stored, Numbered(given, size))
  BY DEF writeSegment
<1>2. writing /\ UNCHANGED <<blob, place, taken, start, last>>
  BY DEF writeSegment
<1>3. size \in Nat /\ given \in Nat /\ stored \in Segments
  BY Bounds, BlobInvFacts
<1> DEFINE s == IF size = 0 THEN <<>> ELSE <<Numbered(given, size)>>
<1>4. s \in Segments /\ Content(s) = Numbered(given, size) /\ stored' = stored \o s
  <2>1. CASE size = 0
    <3>1. stored \o <<>> = stored
      BY <1>3, ConcatEmptySeq DEF Segments
    <3> QED BY <1>1, <1>3, <2>1, <3>1, ContentNone, NumberedNone
  <2>2. CASE size # 0
    <3> DEFINE b == Numbered(given, size)
    <3>1. b \in Seq(Nat)
      BY <1>3, NumberedFacts
    <3> HIDE DEF b
    <3>2. Append(stored, b) = stored \o <<b>>
      BY <1>3, <3>1, AppendIsConcat DEF Segments
    <3>3. <<b>> \in Segments /\ Content(<<b>>) = b
      BY <3>1, ContentOne
    <3>4. s = <<b>> /\ stored' = Append(stored, b)
      BY <1>1, <2>2 DEF b
    <3> QED BY <3>2, <3>3, <3>4 DEF b
  <2> QED BY <2>1, <2>2
<1> HIDE DEF s
<1> QED BY <1>1, <1>2, <1>4, WrittenBehind

LEMMA WriteRefusedKeeps == ASSUME BlobInv, WriteRefused PROVE BlobInv'
<1>0. PICK size \in BufferSizes : \E k \in 0 .. ChunkCount(size) - 1 :
         given + size <= MaxBytes /\ stored' = stored \o SubSeq(Chunks(size, given), 1, k)
  BY DEF WriteRefused
<1>1. PICK k \in 0 .. ChunkCount(size) - 1 :
         given + size <= MaxBytes /\ stored' = stored \o SubSeq(Chunks(size, given), 1, k)
  BY <1>0
<1>2. writing /\ blob' = [blob EXCEPT !.mode = "failed"] /\ UNCHANGED <<given, place, taken, start, last>>
  BY DEF WriteRefused
<1>3. size \in Nat /\ given \in Nat /\ stored \in Segments /\ MaxBytes \in Nat
  BY Bounds, BlobInvFacts
<1>4. k \in 0 .. ChunkCount(size)
  BY <1>3, ChunkArithmetic
<1> DEFINE s == SubSeq(Chunks(size, given), 1, k)
<1>5. s \in Segments /\ Len(Content(s)) <= size
  BY <1>3, <1>4, ChunksFacts DEF Segments
<1> HIDE DEF s
<1>6. stored' = stored \o s
  BY <1>1 DEF s
<1>7. stored' \in Segments /\ Content(stored') = Content(stored) \o Content(s)
  BY <1>3, <1>5, <1>6, ContentConcat
<1>8. Len(Content(stored)) = given
  <2>1. Content(stored) = Numbered(0, given)
    BY <1>2 DEF BlobInv, Writer, writing
  <2>2. 0 \in Nat
    OBVIOUS
  <2> QED BY <1>3, <2>1, <2>2, NumberedFacts
<1>9. Len(Content(stored')) <= MaxBytes
  <2> DEFINE x == Content(stored)
             y == Content(s)
  <2>1. x \in Seq(Nat) /\ y \in Seq(Nat)
    BY <1>3, <1>5, ContentType
  <2> HIDE DEF x, y
  <2>2. Len(x \o y) = Len(x) + Len(y) /\ Len(y) \in Nat
    BY <2>1, ConcatProperties, LenProperties
  <2>3. Len(x) = given /\ Len(y) <= size /\ Content(stored') = x \o y
    BY <1>5, <1>7, <1>8 DEF x, y
  <2> QED BY <1>1, <1>3, <2>2, <2>3
<1>10. BlobTypes'
  BY <1>2, <1>7 DEF BlobInv, BlobTypes, Segments
<1>11. blob'.mode = "failed" /\ blob'.handle = blob.handle /\ blob'.exists = blob.exists /\ blob'.open = blob.open
  BY <1>2 DEF BlobInv, BlobTypes
<1>12. Reader' /\ Writer'
  BY <1>11 DEF Reader, Writer
<1> QED BY <1>9, <1>10, <1>11, <1>12 DEF BlobInv

(* A read by either function takes what is handed over off the rest.       *)
LEMMA ReadByKeeps ==
  ASSUME BlobInv, reading, NEW size \in Nat, NEW single \in BOOLEAN,
         NEW a, Handed(place, a), ReadBy(a, size, single),
         ~single /\ Len(a.bytes) < size => Exhausted(place, a)
  PROVE  BlobInv'
<1> DEFINE b == a.bytes
           r == Content(a.rest)
           c == Content(place)
<1>1. /\ place' = a.rest /\ taken' = taken \o b
      /\ last' = [asked |-> size, got |-> Len(b), single |-> single]
      /\ UNCHANGED <<blob, stored, given, start>>
  BY DEF ReadBy
<1>2. b \in Seq(Nat) /\ a.rest \in Segments /\ b \o r = c /\ (HasEmptySegment(a.rest) => HasEmptySegment(place))
  BY DEF Handed
<1>3. r \in Seq(Nat) /\ taken \in Seq(Nat) /\ Len(b) \in Nat
  BY <1>2, ContentType, BlobInvFacts, LenProperties
<1>4. ~single /\ Len(b) < size => r = <<>> \/ HasEmptySegment(place)
  BY DEF Exhausted
<1>5. /\ blob.mode = "read" /\ given = Len(Content(stored)) /\ start <= given
      /\ HasEmptySegment(place) => HasEmptySegment(stored)
      /\ taken \o c = SubSeq(Content(stored), start + 1, given)
  BY DEF reading, BlobInv, Reader
<1> HIDE DEF b
<1>6. (taken \o b) \o r = taken \o c /\ taken \o b \in Seq(Nat)
  <2> HIDE DEF r, c
  <2> QED BY <1>2, <1>3, BytesJoin
<1>7. last'.asked = size /\ last'.got = Len(b) /\ last'.single = single /\ last' \in [asked : Nat, got : Nat, single : BOOLEAN]
  BY <1>1, <1>3
<1>8. Content(place') = r
  BY <1>1
<1> HIDE DEF r, c
<1>9. Reader'
  <2>1. HasEmptySegment(place') => HasEmptySegment(stored')
    BY <1>1, <1>2, <1>5
  <2>2. taken' \o Content(place') = SubSeq(Content(stored'), start' + 1, given')
    BY <1>1, <1>5, <1>6, <1>8
  <2>3. (last'.got < last'.asked /\ ~last'.single) => Content(place') = <<>> \/ HasEmptySegment(stored')
    BY <1>1, <1>4, <1>5, <1>7, <1>8
  <2>4. given' = Len(Content(stored')) /\ start' <= given'
    BY <1>1, <1>5
  <2> QED BY <2>1, <2>2, <2>3, <2>4 DEF Reader
<1>10. BlobTypes'
  <2>1. place' \in Seq(Seq(Nat)) /\ taken' \in Seq(Nat)
    BY <1>1, <1>2, <1>6 DEF Segments
  <2> QED BY <1>1, <1>7, <2>1 DEF BlobInv, BlobTypes
<1>11. Writer'
  BY <1>1, <1>5 DEF Writer
<1> QED BY <1>1, <1>9, <1>10, <1>11 DEF BlobInv

LEMMA ReadKeeps == ASSUME BlobInv, read PROVE BlobInv'
<1>1. PICK size \in BufferSizes : ReadBy(ReadFrom(place, size), size, FALSE)
  BY DEF read
<1>2. size \in Nat /\ place \in Segments
  BY Bounds, BlobInvFacts
<1> DEFINE a == ReadFrom(place, size)
<1>3. Handed(place, a) /\ (Len(a.bytes) < size => Exhausted(place, a))
  BY <1>2, ReadHanded
<1>4. ReadBy(a, size, FALSE) /\ reading /\ FALSE \in BOOLEAN
  BY <1>1 DEF read
<1> HIDE DEF a
<1> QED BY <1>2, <1>3, <1>4, ReadByKeeps

LEMMA ReadSegmentKeeps == ASSUME BlobInv, readSegment PROVE BlobInv'
<1>1. PICK size \in BufferSizes : ReadBy(ReadSegmentOf(place, size), size, TRUE)
  BY DEF readSegment
<1>2. size \in Nat /\ place \in Segments
  BY Bounds, BlobInvFacts
<1> DEFINE a == ReadSegmentOf(place, size)
<1>3. Handed(place, a)
  BY <1>2, SegmentHanded
<1>4. ReadBy(a, size, TRUE) /\ reading /\ TRUE \in BOOLEAN /\ ~(~TRUE)
  BY <1>1 DEF readSegment
<1> HIDE DEF a
<1> QED BY <1>2, <1>3, <1>4, ReadByKeeps

(* The rest of a blob that is one segment, from any place in it.           *)
LEMMA SeekKeeps == ASSUME BlobInv, seek PROVE BlobInv'
<1> DEFINE c == stored[1]
           l == Len(c)
<1>1. PICK to \in 0 .. l :
         place' = (IF to = l THEN <<>> ELSE <<SubSeq(c, to + 1, l)>>) /\ start' = to
  BY DEF seek
<1>2. /\ reading /\ Len(stored) = 1 /\ taken' = <<>> /\ last' = NoRead
      /\ UNCHANGED <<blob, stored, given>>
  BY DEF seek
<1>3. stored \in Segments /\ blob.mode = "read" /\ given = Len(Content(stored))
  BY <1>2, BlobInvFacts DEF reading, BlobInv, Reader
<1>4. c \in Seq(Nat) /\ Content(stored) = c
  <2>1. 1 \in 1 .. Len(stored) /\ stored \in Seq(Seq(Nat))
    BY <1>2, <1>3 DEF Segments
  <2>2. c \in Seq(Nat)
    BY <2>1, ElementOfSeq
  <2>3. <<c>> \in Seq(Seq(Nat)) /\ Len(<<c>>) = 1 /\ <<c>>[1] = c
    BY <2>2
  <2>4. \A i \in 1 .. 1 : i = 1
    OBVIOUS
  <2>5. stored = <<c>>
    <3> DEFINE one == <<c>>
    <3>1. one \in Seq(Seq(Nat)) /\ Len(one) = Len(stored) /\ \A i \in 1 .. Len(stored) : one[i] = stored[i]
      BY <1>2, <2>3, <2>4
    <3> HIDE DEF one, c
    <3>2. one = stored
      BY <2>1, <3>1, SeqEqual
    <3> QED BY <3>2 DEF one
  <2> HIDE DEF c
  <2> QED BY <2>2, <2>5, ContentOne
<1>5. l \in Nat /\ given = l /\ to \in Nat /\ to <= l
  BY <1>3, <1>4, LenProperties
<1> DEFINE s == SubSeq(c, to + 1, l)
<1>6. s \in Seq(Nat) /\ Len(s) = l - to
  <2>1. to + 1 \in 1 .. l + 1 /\ l \in 0 .. l
    BY <1>5
  <2>2. s \in Seq(Nat) /\ Len(s) = IF to + 1 <= l THEN l - (to + 1) + 1 ELSE 0
    <3> DEFINE a == to + 1
    <3>1. a \in 1 .. Len(c) + 1 /\ l \in 0 .. Len(c)
      BY <2>1
    <3> HIDE DEF a, c
    <3>2. SubSeq(c, a, l) \in Seq(Nat) /\ Len(SubSeq(c, a, l)) = IF a <= l THEN l - a + 1 ELSE 0
      BY <1>4, <3>1, SubSeqProperties
    <3> QED BY <3>2 DEF a
  <2> HIDE DEF s, l
  <2>3. (IF to + 1 <= l THEN l - (to + 1) + 1 ELSE 0) = l - to
    BY <1>5
  <2> QED BY <2>2, <2>3
<1> HIDE DEF c, l, s
<1>7. place' \in Segments /\ Content(place') = s /\ ~HasEmptySegment(place')
  <2>1. CASE to = l
    <3>1. place' = <<>>
      BY <1>1, <2>1 DEF s
    <3>2. s = <<>>
      BY <1>5, <1>6, <2>1, EmptySeq
    <3>3. ToSet(<<>>) = {}
      BY DEF ToSet
    <3> QED BY <3>1, <3>2, <3>3, ContentNone DEF HasEmptySegment
  <2>2. CASE to # l
    <3>1. place' = <<s>> /\ s # <<>>
      <4>1. Len(s) # 0
        BY <1>5, <1>6, <2>2
      <4>2. place' = <<s>>
        BY <1>1, <2>2 DEF s
      <4> QED BY <4>1, <4>2
    <3>2. <<s>> \in Segments /\ Content(<<s>>) = s
      BY <1>6, ContentOne
    <3>3. ToSet(<<s>>) = {s}
      BY DEF ToSet
    <3> QED BY <3>1, <3>2, <3>3 DEF HasEmptySegment
  <2> QED BY <2>1, <2>2
<1>8. <<>> \o s = s
  BY <1>6, ConcatEmptySeq
<1>9. start' = to /\ start' \in 0 .. MaxBytes /\ start' <= given'
  BY <1>1, <1>2, <1>5, BlobInvFacts, Bounds
<1>10. s = SubSeq(Content(stored'), start' + 1, given')
  BY <1>1, <1>2, <1>4, <1>5 DEF s
<1>11. Reader'
  BY <1>2, <1>3, <1>7, <1>8, <1>9, <1>10, NoReadType DEF Reader
<1>12. BlobTypes'
  <2>1. place' \in Seq(Seq(Nat)) /\ taken' \in Seq(Nat)
    BY <1>2, <1>7 DEF Segments
  <2>2. UNCHANGED <<blob, stored, given>>
    BY <1>2
  <2>3. start' \in 0 .. MaxBytes /\ last' \in [asked : Nat, got : Nat, single : BOOLEAN]
    BY <1>2, <1>9, NoReadType
  <2> QED BY <2>1, <2>2, <2>3 DEF BlobInv, BlobTypes
<1>13. Writer'
  BY <1>2, <1>3 DEF Writer
<1> QED BY <1>2, <1>11, <1>12, <1>13 DEF BlobInv

(* What ends a blob, or a read of it, keeps what is stored, or drops it.   *)
LEMMA EndedKeeps ==
  ASSUME BlobInv, UNCHANGED <<place, taken, start, last>>,
         blob' \in [exists : BOOLEAN, handle : BOOLEAN, open : BOOLEAN, mode : {"none", "write", "failed", "read", "read failed"}],
         blob'.handle => blob'.exists, blob'.open => blob'.handle,
         blob'.mode = blob.mode \/ blob'.mode \notin {"read", "write"},
         UNCHANGED <<stored, given>> \/ (blob'.mode # "read" /\ stored' = <<>> /\ given' = 0)
  PROVE  BlobInv'
<1>1. CASE UNCHANGED <<stored, given>>
  BY <1>1 DEF BlobInv, BlobTypes, Reader, Writer
<1>2. CASE blob'.mode # "read" /\ stored' = <<>> /\ given' = 0
  <2>1. BlobTypes'
    <3>1. stored' \in Seq(Seq(Nat)) /\ given' \in 0 .. MaxBytes
      <4> DEFINE e == <<>>
      <4>1. e \in Seq(Seq(Nat)) /\ stored' = e
        BY <1>2, ContentNone DEF Segments
      <4> HIDE DEF e
      <4> QED BY <1>2, <4>1, EmptyBlob
    <3> QED BY <3>1 DEF BlobInv, BlobTypes
  <2> QED BY <1>2, <2>1, EmptyBlob DEF BlobInv, Reader, Writer
<1> QED BY <1>1, <1>2

LEMMA Blobs ==
  ASSUME BlobInv
  PROVE  /\ blob \in [exists : BOOLEAN, handle : BOOLEAN, open : BOOLEAN, mode : {"none", "write", "failed", "read", "read failed"}]
         /\ blob.handle => blob.exists
         /\ blob.open => blob.handle
  BY DEF BlobInv, BlobTypes

LEMMA ReadRefusedKeeps == ASSUME BlobInv, ReadRefused PROVE BlobInv'
<1>1. blob' = [blob EXCEPT !.mode = "read failed"] /\ UNCHANGED <<stored, given, place, taken, start, last>>
  BY DEF ReadRefused
<1>2. blob' \in [exists : BOOLEAN, handle : BOOLEAN, open : BOOLEAN, mode : {"none", "write", "failed", "read", "read failed"}]
  BY <1>1, Blobs
<1>3. blob'.mode = "read failed" /\ blob'.handle = blob.handle /\ blob'.exists = blob.exists /\ blob'.open = blob.open
  BY <1>1, Blobs
<1> QED BY <1>1, <1>2, <1>3, Blobs, EndedKeeps

LEMMA CloseKeeps == ASSUME BlobInv, closeBlob \/ cancelBlob PROVE BlobInv'
<1>1. blob' = [blob EXCEPT !.handle = FALSE, !.open = FALSE] /\ UNCHANGED <<place, taken, start, last>>
  BY DEF closeBlob, cancelBlob
<1>2. blob' \in [exists : BOOLEAN, handle : BOOLEAN, open : BOOLEAN, mode : {"none", "write", "failed", "read", "read failed"}]
  BY <1>1, Blobs
<1>3. blob'.mode = blob.mode /\ ~blob'.handle /\ ~blob'.open
  BY <1>1, Blobs
<1>4. UNCHANGED <<stored, given>> \/ (blob'.mode # "read" /\ stored' = <<>> /\ given' = 0)
  BY <1>3 DEF closeBlob, cancelBlob, written
<1> QED BY <1>1, <1>2, <1>3, <1>4, EndedKeeps

LEMMA ServerClosesBlobKeeps == ASSUME BlobInv, ServerClosesBlob PROVE BlobInv'
<1>1. blob' = [blob EXCEPT !.open = FALSE] /\ UNCHANGED <<place, taken, start, last>>
  BY DEF ServerClosesBlob
<1>2. blob' \in [exists : BOOLEAN, handle : BOOLEAN, open : BOOLEAN, mode : {"none", "write", "failed", "read", "read failed"}]
  BY <1>1, Blobs
<1>3. blob'.mode = blob.mode /\ blob'.exists = blob.exists /\ blob'.handle = blob.handle /\ ~blob'.open
  BY <1>1, Blobs
<1>4. UNCHANGED <<stored, given>> \/ (blob'.mode # "read" /\ stored' = <<>> /\ given' = 0)
  BY <1>3 DEF ServerClosesBlob, written
<1> QED BY <1>1, <1>2, <1>3, <1>4, Blobs, EndedKeeps

LEMMA DestroyBlobKeeps == ASSUME BlobInv, DestroyBlob PROVE BlobInv'
<1>1. /\ blob' = NoBlob /\ place' = <<>> /\ taken' = <<>> /\ start' = 0 /\ last' = NoRead
      /\ UNCHANGED <<stored, given>> \/ (stored' = <<>> /\ given' = 0)
  BY DEF DestroyBlob
<1>2. blob' \in [exists : BOOLEAN, handle : BOOLEAN, open : BOOLEAN, mode : {"none", "write", "failed", "read", "read failed"}]
  BY <1>1 DEF NoBlob
<1>3. blob'.mode = "none" /\ ~blob'.handle /\ ~blob'.open
  BY <1>1 DEF NoBlob
<1>4. stored' \in Seq(Seq(Nat)) /\ given' \in 0 .. MaxBytes /\ Len(Content(stored')) <= MaxBytes
  <2>1. CASE UNCHANGED <<stored, given>>
    BY <2>1 DEF BlobInv, BlobTypes
  <2>2. CASE stored' = <<>> /\ given' = 0
    BY <2>2, EmptyBlob
  <2> QED BY <1>1, <2>1, <2>2
<1>5. BlobTypes'
  <2>1. <<>> \in Seq(Seq(Nat)) /\ <<>> \in Seq(Nat)
    OBVIOUS
  <2> QED BY <1>1, <1>2, <1>4, <2>1, EmptyBlob, NoReadType DEF BlobTypes
<1> QED BY <1>3, <1>4, <1>5 DEF BlobInv, Reader, Writer

LEMMA BlobNextKeeps == BlobInv /\ BlobNext => BlobInv'
  BY CreateKeeps, OpenKeeps, WriteKeeps, WriteRefusedKeeps, WriteSegmentKeeps, ReadKeeps, ReadSegmentKeeps,
     ReadRefusedKeeps, SeekKeeps, CloseKeeps, DestroyBlobKeeps DEF BlobNext

LEMMA BlobStays == ASSUME BlobInv, UNCHANGED blobVars PROVE BlobInv'
  BY DEF blobVars, BlobInv, BlobTypes, Reader, Writer

-----------------------------------------------------------------------------
(* Transaction. *)


(* Before the constructor there is nothing to say. *)
LEMMA InitTx == TxInit => TxInv
<1> SUFFICES ASSUME TxInit PROVE TxInv
  OBVIOUS
<1>1. Absent \in [exists : BOOLEAN, handle : BOOLEAN, state : States] /\ ~Absent.handle
  BY DEF Absent, States
<1>2. TxTypeOK
  BY <1>1 DEF TxInit, TxTypeOK, BranchStates
<1>3. \A o \in Object : ~tx[o].handle
  BY <1>1 DEF TxInit
<1>4. \A d \in Database : branch[d] = "none"
  BY DEF TxInit
<1> QED
  BY <1>2, <1>3, <1>4 DEF TxInit, TxInv, HandleMeansOpen, Unowned, CallOK, RolledBackOnPurpose,
         PreparedForGood, EndedEverywhere, Quiet

(* A new transaction: nothing has happened to it yet. *)
LEMMA ConstructStep ==
  ASSUME TxInv, NEW o \in Object, Construct(o)
  PROVE  TxInv'
  BY DEF TxInv, Construct, TxTypeOK, HandleMeansOpen, NotStarted, Unowned, CallOK, RolledBackOnPurpose,
         PreparedForGood, EndedEverywhere, Quiet, NoCall, Undecided, Absent, States, BranchStates

LEMMA MoveStep ==
  ASSUME TxInv, NEW o \in Object, NEW p \in Object, Move(o, p)
  PROVE  TxInv'
  BY DEF TxInv, Move, TxTypeOK, HandleMeansOpen, NotStarted, Unowned, CallOK, RolledBackOnPurpose,
         PreparedForGood, EndedEverywhere, Quiet, NoCall, Undecided, Absent, States, BranchStates

(* The request is made: nothing is granted yet. *)
LEMMA AskStep ==
  ASSUME TxInv, NEW o \in Object, NEW op \in Ops, Quiet, isValid(o),
         op \notin {"commit", "rollback"} => tx[o].state = "ACTIVE",
         Ask(o, op)
  PROVE  TxInv'
  BY DEF TxInv, Ask, isValid, TxTypeOK, HandleMeansOpen, NotStarted, Unowned, CallOK, RolledBackOnPurpose,
         PreparedForGood, EndedEverywhere, Quiet, NoCall, Undecided, Ops, States, BranchStates

LEMMA DestroyStep ==
  ASSUME TxInv, NEW o \in Object, Destroy(o)
  PROVE  TxInv'
<1>1. CASE isValid(o) /\ tx[o].state = "ACTIVE"
  BY <1>1, AskStep DEF Destroy, Ops
<1>2. CASE ~(isValid(o) /\ tx[o].state = "ACTIVE")
  <2>1. /\ tx' = [tx EXCEPT ![o] = Absent] /\ Quiet /\ tx[o].exists
        /\ UNCHANGED <<branch, cut, call, undone, everPrepared, refused>>
    BY <1>2 DEF Destroy
  <2>2. TxTypeOK'
    BY <2>1 DEF TxInv, TxTypeOK, Absent, States
  <2>3. \A p \in Object : tx'[p].handle => p # o /\ tx'[p] = tx[p]
    BY <2>1 DEF TxInv, TxTypeOK, Absent
  <2>4. tx[o].handle => everPrepared
    BY <1>2, <2>1 DEF TxInv, HandleMeansOpen, PreparedForGood, isValid
  <2>5. Unowned' => Unowned \/ tx[o].handle
    BY <2>1 DEF TxInv, TxTypeOK, Unowned
  <2>6. EndedEverywhere'
    BY <2>1, <2>4, <2>5 DEF TxInv, EndedEverywhere, PreparedForGood, Unowned
  <2>7. RolledBackOnPurpose' /\ PreparedForGood'
    BY <2>1, <2>3, <2>4, <2>5 DEF TxInv, RolledBackOnPurpose, PreparedForGood, Unowned, Quiet, NoCall
  <2>8. HandleMeansOpen' /\ CallOK' /\ (NotStarted' => Quiet' /\ Unowned' /\ ~everPrepared')
    BY <2>1, <2>3 DEF TxInv, HandleMeansOpen, CallOK, NotStarted, Unowned, Quiet
  <2> QED
    BY <2>2, <2>6, <2>7, <2>8 DEF TxInv
<1> QED BY <1>1, <1>2

LEMMA GrantStep ==
  ASSUME TxInv, NEW d \in Database, Grant(d)
  PROVE  TxInv'
  BY DEF TxInv, Grant, BranchAfter, TxTypeOK, HandleMeansOpen, NotStarted, Unowned, CallOK, RolledBackOnPurpose,
         PreparedForGood, EndedEverywhere, Quiet, NoCall, Undecided, Ops, States, BranchStates

LEMMA RefuseStep ==
  ASSUME TxInv, Refuse
  PROVE  TxInv'
  BY DEF TxInv, Refuse, TxTypeOK, HandleMeansOpen, NotStarted, Unowned, CallOK, RolledBackOnPurpose,
         PreparedForGood, EndedEverywhere, Quiet, NoCall, Undecided, Absent, Ops, States, BranchStates

LEMMA ReturnStep ==
  ASSUME TxInv, Return
  PROVE  TxInv'
  BY DEF TxInv, Return, TxTypeOK, HandleMeansOpen, NotStarted, Unowned, CallOK, RolledBackOnPurpose,
         PreparedForGood, EndedEverywhere, Quiet, NoCall, Undecided, Absent, Ops, States, BranchStates

LEMMA LoseConnectionStep ==
  ASSUME TxInv, NEW d \in Database, LoseConnection(d)
  PROVE  TxInv'
  BY DEF TxInv, LoseConnection, TxTypeOK, HandleMeansOpen, NotStarted, Unowned, CallOK, RolledBackOnPurpose,
         PreparedForGood, EndedEverywhere, Quiet, NoCall, Undecided, Ops, States, BranchStates

LEMMA TxStep == TxInv /\ TxNext => TxInv'
<1> SUFFICES ASSUME TxInv, TxNext PROVE TxInv'
  OBVIOUS
<1>1. CASE \E o \in Object : Construct(o)
  BY <1>1, ConstructStep
<1>2. CASE \E o \in Object : \/ commit(o) \/ rollback(o) \/ prepare(o)
                             \/ commitRetaining(o) \/ rollbackRetaining(o)
  BY <1>2, AskStep DEF commit, rollback, prepare, commitRetaining, rollbackRetaining, Ops
<1>3. CASE \E o \in Object : Destroy(o)
  BY <1>3, DestroyStep
<1>4. CASE \E o, p \in Object : Move(o, p)
  BY <1>4, MoveStep
<1>5. CASE \E d \in Database : Grant(d)
  BY <1>5, GrantStep
<1>6. CASE \E d \in Database : LoseConnection(d)
  BY <1>6, LoseConnectionStep
<1>7. CASE Refuse
  BY <1>7, RefuseStep
<1>8. CASE Return
  BY <1>8, ReturnStep
<1> QED
  BY <1>1, <1>2, <1>3, <1>4, <1>5, <1>6, <1>7, <1>8 DEF TxNext

(* Statements and blobs do not touch the transaction, and so:              *)
(* TxInv holds of every behaviour, for any databases and any objects.      *)
THEOREM SpecTxInv == Spec => []TxInv
<1>1. Init => TxInv
  BY InitTx DEF Init
<1>2. TxInv /\ [Next]_vars => TxInv'
  <2> SUFFICES ASSUME TxInv, [Next]_vars PROVE TxInv'
    OBVIOUS
  <2>1. CASE TransactionStep
    BY <2>1, TxStep DEF TransactionStep
  <2>2. CASE UNCHANGED txVars
    BY <2>2 DEF txVars, TxInv, TxTypeOK, HandleMeansOpen, NotStarted, Unowned, CallOK, RolledBackOnPurpose,
           PreparedForGood, EndedEverywhere, Quiet, Undecided
  <2>3. CASE StatementStep \/ BlobStep \/ UNCHANGED vars
    BY <2>2, <2>3 DEF StatementStep, BlobStep, vars
  <2> QED
    BY <2>1, <2>3 DEF Next
<1> QED
  BY <1>1, <1>2, PTL DEF Spec

(* Two-phase commit: once prepare() has returned, the transaction is never *)
(* committed in one database and rolled back or lost in another, unless    *)
(* the program itself has called rollback(): whatever the server refuses   *)
(* halfway, wherever connections are lost, however the object is moved and *)
(* destroyed.                                                              *)
THEOREM PreparedIsAtomicHolds == Spec => []PreparedIsAtomic
<1>1. TxInv => PreparedIsAtomic
  BY DEF TxInv, PreparedForGood, PreparedIsAtomic, Split
<1> QED
  BY <1>1, SpecTxInv, PTL

(* A transaction nobody owns any more is active in no database, unless the *)
(* server refused to end it, and prepared only if prepare() was called.    *)
THEOREM NoneLeftActiveHolds == Spec => []NoneLeftActive
<1>1. TxInv => NoneLeftActive
  <2> SUFFICES ASSUME EndedEverywhere PROVE NoneLeftActive
    BY DEF TxInv
  <2> QED
    BY DEF EndedEverywhere, Unowned, NoneLeftActive
<1> QED
  BY <1>1, SpecTxInv, PTL
-----------------------------------------------------------------------------
(* What makes RowIsCurrent inductive: a row that does not belong to the    *)
(* last execution is null, whether or not there still is a statement.      *)
RowOf(s, e) == "row" \in DOMAIN s /\ (s.row # NullRow => s.row.exec = e)
RowInv == RowOf(stmt, exec)

(* Whatever comes of an execution, the statement reads its row or none.    *)
LEMMA OutcomeRow ==
  ASSUME RowInv, NEW e, NEW c \in Outcomes(e)
  PROVE  RowOf(c.stmt, e) /\ "stmt" \in DOMAIN c
<1>1. \A cursor, s, answer : LET d == Outcome(NullRow, cursor, s, answer)
                            IN  RowOf(d.stmt, e) /\ "stmt" \in DOMAIN d
  BY DEF RowInv, RowOf, Outcome, Cleared
<1>2. \A cursor, s, answer : LET d == Outcome([exec |-> e, n |-> 1], cursor, s, answer)
                            IN  RowOf(d.stmt, e) /\ "stmt" \in DOMAIN d
  BY DEF RowInv, RowOf, Outcome, Cleared
<1>3. CASE stmt.kind = "SELECT"
  BY <1>1, <1>2, <1>3 DEF Outcomes
<1>4. CASE stmt.kind = "EXEC_PROCEDURE"
  BY <1>1, <1>2, <1>4 DEF Outcomes
<1>5. CASE stmt.kind # "SELECT" /\ stmt.kind # "EXEC_PROCEDURE"
  BY <1>1, <1>5 DEF Outcomes
<1> QED
  BY <1>3, <1>4, <1>5

(* Filling a RowSet, or failing to, leaves the statement as it is.         *)
LEMMA RowSetKeepsStatement ==
  ASSUME NEW c, "stmt" \in DOMAIN c, NEW e, NEW size, NEW include
  PROVE  /\ RowSetOf(c, e, size, include).stmt = c.stmt
         /\ \A d \in RowSetThrown(c, size, include) : d.stmt = c.stmt
BY DEF RowSetOf, RowSetThrown

LEMMA QueryRow == RowInv /\ queryPreparedRowSet => RowInv'
<1> SUFFICES ASSUME RowInv, queryPreparedRowSet PROVE RowInv'
  OBVIOUS
<1>1. PICK c \in Outcomes(exec + 1) : \E size, hasRow :
          \/ Become(c)
          \/ Become(RowSetOf(c, exec + 1, size, hasRow))
          \/ \E d \in RowSetThrown(c, size, hasRow) : Become(d)
  BY DEF queryPreparedRowSet
<1>2. RowOf(c.stmt, exec + 1) /\ "stmt" \in DOMAIN c
  BY OutcomeRow
<1>3. stmt' = c.stmt
  BY <1>1, <1>2, RowSetKeepsStatement DEF Become
<1>4. exec' = exec + 1
  BY DEF queryPreparedRowSet
<1> QED
  BY <1>2, <1>3, <1>4 DEF RowInv, RowOf

LEMMA ExecuteRow == RowInv /\ Execute => RowInv'
<1> SUFFICES ASSUME RowInv, Execute PROVE RowInv'
  OBVIOUS
<1>1. PICK c \in Outcomes(exec + 1) : Become(c)
  BY DEF Execute
<1>2. exec' = exec + 1 /\ stmt' = c.stmt
  BY <1>1 DEF Execute, Become
<1> QED
  BY <1>2, OutcomeRow DEF RowInv, RowOf

LEMMA NewRowSetRow == RowInv /\ NewRowSet => RowInv'
<1> SUFFICES ASSUME RowInv, NewRowSet PROVE RowInv'
  OBVIOUS
<1>1. "stmt" \in DOMAIN Current /\ Current.stmt = stmt
  BY DEF Current
<1>2. PICK size, include : \/ Become(RowSetOf(Current, exec, size, include))
                           \/ \E d \in RowSetThrown(Current, size, include) : Become(d)
  BY DEF NewRowSet
<1>3. stmt' = stmt
  BY <1>1, <1>2, RowSetKeepsStatement DEF Become
<1> QED
  BY <1>3 DEF NewRowSet, RowInv, RowOf

LEMMA FetchRow == RowInv /\ (fetchNext \/ fetchElsewhere) => RowInv'
<1>1. RowInv /\ fetchNext => RowInv'
  BY DEF RowInv, RowOf, fetchNext, Row
<1>2. RowInv /\ fetchElsewhere => RowInv'
  BY DEF RowInv, RowOf, fetchElsewhere, Row
<1> QED
  BY <1>1, <1>2

(* The calls that make, give up or fail to change a statement.             *)
LEMMA OtherRow ==
  RowInv /\ (\/ PrepareStatement \/ ExecuteNotClosed \/ FetchRefused
             \/ free \/ FreeRefused \/ DestroyStatement) => RowInv'
<1>1. RowInv /\ PrepareStatement => RowInv'
  BY DEF RowInv, RowOf, PrepareStatement, NoStatement
<1>2. RowInv /\ DestroyStatement => RowInv'
  BY DEF RowInv, RowOf, DestroyStatement, NoStatement
<1>3. RowInv /\ free => RowInv'
  BY DEF RowInv, RowOf, free, CloseCursor
<1>4. RowInv /\ (ExecuteNotClosed \/ FetchRefused \/ FreeRefused) => RowInv'
  BY DEF RowInv, RowOf, ExecuteNotClosed, FetchRefused, FreeRefused, Throws
<1> QED
  BY <1>1, <1>2, <1>3, <1>4

(* No row is left of an execution before the last, though the last may     *)
(* have failed at any of its requests, RowSets have been taken or thrown,  *)
(* and the transaction has ended under the statement: for results and      *)
(* RowSets of any size and any number of executions.                       *)
THEOREM RowIsCurrentHolds == Spec => []RowIsCurrent
<1>1. Init => RowInv
  BY DEF Init, CursorInit, NoStatement, RowInv, RowOf
<1>2. RowInv /\ [Next]_vars => RowInv'
  <2> SUFFICES ASSUME RowInv, [Next]_vars PROVE RowInv'
    OBVIOUS
  <2>1. CASE StatementStep
    BY <2>1, ExecuteRow, QueryRow, NewRowSetRow, FetchRow, OtherRow DEF StatementStep
  <2>2. CASE TransactionStep \/ BlobStep \/ UNCHANGED vars
    <3>1. UNCHANGED <<stmt, exec>>
      BY <2>2 DEF TransactionStep, Dependants, ServerClosesCursor, BlobStep, vars, cursorVars
    <3> QED
      BY <3>1 DEF RowInv, RowOf
  <2> QED
    BY <2>1, <2>2 DEF Next
<1>3. RowInv => RowIsCurrent
  BY DEF RowInv, RowOf, RowIsCurrent
<1> QED
  BY <1>1, <1>2, <1>3, PTL DEF Spec
-----------------------------------------------------------------------------
(* The rows of a Statement: what every call of Statement and RowSet keeps. *)
Consecutive(rows) == \A i \in 1 .. Len(rows) - 1 : rows[i + 1].n = rows[i].n + 1

(* The rows of one fetch after the other. *)
Fetched(e, position, count) == [i \in 1 .. count |-> [exec |-> e, n |-> position + i]]

LEMMA ConsecutivePairs ==
  ASSUME NEW rows \in Seq(Rows)
  PROVE  Consecutive(rows) <=> \A i, j \in 1 .. Len(rows) : j = i + 1 => rows[j].n = rows[i].n + 1
<1>1. Len(rows) \in Nat
  BY LenProperties
<1>2. \A i : i \in 1 .. Len(rows) - 1 <=> i \in 1 .. Len(rows) /\ i + 1 \in 1 .. Len(rows)
  BY <1>1
<1> QED BY <1>1, <1>2 DEF Consecutive

LEMMA ConcatEnds ==
  ASSUME NEW S, NEW s \in Seq(S), NEW t \in Seq(S)
  PROVE  /\ s \o t \in Seq(S) /\ Len(s \o t) = Len(s) + Len(t)
         /\ s # <<>> => s \o t # <<>> /\ (s \o t)[1] = s[1]
         /\ s = <<>> => s \o t = t
         /\ t # <<>> => s \o t # <<>> /\ (s \o t)[Len(s \o t)] = t[Len(t)]
         /\ t = <<>> => s \o t = s
<1>1. /\ s \o t \in Seq(S) /\ Len(s \o t) = Len(s) + Len(t) /\ Len(s) \in Nat /\ Len(t) \in Nat
      /\ \A i \in 1 .. Len(s) + Len(t) : (s \o t)[i] = IF i <= Len(s) THEN s[i] ELSE t[i - Len(s)]
  BY ConcatProperties, LenProperties
<1>2. (s # <<>> => Len(s) >= 1) /\ (t # <<>> => Len(t) >= 1) /\ Len(<<>>) = 0
  BY <1>1, EmptySeq
<1>3. CASE s # <<>>
  <2>1. 1 \in 1 .. Len(s) + Len(t) /\ 1 <= Len(s)
    BY <1>1, <1>2, <1>3
  <2>2. s \o t # <<>>
    BY <1>1, <1>2, <2>1
  <2> QED BY <1>1, <2>1, <2>2
<1>4. CASE t # <<>>
  <2> DEFINE k == Len(s) + Len(t)
  <2>1. k \in 1 .. k /\ ~(k <= Len(s)) /\ k - Len(s) = Len(t)
    BY <1>1, <1>2, <1>4
  <2>2. (s \o t)[k] = t[Len(t)]
    BY <1>1, <2>1
  <2>3. s \o t # <<>>
    BY <1>1, <1>2, <1>4
  <2> QED BY <1>1, <2>2, <2>3
<1>5. (s = <<>> => s \o t = t) /\ (t = <<>> => s \o t = s)
  BY ConcatEmptySeq
<1> QED BY <1>1, <1>3, <1>4, <1>5

LEMMA ConsecutiveConcat ==
  ASSUME NEW s \in Seq(Rows), NEW t \in Seq(Rows), Consecutive(s), Consecutive(t),
         s # <<>> /\ t # <<>> => t[1].n = s[Len(s)].n + 1
  PROVE  Consecutive(s \o t)
<1> DEFINE u == s \o t
<1>1. /\ u \in Seq(Rows) /\ Len(u) = Len(s) + Len(t) /\ Len(s) \in Nat /\ Len(t) \in Nat
      /\ \A i \in 1 .. Len(s) + Len(t) : u[i] = IF i <= Len(s) THEN s[i] ELSE t[i - Len(s)]
  BY ConcatProperties, LenProperties
<1> HIDE DEF u
<1>2. \A i, j \in 1 .. Len(s) : j = i + 1 => s[j].n = s[i].n + 1
  BY ConsecutivePairs
<1>3. \A i, j \in 1 .. Len(t) : j = i + 1 => t[j].n = t[i].n + 1
  BY ConsecutivePairs
<1>4. ASSUME NEW i \in 1 .. Len(u), NEW j \in 1 .. Len(u), j = i + 1
      PROVE  u[j].n = u[i].n + 1
  <2>1. CASE j <= Len(s)
    <3>1. i \in 1 .. Len(s) /\ j \in 1 .. Len(s) /\ u[i] = s[i] /\ u[j] = s[j]
      BY <1>1, <1>4, <2>1
    <3> QED BY <3>1, <1>2, <1>4
  <2>2. CASE i > Len(s)
    <3>1. /\ i - Len(s) \in 1 .. Len(t) /\ j - Len(s) \in 1 .. Len(t) /\ j - Len(s) = (i - Len(s)) + 1
          /\ u[i] = t[i - Len(s)] /\ u[j] = t[j - Len(s)]
      BY <1>1, <1>4, <2>2
    <3> QED BY <3>1, <1>3
  <2>3. CASE i = Len(s)
    <3>1. u[i] = s[Len(s)] /\ u[j] = t[1] /\ Len(s) # 0 /\ Len(t) # 0
      BY <1>1, <1>4, <2>3
    <3>2. s # <<>> /\ t # <<>>
      BY <3>1, EmptySeq
    <3> QED BY <3>1, <3>2
  <2>4. (j <= Len(s)) \/ (i > Len(s)) \/ (i = Len(s))
    BY <1>1, <1>4
  <2> QED BY <2>1, <2>2, <2>3, <2>4
<1>5. Consecutive(u)
  BY <1>1, <1>4, ConsecutivePairs
<1> QED BY <1>5 DEF u

LEMMA FetchedFacts ==
  ASSUME NEW e \in Nat, NEW position \in Nat, NEW count \in Nat
  PROVE  /\ Fetched(e, position, count) \in Seq(Rows)
         /\ Len(Fetched(e, position, count)) = count
         /\ Consecutive(Fetched(e, position, count))
         /\ Fetched(e, position, count) = <<>> <=> count = 0
         /\ count # 0 => /\ Fetched(e, position, count)[1].n = position + 1
                         /\ Fetched(e, position, count)[count].n = position + count
<1> DEFINE f == Fetched(e, position, count)
<1>1. \A i \in 1 .. count : [exec |-> e, n |-> position + i] \in Rows
  BY DEF Rows
<1>2. f \in Seq(Rows) /\ Len(f) = count
  BY <1>1 DEF Fetched
<1>3. \A i \in 1 .. count : f[i].n = position + i
  BY DEF Fetched
<1> HIDE DEF f
<1>4. Consecutive(f)
  <2>1. \A i, j \in 1 .. Len(f) : j = i + 1 => f[j].n = f[i].n + 1
    BY <1>2, <1>3
  <2> QED BY <1>2, <2>1, ConsecutivePairs
<1>5. f = <<>> <=> count = 0
  BY <1>2, EmptySeq
<1>6. count # 0 => 1 \in 1 .. count /\ count \in 1 .. count
  OBVIOUS
<1> QED BY <1>2, <1>3, <1>4, <1>5, <1>6 DEF f

(* One row is a sequence of rows. *)
LEMMA OneRow ==
  ASSUME NEW r \in Rows
  PROVE  <<r>> \in Seq(Rows) /\ Len(<<r>>) = 1 /\ <<r>>[1] = r /\ <<r>> # <<>> /\ Consecutive(<<r>>)
<1>1. <<r>> \in Seq(Rows) /\ Len(<<r>>) = 1 /\ <<r>>[1] = r /\ <<r>> # <<>>
  OBVIOUS
<1>2. 1 .. 1 - 1 = {}
  OBVIOUS
<1> QED BY <1>1, <1>2 DEF Consecutive
-----------------------------------------------------------------------------
(* The state of a statement as the calls compute it step by step, and what *)
(* holds of it between the steps.                                          *)
Stmts == [exists : BOOLEAN, handle : BOOLEAN, cursor : BOOLEAN, kind : Kinds, scrollable : BOOLEAN, row : Rows]
Servers == [open : BOOLEAN, total : Nat, position : Nat]
Moments == [stmt : Stmts, server : Servers, seen : Seq(Rows), lost : BOOLEAN, reply : Replies]

HasCursor(c) ==
    /\ c.stmt.cursor => c.stmt.exists /\ c.stmt.handle /\ c.stmt.kind = "SELECT"
    /\ c.server.open => c.stmt.cursor
    /\ c.server.position <= c.server.total + 1
StandsOnLast(c) ==
    c.stmt.cursor /\ ~c.lost =>
        IF c.seen = <<>> THEN c.stmt.scrollable \/ c.server.position = 0
        ELSE c.seen[Len(c.seen)].n = c.server.position
RowIsLast(c) ==
    c.reply.op = "row" /\ c.reply.ok /\ c.stmt.row # NullRow =>
        /\ c.seen # <<>> /\ c.stmt.row = c.seen[Len(c.seen)]
        /\ c.stmt.cursor => c.stmt.row.n = c.server.position
SeenInOrder(c) ==
    /\ ~c.lost => Consecutive(c.seen)
    /\ (c.seen # <<>> /\ ~c.stmt.scrollable /\ ~c.lost) => c.seen[1].n = 1
LastAnswer(c) ==
    c.reply.op = "rowSet" =>
        /\ Len(c.reply.rows) <= c.reply.size
        /\ Consecutive(c.reply.rows)
        /\ (c.reply.rows # <<>> /\ c.seen # <<>>) => c.reply.rows[Len(c.reply.rows)] = c.seen[Len(c.seen)]
        /\ (Len(c.reply.rows) < c.reply.size /\ c.stmt.cursor) => c.server.position >= c.server.total

Good(c) == c \in Moments /\ HasCursor(c) /\ StandsOnLast(c) /\ RowIsLast(c) /\ SeenInOrder(c) /\ LastAnswer(c)

CursorInv == exec \in 0 .. Executions /\ Good(Current)

LEMMA CursorInvMeans == CursorInv => CursorTypeOK /\ RowsInOrder
<1> SUFFICES ASSUME CursorInv PROVE CursorTypeOK /\ RowsInOrder
  OBVIOUS
<1>1. /\ Current \in Moments /\ Current.stmt = stmt /\ Current.server = server /\ Current.seen = seen
      /\ Current.lost = lost /\ Current.reply = reply
  BY DEF CursorInv, Good, Current
<1>2. CursorTypes
  BY <1>1 DEF CursorInv, CursorTypes, Moments, Stmts, Servers
<1>3. OnLastRow
  BY <1>1 DEF CursorInv, Good, OnLastRow, StandsOnLast, RowIsLast
<1>4. server.position \in 0 .. server.total + 1
  BY <1>1, <1>2 DEF CursorInv, Good, HasCursor, CursorTypes
<1>5. CursorTypeOK
  BY <1>1, <1>2, <1>3, <1>4 DEF CursorInv, Good, HasCursor, CursorTypeOK
<1>6. RowsInOrder
  BY <1>1 DEF CursorInv, Good, SeenInOrder, LastAnswer, Consecutive, RowsInOrder
<1> QED BY <1>5, <1>6

(* A call that fails, and one that finds no row, leave all as it was. *)
LEMMA GoodReply ==
  ASSUME NEW c, Good(c), NEW a \in [op : {"failed"}] \union [op : {"row"}, ok : {FALSE}]
  PROVE  Good([c EXCEPT !.reply = a])
<1> DEFINE d == [c EXCEPT !.reply = a]
<1>1. c \in Moments
  BY DEF Good
<1>2. d \in Moments
  BY <1>1 DEF Moments, Replies
<1>3. d.stmt = c.stmt /\ d.server = c.server /\ d.seen = c.seen /\ d.lost = c.lost /\ d.reply = a
  BY <1>1 DEF Moments
<1>4. a.op # "rowSet" /\ ~(a.op = "row" /\ a.ok)
  OBVIOUS
<1> HIDE DEF d
<1>5. Good(d)
  BY <1>2, <1>3, <1>4 DEF Good, HasCursor, StandsOnLast, RowIsLast, SeenInOrder, LastAnswer
<1> QED BY <1>5 DEF d

(* What comes of an execution: no row, or the first one. *)
OutcomeOf(c, row) ==
    c = [stmt |-> [stmt EXCEPT !.cursor = c.stmt.cursor, !.row = row], server |-> c.server,
         seen |-> IF row = NullRow THEN <<>> ELSE <<row>>, lost |-> FALSE, reply |-> c.reply]

LEMMA OutcomeGood ==
  ASSUME stmt \in Stmts, stmtValid,
         NEW row \in Rows, NEW c, OutcomeOf(c, row),
         c.stmt.cursor \in BOOLEAN, c.server \in Servers, c.reply \in Replies,
         c.stmt.cursor => stmt.kind = "SELECT", c.server.open => c.stmt.cursor,
         c.server.position <= c.server.total + 1,
         c.reply.op # "rowSet", row = NullRow => c.server.position = 0,
         row # NullRow => row.n = 1 /\ (c.stmt.cursor => c.server.position = 1)
  PROVE  Good(c) /\ c.stmt.kind = stmt.kind /\ c.stmt.row = row
<1> DEFINE cursor == c.stmt.cursor
<1>1. NullRow \in Rows
  BY DEF Rows, NullRow
<1>2. c.stmt = [stmt EXCEPT !.cursor = cursor, !.row = row]
  BY DEF OutcomeOf
<1>3. /\ c.lost = FALSE
      /\ c.seen = IF row = NullRow THEN <<>> ELSE <<row>>
      /\ c = [stmt |-> c.stmt, server |-> c.server, seen |-> c.seen, lost |-> c.lost, reply |-> c.reply]
  BY DEF OutcomeOf
<1> HIDE DEF cursor
<1>4. cursor \in BOOLEAN
  BY DEF cursor
<1>5. c.stmt \in Stmts
  BY <1>2, <1>4 DEF Stmts
<1>6. c.seen \in Seq(Rows)
  BY <1>3
<1>7. c \in Moments
  BY <1>3, <1>5, <1>6 DEF Moments
<1>8. c.stmt.exists /\ c.stmt.handle /\ c.stmt.kind = stmt.kind /\ c.stmt.row = row
  BY <1>2 DEF Stmts, stmtValid
<1>9. HasCursor(c)
  BY <1>8 DEF HasCursor
<1>10. <<row>> # <<>> /\ <<row>>[Len(<<row>>)] = row /\ <<row>>[1] = row /\ Consecutive(<<row>>)
  BY OneRow
<1>11. Consecutive(<<>>)
  BY DEF Consecutive
<1>12. StandsOnLast(c) /\ RowIsLast(c)
  BY <1>3, <1>8, <1>10 DEF StandsOnLast, RowIsLast
<1>13. SeenInOrder(c) /\ LastAnswer(c)
  BY <1>3, <1>10, <1>11 DEF SeenInOrder, LastAnswer
<1> QED BY <1>7, <1>8, <1>9, <1>12, <1>13 DEF Good

LEMMA OutcomesGood ==
  ASSUME stmt \in Stmts, stmtValid, NEW e \in Nat, NEW c \in Outcomes(e)
  PROVE  /\ Good(c) /\ c.stmt.kind = stmt.kind
         /\ c.stmt.cursor => c.server.open
         /\ stmt.kind \in {"SELECT", "EXEC_PROCEDURE"} /\ c.reply.op = "row" /\ c.reply.ok => c.stmt.row # NullRow
<1> DEFINE first == [exec |-> e, n |-> 1]
           rowThere == [op |-> "row", ok |-> TRUE]
           noRow == [op |-> "row", ok |-> FALSE]
           opened(total, position) == [open |-> TRUE, total |-> total, position |-> position]
<1>1. first \in Rows /\ NullRow \in Rows /\ first # NullRow /\ first.n = 1
  BY DEF Rows, NullRow
<1>2. NoCursor \in Servers /\ ~NoCursor.open /\ NoCursor.position = 0 /\ NoCursor.total = 0 /\ 0 <= 0 + 1
  BY DEF Servers, NoCursor
<1>3. /\ Failed \in Replies /\ Failed.op = "failed"
      /\ rowThere \in Replies /\ rowThere.op = "row" /\ rowThere.ok = TRUE
      /\ noRow \in Replies /\ noRow.op = "row" /\ noRow.ok = FALSE
  BY DEF Replies, Failed
<1>4. ASSUME NEW total \in Nat, NEW position \in Nat
      PROVE  /\ opened(total, position) \in Servers /\ opened(total, position).open
             /\ opened(total, position).total = total /\ opened(total, position).position = position
  BY DEF Servers
<1>5. CASE c = Outcome(NullRow, FALSE, NoCursor, Failed)
  <2>1. OutcomeOf(c, NullRow) /\ c.stmt.cursor = FALSE /\ c.server = NoCursor /\ c.reply = Failed
    BY <1>5 DEF Outcome, Cleared, Stmts, OutcomeOf
  <2> HIDE DEF first, rowThere, noRow, opened
  <2>2. Good(c) /\ c.stmt.kind = stmt.kind
    BY <1>1, <1>2, <1>3, <2>1, OutcomeGood
  <2> QED BY <2>1, <2>2, <1>3
<1>6. CASE stmt.kind = "SELECT" /\ \E total \in 0 .. MaxRows : c = Outcome(NullRow, TRUE, opened(total, 0), Failed)
  <2>1. PICK total \in 0 .. MaxRows : c = Outcome(NullRow, TRUE, opened(total, 0), Failed)
    BY <1>6
  <2>2. total \in Nat /\ 0 <= total + 1
    BY CursorAssumption
  <2>3. OutcomeOf(c, NullRow) /\ c.stmt.cursor = TRUE /\ c.server = opened(total, 0) /\ c.reply = Failed
    BY <2>1 DEF Outcome, Cleared, Stmts, OutcomeOf
  <2> HIDE DEF first, rowThere, noRow, opened
  <2>4. c.server \in Servers /\ c.server.open /\ c.server.total = total /\ c.server.position = 0
    BY <2>2, <2>3, <1>4
  <2>5. Good(c) /\ c.stmt.kind = stmt.kind
    BY <1>1, <1>3, <1>6, <2>2, <2>3, <2>4, OutcomeGood
  <2> QED BY <2>3, <2>4, <2>5, <1>3
<1>7. CASE stmt.kind = "SELECT" /\ \E total \in 1 .. MaxRows : c = Outcome(first, TRUE, opened(total, 1), rowThere)
  <2>1. PICK total \in 1 .. MaxRows : c = Outcome(first, TRUE, opened(total, 1), rowThere)
    BY <1>7
  <2>2. total \in Nat /\ 1 <= total + 1
    BY CursorAssumption
  <2>3. OutcomeOf(c, first) /\ c.stmt.cursor = TRUE /\ c.server = opened(total, 1) /\ c.reply = rowThere
    BY <2>1, <1>1 DEF Outcome, Cleared, Stmts, OutcomeOf
  <2> HIDE DEF first, rowThere, noRow, opened
  <2>4. c.server \in Servers /\ c.server.open /\ c.server.total = total /\ c.server.position = 1
    BY <2>2, <2>3, <1>4
  <2>5. Good(c) /\ c.stmt.kind = stmt.kind /\ c.stmt.row = first
    BY <1>1, <1>3, <1>7, <2>2, <2>3, <2>4, OutcomeGood
  <2> QED BY <2>3, <2>4, <2>5, <1>1
<1>8. CASE stmt.kind = "SELECT" /\ c = Outcome(NullRow, TRUE, opened(0, 0), noRow)
  <2>1. OutcomeOf(c, NullRow) /\ c.stmt.cursor = TRUE /\ c.server = opened(0, 0) /\ c.reply = noRow
    BY <1>8 DEF Outcome, Cleared, Stmts, OutcomeOf
  <2> HIDE DEF first, rowThere, noRow, opened
  <2>2. c.server \in Servers /\ c.server.open /\ c.server.total = 0 /\ c.server.position = 0
    BY <2>1, <1>4
  <2>3. Good(c) /\ c.stmt.kind = stmt.kind
    BY <1>1, <1>2, <1>3, <1>8, <2>1, <2>2, OutcomeGood
  <2> QED BY <2>1, <2>2, <2>3, <1>3
<1>9. CASE stmt.kind = "EXEC_PROCEDURE" /\ c = Outcome(first, FALSE, NoCursor, rowThere)
  <2>1. OutcomeOf(c, first) /\ c.stmt.cursor = FALSE /\ c.server = NoCursor /\ c.reply = rowThere
    BY <1>9, <1>1 DEF Outcome, Cleared, Stmts, OutcomeOf
  <2> HIDE DEF first, rowThere, noRow, opened
  <2>2. Good(c) /\ c.stmt.kind = stmt.kind /\ c.stmt.row = first
    BY <1>1, <1>2, <1>3, <1>9, <2>1, OutcomeGood
  <2> QED BY <2>1, <2>2, <1>1
<1>10. CASE stmt.kind \notin {"SELECT", "EXEC_PROCEDURE"} /\ c = Outcome(NullRow, FALSE, NoCursor, rowThere)
  <2>1. OutcomeOf(c, NullRow) /\ c.stmt.cursor = FALSE /\ c.server = NoCursor /\ c.reply = rowThere
    BY <1>10 DEF Outcome, Cleared, Stmts, OutcomeOf
  <2> HIDE DEF first, rowThere, noRow, opened
  <2>2. Good(c) /\ c.stmt.kind = stmt.kind
    BY <1>1, <1>2, <1>3, <2>1, OutcomeGood
  <2> QED BY <2>1, <2>2, <1>10
<1>11. \/ c = Outcome(NullRow, FALSE, NoCursor, Failed)
       \/ stmt.kind = "SELECT" /\ \/ \E total \in 0 .. MaxRows : c = Outcome(NullRow, TRUE, opened(total, 0), Failed)
                                  \/ \E total \in 1 .. MaxRows : c = Outcome(first, TRUE, opened(total, 1), rowThere)
                                  \/ c = Outcome(NullRow, TRUE, opened(0, 0), noRow)
       \/ stmt.kind = "EXEC_PROCEDURE" /\ c = Outcome(first, FALSE, NoCursor, rowThere)
       \/ stmt.kind \notin {"SELECT", "EXEC_PROCEDURE"} /\ c = Outcome(NullRow, FALSE, NoCursor, rowThere)
  BY DEF Outcomes
<1> HIDE DEF first, rowThere, noRow, opened
<1> QED BY <1>5, <1>6, <1>7, <1>8, <1>9, <1>10, <1>11

(* How many rows a RowSet fetches, of those left in the cursor. *)
Left(c) == IF c.stmt.cursor /\ c.server.position <= c.server.total THEN c.server.total - c.server.position ELSE 0

LEMMA RowsFetchedFacts ==
  ASSUME NEW size \in Nat, NEW include \in BOOLEAN, NEW left \in Nat, NEW count, count = RowsFetched(size, include, left)
  PROVE  /\ count \in Nat /\ count <= left
         /\ include /\ size > 0 => count + 1 <= size /\ (count + 1 < size => count = left)
         /\ ~(include /\ size > 0) => count <= size /\ (count < size => count = left)
  BY DEF RowsFetched, Least

(* A RowSet, taken from the row the cursor stands on or behind it. *)
LEMMA RowSetGood ==
  ASSUME NEW c, Good(c), NEW e \in Nat, NEW size \in Nat, NEW include \in BOOLEAN,
         include => c.reply.op = "row" /\ c.reply.ok /\ c.stmt.row # NullRow,
         NEW d, d = RowSetOf(c, e, size, include)
  PROVE  Good(d)
<1> DEFINE position == c.server.position
           total == c.server.total
           count == RowsFetched(size, include, Left(c))
           copied == IF include /\ size > 0 THEN <<c.stmt.row>> ELSE <<>>
           f == Fetched(e, position, count)
<1>1. /\ c \in Moments /\ c.stmt \in Stmts /\ c.server \in Servers /\ c.seen \in Seq(Rows)
      /\ position \in Nat /\ total \in Nat /\ c.stmt.row \in Rows
  BY DEF Good, Moments, Stmts, Servers
<1>2. Left(c) \in Nat
  BY <1>1 DEF Left
<1>3. d = [c EXCEPT !.server.position = @ + count, !.seen = @ \o f,
                    !.reply = [op |-> "rowSet", size |-> size, rows |-> copied \o f]]
  BY DEF RowSetOf, Left, Fetched
<1>4. /\ count \in Nat /\ count <= Left(c)
      /\ include /\ size > 0 => count + 1 <= size /\ (count + 1 < size => count = Left(c))
      /\ ~(include /\ size > 0) => count <= size /\ (count < size => count = Left(c))
  BY <1>2, RowsFetchedFacts
<1>5. copied \in Seq(Rows) /\ Len(copied) = IF include /\ size > 0 THEN 1 ELSE 0
  BY <1>1
<1>6. copied # <<>> => include /\ copied = <<c.stmt.row>>
  OBVIOUS
<1> HIDE DEF count, copied
<1>7. /\ f \in Seq(Rows) /\ Len(f) = count /\ Consecutive(f) /\ (f = <<>> <=> count = 0)
      /\ count # 0 => f[1].n = position + 1 /\ f[count].n = position + count
  <2> HIDE DEF position
  <2> QED BY <1>1, <1>4, FetchedFacts
<1> HIDE DEF f
<1>8. d = [stmt |-> c.stmt, server |-> [c.server EXCEPT !.position = position + count], seen |-> c.seen \o f,
           lost |-> c.lost, reply |-> [op |-> "rowSet", size |-> size, rows |-> copied \o f]]
  BY <1>1, <1>3 DEF Moments
<1>9. /\ d.stmt = c.stmt /\ d.lost = c.lost /\ d.seen = c.seen \o f
      /\ d.reply.op = "rowSet" /\ d.reply.size = size /\ d.reply.rows = copied \o f
      /\ d.server.open = c.server.open /\ d.server.total = total /\ d.server.position = position + count
  <2>1. d.server = [c.server EXCEPT !.position = position + count]
    BY <1>8
  <2>2. /\ [c.server EXCEPT !.position = position + count].open = c.server.open
        /\ [c.server EXCEPT !.position = position + count].total = total
        /\ [c.server EXCEPT !.position = position + count].position = position + count
    BY <1>1 DEF Servers
  <2>3. d.server.open = c.server.open /\ d.server.total = total /\ d.server.position = position + count
    BY <2>1, <2>2
  <2>4. d.reply = [op |-> "rowSet", size |-> size, rows |-> copied \o f]
    BY <1>8
  <2>5. d.stmt = c.stmt /\ d.lost = c.lost /\ d.seen = c.seen \o f
    BY <1>8
  <2> HIDE DEF position, total
  <2> QED BY <2>3, <2>4, <2>5
<1>10. /\ count # 0 => c.stmt.cursor
       /\ position + count <= total + 1
       /\ count = Left(c) => ~c.stmt.cursor \/ position + count >= total
  <2>1. position <= total + 1
    BY DEF Good, HasCursor
  <2>2. CASE c.stmt.cursor /\ position <= total
    <3>1. Left(c) = total - position
      BY <2>2 DEF Left
    <3> HIDE DEF position, total
    <3> QED BY <1>1, <1>4, <2>2, <3>1
  <2>3. CASE ~(c.stmt.cursor /\ position <= total)
    <3>1. Left(c) = 0
      BY <2>3 DEF Left
    <3> HIDE DEF position, total
    <3> QED BY <1>1, <1>4, <2>1, <2>3, <3>1
  <2> QED BY <2>2, <2>3
<1> HIDE DEF position, total
<1>11. /\ d.seen \in Seq(Rows)
       /\ c.seen # <<>> => d.seen # <<>> /\ d.seen[1] = c.seen[1]
       /\ c.seen = <<>> => d.seen = f
       /\ f # <<>> => d.seen # <<>> /\ d.seen[Len(d.seen)] = f[Len(f)]
       /\ f = <<>> => d.seen = c.seen
  <2>1. c.seen \in Seq(Rows) /\ f \in Seq(Rows)
    BY <1>1, <1>7
  <2> DEFINE w == c.seen \o f
  <2>2. /\ w \in Seq(Rows)
        /\ c.seen # <<>> => w # <<>> /\ w[1] = c.seen[1]
        /\ c.seen = <<>> => w = f
        /\ f # <<>> => w # <<>> /\ w[Len(w)] = f[Len(f)]
        /\ f = <<>> => w = c.seen
    BY <2>1, ConcatEnds
  <2>3. d.seen = w
    BY <1>9
  <2> HIDE DEF w
  <2> QED BY <2>2, <2>3
<1>12. /\ d.reply.rows \in Seq(Rows) /\ Len(d.reply.rows) = Len(copied) + count
       /\ f # <<>> => d.reply.rows # <<>> /\ d.reply.rows[Len(d.reply.rows)] = f[Len(f)]
       /\ f = <<>> => d.reply.rows = copied
  <2> DEFINE w == copied \o f
  <2>1. copied \in Seq(Rows) /\ f \in Seq(Rows)
    BY <1>5, <1>7
  <2>2. /\ w \in Seq(Rows) /\ Len(w) = Len(copied) + Len(f)
        /\ f # <<>> => w # <<>> /\ w[Len(w)] = f[Len(f)]
        /\ f = <<>> => w = copied
    BY <2>1, ConcatEnds
  <2>3. d.reply.rows = w
    BY <1>9
  <2> HIDE DEF w
  <2> QED BY <2>2, <2>3, <1>7
<1>13. d \in Moments
  <2>1. position + count \in Nat
    BY <1>1, <1>4
  <2>2. d.server \in Servers
    <3>1. \A v \in Servers, n \in Nat : [v EXCEPT !.position = n] \in Servers
      BY DEF Servers
    <3>2. d.server = [c.server EXCEPT !.position = position + count]
      BY <1>8
    <3> QED BY <2>1, <3>1, <3>2, <1>1
  <2>3. d.reply \in [op : {"rowSet"}, size : Nat, rows : Seq(Rows)]
    <3>1. \A w \in Seq(Rows) : [op |-> "rowSet", size |-> size, rows |-> w] \in [op : {"rowSet"}, size : Nat, rows : Seq(Rows)]
      OBVIOUS
    <3>2. d.reply = [op |-> "rowSet", size |-> size, rows |-> copied \o f]
      BY <1>8
    <3>3. copied \o f \in Seq(Rows)
      BY <1>9, <1>12
    <3> QED BY <3>1, <3>2, <3>3
  <2>4. d.reply \in Replies
    BY <2>3 DEF Replies
  <2>5. d = [stmt |-> d.stmt, server |-> d.server, seen |-> d.seen, lost |-> d.lost, reply |-> d.reply]
    BY <1>8
  <2>6. d.stmt \in Stmts /\ d.seen \in Seq(Rows) /\ d.lost \in BOOLEAN
    BY <1>1, <1>9, <1>11 DEF Moments
  <2> QED BY <2>2, <2>4, <2>5, <2>6 DEF Moments
<1>14. HasCursor(d)
  BY <1>9, <1>10 DEF Good, HasCursor
<1>15. f # <<>> => f[1].n = position + 1 /\ f[Len(f)].n = position + count /\ c.stmt.cursor /\ count # 0
  BY <1>7, <1>10
<1>16. f = <<>> => count = 0 /\ position + count = position
  BY <1>1, <1>7
<1>17. StandsOnLast(c) /\ RowIsLast(c) /\ SeenInOrder(c)
  BY DEF Good
<1>18. StandsOnLast(d)
  <2>1. CASE f = <<>>
    BY <2>1, <1>9, <1>11, <1>16, <1>17 DEF StandsOnLast, position
  <2>2. CASE f # <<>>
    BY <2>2, <1>9, <1>11, <1>15 DEF StandsOnLast
  <2> QED BY <2>1, <2>2
<1>19. RowIsLast(d)
  BY <1>9 DEF RowIsLast
<1>20. SeenInOrder(d)
  <2>1. ASSUME ~c.lost PROVE Consecutive(c.seen \o f)
    <3>1. c.seen # <<>> /\ f # <<>> => f[1].n = c.seen[Len(c.seen)].n + 1
      BY <2>1, <1>15, <1>17 DEF StandsOnLast, position
    <3> QED BY <2>1, <3>1, <1>1, <1>7, <1>17, ConsecutiveConcat DEF SeenInOrder
  <2>2. ASSUME c.seen = <<>>, f # <<>>, ~c.stmt.scrollable, ~c.lost PROVE f[1].n = 1
    <3>1. position = 0
      BY <2>2, <1>15, <1>17 DEF StandsOnLast, position
    <3> QED BY <2>2, <3>1, <1>15
  <2>3. c.seen # <<>> /\ ~c.stmt.scrollable /\ ~c.lost => c.seen[1].n = 1
    BY <1>17 DEF SeenInOrder
  <2> QED BY <2>1, <2>2, <2>3, <1>9, <1>11 DEF SeenInOrder
<1>21. LastAnswer(d)
  <2>1. Consecutive(copied \o f)
    <3>1. CASE copied = <<>>
      BY <3>1, <1>5, <1>7, ConcatEmptySeq
    <3>2. CASE copied # <<>>
      <4>1. /\ copied[Len(copied)] = c.stmt.row /\ Consecutive(copied)
            /\ c.stmt.cursor => c.stmt.row.n = position
        BY <3>2, <1>1, <1>6, <1>17, OneRow DEF RowIsLast, position
      <4> QED BY <4>1, <1>5, <1>7, <1>15, ConsecutiveConcat
    <3> QED BY <3>1, <3>2
  <2>2. d.reply.rows # <<>> /\ d.seen # <<>> => d.reply.rows[Len(d.reply.rows)] = d.seen[Len(d.seen)]
    <3>1. CASE f # <<>>
      BY <3>1, <1>11, <1>12
    <3>2. CASE f = <<>> /\ copied # <<>>
      <4>1. copied[Len(copied)] = c.stmt.row /\ c.stmt.row = c.seen[Len(c.seen)]
        BY <3>2, <1>1, <1>6, <1>17, OneRow DEF RowIsLast
      <4> QED BY <4>1, <3>2, <1>11, <1>12
    <3>3. CASE f = <<>> /\ copied = <<>>
      BY <3>3, <1>12
    <3> QED BY <3>1, <3>2, <3>3
  <2>3. Len(copied) + count <= size /\ (Len(copied) + count < size => count = Left(c))
    BY <1>4, <1>5
  <2> QED BY <2>1, <2>2, <2>3, <1>9, <1>10, <1>12 DEF LastAnswer
<1> QED BY <1>13, <1>14, <1>18, <1>19, <1>20, <1>21 DEF Good

(* A RowSet that threw has moved the cursor past rows it gave to nobody. *)
LEMMA RowSetThrownGood ==
  ASSUME NEW c, Good(c), NEW size, NEW include, NEW d \in RowSetThrown(c, size, include)
  PROVE  Good(d)
<1>1. /\ c \in Moments /\ c.stmt \in Stmts /\ c.server \in Servers /\ c.seen \in Seq(Rows)
      /\ c.lost \in BOOLEAN /\ c.server.position \in Nat /\ c.server.total \in Nat
  BY DEF Good, Moments, Stmts, Servers
<1>2. PICK position \in c.server.position .. c.server.total :
         d = [c EXCEPT !.server.position = position, !.lost = @ \/ position > c.server.position, !.reply = Failed]
  BY DEF RowSetThrown
<1>3. position \in Nat /\ position <= c.server.total /\ c.server.position <= position
  BY <1>1
<1>4. d = [stmt |-> c.stmt, server |-> [c.server EXCEPT !.position = position], seen |-> c.seen,
           lost |-> c.lost \/ position > c.server.position, reply |-> Failed]
  BY <1>1, <1>2 DEF Moments
<1>5. /\ [c.server EXCEPT !.position = position].open = c.server.open
      /\ [c.server EXCEPT !.position = position].total = c.server.total
      /\ [c.server EXCEPT !.position = position].position = position
      /\ [c.server EXCEPT !.position = position] \in Servers
  BY <1>1, <1>3 DEF Servers
<1>6. d.server = [c.server EXCEPT !.position = position]
  BY <1>4
<1>7. /\ d.server.open = c.server.open /\ d.server.total = c.server.total /\ d.server.position = position
      /\ d.server \in Servers
  BY <1>5, <1>6
<1>8. d.stmt = c.stmt /\ d.seen = c.seen /\ d.reply.op = "failed" /\ d.reply \in Replies
  BY <1>4 DEF Failed, Replies
<1>9. /\ d.lost \in BOOLEAN
      /\ ~d.lost => ~c.lost /\ d.server.position = c.server.position
  <2>1. d.lost = (c.lost \/ position > c.server.position)
    BY <1>4
  <2>2. d.lost \in BOOLEAN
    BY <2>1
  <2>3. ASSUME ~d.lost PROVE ~c.lost /\ ~(position > c.server.position)
    BY <2>1, <2>3
  <2>4. ASSUME ~(position > c.server.position) PROVE position = c.server.position
    BY <2>4, <1>1, <1>3
  <2> QED BY <2>2, <2>3, <2>4, <1>7
<1>10. d \in Moments
  <2>1. d = [stmt |-> d.stmt, server |-> d.server, seen |-> d.seen, lost |-> d.lost, reply |-> d.reply]
    BY <1>4
  <2> QED BY <2>1, <1>1, <1>7, <1>8, <1>9 DEF Moments
<1>11. position <= c.server.total + 1
  BY <1>1, <1>3
<1>12. HasCursor(d)
  BY <1>7, <1>8, <1>11 DEF Good, HasCursor
<1>13. StandsOnLast(d) /\ SeenInOrder(d)
  BY <1>8, <1>9 DEF Good, StandsOnLast, SeenInOrder
<1>14. RowIsLast(d) /\ LastAnswer(d)
  BY <1>8 DEF RowIsLast, LastAnswer
<1> QED BY <1>10, <1>12, <1>13, <1>14 DEF Good
-----------------------------------------------------------------------------
(* The statement's calls, one by one. *)
After == [stmt |-> stmt', server |-> server', seen |-> seen', lost |-> lost', reply |-> reply']

LEMMA AfterCall == ASSUME exec' \in 0 .. Executions, Good(After) PROVE CursorInv'
  BY DEF CursorInv, Current, After

LEMMA BecomeGood == ASSUME NEW c, Good(c), Become(c) PROVE Good(After)
<1>1. c \in Moments
  BY DEF Good
<1>2. c = [stmt |-> c.stmt, server |-> c.server, seen |-> c.seen, lost |-> c.lost, reply |-> c.reply]
  BY <1>1 DEF Moments
<1>3. c = After
  BY <1>2 DEF Become, After
<1> QED BY <1>3

LEMMA CursorInvFacts ==
  ASSUME CursorInv
  PROVE  /\ Good(Current) /\ exec \in Nat /\ exec <= Executions /\ Executions \in Nat
         /\ stmt \in Stmts /\ server \in Servers /\ seen \in Seq(Rows) /\ lost \in BOOLEAN /\ reply \in Replies
         /\ Current.stmt = stmt /\ Current.server = server /\ Current.seen = seen
         /\ Current.lost = lost /\ Current.reply = reply
<1>1. /\ Current.stmt = stmt /\ Current.server = server /\ Current.seen = seen
      /\ Current.lost = lost /\ Current.reply = reply
  BY DEF Current
<1>2. Good(Current) /\ exec \in 0 .. Executions
  BY DEF CursorInv
<1>3. exec \in Nat /\ exec <= Executions /\ Executions \in Nat
  BY <1>2, CursorAssumption
<1> QED BY <1>1, <1>2, <1>3 DEF Good, Moments

(* Nothing is left to go wrong once there is no cursor and no row is given. *)
LEMMA Blank ==
  ASSUME NEW c, c.stmt \in Stmts, ~c.stmt.cursor, c.reply = Failed,
         c.server \in Servers, ~c.server.open, c.server.position <= c.server.total + 1,
         c = [stmt |-> c.stmt, server |-> c.server, seen |-> c.seen, lost |-> c.lost, reply |-> c.reply],
         c.seen \in Seq(Rows), c.lost \in BOOLEAN, SeenInOrder(c)
  PROVE  Good(c)
<1>1. Failed \in Replies /\ Failed.op = "failed"
  BY DEF Failed, Replies
<1>2. c \in Moments
  BY <1>1 DEF Moments
<1>3. HasCursor(c)
  BY DEF HasCursor
<1>4. StandsOnLast(c) /\ RowIsLast(c) /\ LastAnswer(c)
  BY <1>1 DEF StandsOnLast, RowIsLast, LastAnswer
<1> QED BY <1>2, <1>3, <1>4 DEF Good

LEMMA NoCursorType ==
  NoCursor \in Servers /\ ~NoCursor.open /\ NoCursor.position <= NoCursor.total + 1
<1>1. NoCursor.position = 0 /\ NoCursor.total = 0 /\ 0 <= 0 + 1
  BY DEF NoCursor
<1>2. NoCursor \in Servers /\ ~NoCursor.open
  BY DEF NoCursor, Servers
<1> QED BY <1>1, <1>2

LEMMA AfterFields ==
  /\ After.stmt = stmt' /\ After.server = server' /\ After.seen = seen' /\ After.lost = lost' /\ After.reply = reply'
  /\ After = [stmt |-> After.stmt, server |-> After.server, seen |-> After.seen, lost |-> After.lost, reply |-> After.reply]
  BY DEF After

(* Before there is a statement, and after its destructor. *)
LEMMA BlankStart ==
  ASSUME NEW c, c.stmt \in Stmts, ~c.stmt.cursor, c.reply = Failed,
         c.server \in Servers, ~c.server.open, c.server.position <= c.server.total + 1,
         c = [stmt |-> c.stmt, server |-> c.server, seen |-> c.seen, lost |-> c.lost, reply |-> c.reply],
         c.seen = <<>>, c.lost = FALSE
  PROVE  Good(c)
<1>1. Consecutive(<<>>) /\ <<>> \in Seq(Rows)
  BY DEF Consecutive
<1>2. SeenInOrder(c)
  BY <1>1 DEF SeenInOrder
<1> QED BY <1>1, <1>2, Blank

LEMMA NoStatementType == NoStatement \in Stmts /\ ~NoStatement.cursor /\ ~NoStatement.exists
  BY DEF NoStatement, Stmts, Kinds, Rows, NullRow

LEMMA CursorStart == CursorInit => CursorInv
<1> SUFFICES ASSUME CursorInit PROVE CursorInv
  OBVIOUS
<1>1. /\ Current.stmt = NoStatement /\ Current.server = NoCursor /\ Current.reply = Failed
      /\ Current.seen = <<>> /\ Current.lost = FALSE
      /\ Current = [stmt |-> Current.stmt, server |-> Current.server, seen |-> Current.seen,
                    lost |-> Current.lost, reply |-> Current.reply]
  BY DEF CursorInit, Current
<1>2. Good(Current)
  BY <1>1, NoStatementType, NoCursorType, BlankStart
<1>3. exec \in 0 .. Executions
  BY CursorAssumption DEF CursorInit
<1> QED BY <1>2, <1>3 DEF CursorInv

LEMMA ThrowsKeeps == ASSUME CursorInv, Throws PROVE CursorInv'
<1>1. Good([Current EXCEPT !.reply = Failed])
  BY CursorInvFacts, GoodReply DEF Failed
<1>2. [Current EXCEPT !.reply = Failed] = After
  BY DEF Current, After, Throws
<1>3. exec' \in 0 .. Executions
  BY DEF Throws, CursorInv
<1> QED BY <1>1, <1>2, <1>3, AfterCall

LEMMA PrepareKeeps == ASSUME CursorInv, PrepareStatement PROVE CursorInv'
<1>1. stmt' \in Stmts /\ ~stmt'.cursor
  <2>1. PICK kind \in Kinds, scrollable \in BOOLEAN :
           stmt' = [NoStatement EXCEPT !.exists = TRUE, !.handle = TRUE, !.kind = kind, !.scrollable = scrollable]
    BY DEF PrepareStatement
  <2>2. stmt' = [exists |-> TRUE, handle |-> TRUE, cursor |-> FALSE, kind |-> kind, scrollable |-> scrollable, row |-> NullRow]
    BY <2>1 DEF NoStatement
  <2>3. NullRow \in Rows
    BY DEF Rows, NullRow
  <2> QED BY <2>2, <2>3 DEF Stmts
<1>2. server \in Servers /\ ~server.open /\ server.position <= server.total + 1
  BY CursorInvFacts DEF Good, HasCursor, PrepareStatement
<1>3. Good(After)
  BY <1>1, <1>2, AfterFields, BlankStart DEF PrepareStatement
<1>4. exec' \in 0 .. Executions
  BY CursorAssumption DEF PrepareStatement
<1> QED BY <1>3, <1>4, AfterCall

LEMMA DestroyKeeps == ASSUME CursorInv, DestroyStatement PROVE CursorInv'
<1>1. Good(After)
  BY AfterFields, NoStatementType, NoCursorType, BlankStart DEF DestroyStatement
<1>2. exec' \in 0 .. Executions
  BY CursorAssumption DEF DestroyStatement
<1> QED BY <1>1, <1>2, AfterCall

LEMMA FreeKeeps == ASSUME CursorInv, free PROVE CursorInv'
<1>1. stmt' \in Stmts /\ ~stmt'.cursor /\ stmt'.scrollable = stmt.scrollable
  BY CursorInvFacts DEF free, CloseCursor, Stmts
<1>2. SeenInOrder(After)
  BY <1>1, CursorInvFacts, AfterFields DEF Good, SeenInOrder, free
<1>3. seen' = seen /\ lost' = lost /\ server' = NoCursor /\ reply' = Failed /\ exec' = exec
  BY DEF free
<1>4. Good(After)
  BY <1>1, <1>2, <1>3, CursorInvFacts, AfterFields, NoCursorType, Blank
<1>5. exec' \in 0 .. Executions
  BY <1>3 DEF CursorInv
<1> QED BY <1>4, <1>5, AfterCall

LEMMA ExecuteKeeps == ASSUME CursorInv, Execute PROVE CursorInv'
<1>1. PICK c \in Outcomes(exec + 1) : Become(c)
  BY DEF Execute
<1>2. exec + 1 \in Nat /\ exec' \in 0 .. Executions
  BY CursorInvFacts DEF Execute
<1>3. Good(c)
  BY <1>2, CursorInvFacts, OutcomesGood DEF Execute
<1> QED BY <1>1, <1>2, <1>3, BecomeGood, AfterCall

LEMMA QueryKeeps == ASSUME CursorInv, queryPreparedRowSet PROVE CursorInv'
<1> DEFINE answered(c) == c.reply.op = "row" /\ c.reply.ok
           atMost(c, maxRows) == IF answered(c) THEN (IF stmt.kind = "EXEC_PROCEDURE" THEN 1 ELSE maxRows) ELSE 0
<1>1. PICK c \in Outcomes(exec + 1), maxRows \in RowSetSizes :
         \/ Become(c)
         \/ Become(RowSetOf(c, exec + 1, atMost(c, maxRows), answered(c)))
         \/ \E d \in RowSetThrown(c, atMost(c, maxRows), answered(c)) : Become(d)
  BY DEF queryPreparedRowSet
<1>2. exec + 1 \in Nat /\ exec' \in 0 .. Executions
  BY CursorInvFacts DEF queryPreparedRowSet
<1>3. Good(c) /\ (answered(c) => c.stmt.row # NullRow)
  BY <1>2, CursorInvFacts, OutcomesGood DEF queryPreparedRowSet
<1>4. atMost(c, maxRows) \in Nat
  BY CursorAssumption
<1>5. answered(c) => c.reply.op = "row" /\ c.reply.ok /\ c.stmt.row # NullRow
  BY <1>3
<1>6. PICK size \in Nat, include \in BOOLEAN :
        /\ size = atMost(c, maxRows) /\ include = answered(c)
  BY <1>4
<1>7. include => c.reply.op = "row" /\ c.reply.ok /\ c.stmt.row # NullRow
  BY <1>5, <1>6
<1>8. \/ Become(c) \/ Become(RowSetOf(c, exec + 1, size, include))
      \/ \E d \in RowSetThrown(c, size, include) : Become(d)
  BY <1>1, <1>6
<1> HIDE DEF answered, atMost
<1>9. Good(RowSetOf(c, exec + 1, size, include))
  BY <1>2, <1>3, <1>7, RowSetGood
<1>10. \A d \in RowSetThrown(c, size, include) : Good(d)
  BY <1>3, RowSetThrownGood
<1>11. Good(After)
  BY <1>3, <1>8, <1>9, <1>10, BecomeGood
<1> QED BY <1>2, <1>11, AfterCall

LEMMA NewRowSetKeeps == ASSUME CursorInv, NewRowSet PROVE CursorInv'
<1>1. PICK size \in RowSetSizes, include \in BOOLEAN :
         /\ IF include THEN reply.op = "row" /\ reply.ok /\ stmt.row # NullRow ELSE stmt.cursor
         /\ \/ (stmt.cursor => server.open) /\ Become(RowSetOf(Current, exec, size, include))
            \/ stmt.cursor /\ \E c \in RowSetThrown(Current, size, include) : Become(c)
  BY DEF NewRowSet
<1>2. size \in Nat /\ exec \in Nat /\ Good(Current)
  BY CursorAssumption, CursorInvFacts
<1>3. include => Current.reply.op = "row" /\ Current.reply.ok /\ Current.stmt.row # NullRow
  BY <1>1, CursorInvFacts
<1>4. Good(RowSetOf(Current, exec, size, include))
  BY <1>2, <1>3, RowSetGood
<1>5. \A d \in RowSetThrown(Current, size, include) : Good(d)
  BY <1>2, RowSetThrownGood
<1>6. Good(After)
  BY <1>1, <1>4, <1>5, BecomeGood
<1>7. exec' \in 0 .. Executions
  BY DEF NewRowSet, CursorInv
<1> QED BY <1>6, <1>7, AfterCall

(* A fetch that finds row n, with the rows handed out now in s. *)
LEMMA FetchedGood ==
  ASSUME CursorInv, stmt.cursor, NEW n \in 1 .. server.total, NEW s \in Seq(Rows),
         s # <<>>, s[Len(s)] = Row(n), stmt' = [stmt EXCEPT !.row = Row(n)],
         server' = [server EXCEPT !.position = n], seen' = s, lost' \in BOOLEAN,
         reply' = [op |-> "row", ok |-> TRUE],
         ~lost' => Consecutive(s), ~stmt.scrollable /\ ~lost' => s[1].n = 1
  PROVE  Good(After)
<1>1. Row(n) \in Rows /\ Row(n).n = n
  BY CursorInvFacts DEF Row, Rows, Servers
<1>2. /\ stmt' \in Stmts /\ stmt'.row = Row(n) /\ stmt'.cursor = stmt.cursor /\ stmt'.exists = stmt.exists
      /\ stmt'.handle = stmt.handle /\ stmt'.kind = stmt.kind /\ stmt'.scrollable = stmt.scrollable
  BY <1>1, CursorInvFacts DEF Stmts
<1>3. server' \in Servers /\ server'.open = server.open /\ server'.total = server.total /\ server'.position = n
  <2>1. n \in Nat
    BY CursorInvFacts DEF Servers
  <2>2. \A v \in Servers : [v EXCEPT !.position = n] \in Servers /\ [v EXCEPT !.position = n].open = v.open
           /\ [v EXCEPT !.position = n].total = v.total /\ [v EXCEPT !.position = n].position = n
    BY <2>1 DEF Servers
  <2> QED BY <2>2, CursorInvFacts
<1>4. n <= server.total + 1
  BY CursorInvFacts DEF Servers
<1>5. reply' \in Replies /\ reply'.op = "row" /\ reply'.ok = TRUE
  BY DEF Replies
<1>6. After \in Moments
  BY <1>2, <1>3, <1>5, AfterFields DEF Moments
<1>7. HasCursor(After)
  BY <1>2, <1>3, <1>4, CursorInvFacts, AfterFields DEF Good, HasCursor
<1>8. StandsOnLast(After) /\ RowIsLast(After)
  BY <1>1, <1>2, <1>3, AfterFields DEF StandsOnLast, RowIsLast
<1>9. SeenInOrder(After) /\ LastAnswer(After)
  BY <1>2, <1>5, AfterFields DEF SeenInOrder, LastAnswer
<1> QED BY <1>6, <1>7, <1>8, <1>9 DEF Good

(* No row: the reply says so, the rest is as it was. *)
LEMMA NothingFound ==
  ASSUME CursorInv, UNCHANGED <<stmt, server, seen, lost>>,
         reply' \in [op : {"failed"}] \union [op : {"row"}, ok : {FALSE}]
  PROVE  Good(After)
<1>1. Good([Current EXCEPT !.reply = reply'])
  BY CursorInvFacts, GoodReply
<1>2. [Current EXCEPT !.reply = reply'] = After
  BY DEF Current, After
<1> QED BY <1>1, <1>2

LEMMA FetchNextKeeps == ASSUME CursorInv, fetchNext PROVE CursorInv'
<1> DEFINE next == server.position + 1
           there == stmt.cursor /\ server.open /\ next <= server.total
<1>1. CASE there
  <2>1. /\ server' = [server EXCEPT !.position = next] /\ stmt' = [stmt EXCEPT !.row = Row(next)]
        /\ seen' = Append(seen, Row(next)) /\ reply' = [op |-> "row", ok |-> TRUE] /\ lost' = lost
    BY <1>1 DEF fetchNext
  <2>2. next \in 1 .. server.total /\ next \in Nat /\ server.position \in Nat
    BY <1>1, CursorInvFacts DEF Servers
  <2>3. Row(next) \in Rows /\ Row(next).n = server.position + 1
    BY <2>2, CursorInvFacts DEF Row, Rows
  <2>4. seen' = seen \o <<Row(next)>>
    BY <2>1, <2>3, CursorInvFacts, AppendIsConcat
  <2> DEFINE r == Row(next)
  <2> HIDE DEF r, next
  <2>5. r \in Rows /\ r.n = server.position + 1 /\ r = Row(next) /\ seen' = seen \o <<r>>
    BY <2>3, <2>4 DEF r
  <2>6. <<r>> \in Seq(Rows) /\ Len(<<r>>) = 1 /\ <<r>>[1] = r /\ <<r>> # <<>> /\ Consecutive(<<r>>)
    BY <2>5, OneRow
  <2>7. /\ seen' \in Seq(Rows) /\ seen' # <<>> /\ seen'[Len(seen')] = r
        /\ seen # <<>> => seen'[1] = seen[1]
        /\ seen = <<>> => seen'[1] = r
    BY <2>5, <2>6, CursorInvFacts, ConcatEnds
  <2>8. StandsOnLast(Current) /\ SeenInOrder(Current)
    BY CursorInvFacts DEF Good
  <2>9. ~lost /\ seen # <<>> => r.n = seen[Len(seen)].n + 1
    BY <1>1, <2>5, <2>8, CursorInvFacts DEF StandsOnLast
  <2>10. ~lost => Consecutive(seen')
    BY <2>5, <2>6, <2>8, <2>9, CursorInvFacts, ConsecutiveConcat DEF SeenInOrder
  <2>11. ~lost /\ ~stmt.scrollable => seen'[1].n = 1
    <3>1. ~lost /\ ~stmt.scrollable /\ seen = <<>> => r.n = 1
      BY <1>1, <2>2, <2>5, <2>8, CursorInvFacts DEF StandsOnLast
    <3>2. ~lost /\ ~stmt.scrollable /\ seen # <<>> => seen[1].n = 1
      BY <2>8, CursorInvFacts DEF SeenInOrder
    <3> QED BY <3>1, <3>2, <2>7
  <2>12. stmt.cursor /\ lost' \in BOOLEAN
    BY <1>1, <2>1, CursorInvFacts
  <2>13. Good(After)
    BY <2>1, <2>2, <2>5, <2>7, <2>10, <2>11, <2>12, FetchedGood
  <2>14. exec' \in 0 .. Executions
    BY <1>1 DEF fetchNext, CursorInv, next
  <2> QED BY <2>13, <2>14, AfterCall
<1>2. CASE ~there
  <2>1. reply' \in [op : {"failed"}] \union [op : {"row"}, ok : {FALSE}]
    <3>1. reply' = Failed \/ reply' = [op |-> "row", ok |-> FALSE]
      BY <1>2 DEF fetchNext
    <3>2. Failed \in [op : {"failed"}] /\ [op |-> "row", ok |-> FALSE] \in [op : {"row"}, ok : {FALSE}]
      BY DEF Failed
    <3> QED BY <3>1, <3>2
  <2>2. UNCHANGED <<stmt, server, seen, lost>> /\ exec' \in 0 .. Executions
    BY <1>2 DEF fetchNext, CursorInv
  <2> QED BY <2>1, <2>2, NothingFound, AfterCall
<1> QED BY <1>1, <1>2

LEMMA FetchElsewhereKeeps == ASSUME CursorInv, fetchElsewhere PROVE CursorInv'
<1>1. PICK to \in 0 .. server.total + 1 :
         LET found == to \in 1 .. server.total
         IN  /\ server' = [server EXCEPT !.position = to]
             /\ stmt' = IF found THEN [stmt EXCEPT !.row = Row(to)] ELSE stmt
             /\ seen' = IF found THEN <<Row(to)>> ELSE <<>>
             /\ reply' = [op |-> "row", ok |-> found]
  BY DEF fetchElsewhere
<1>2. lost' = FALSE /\ stmt.cursor /\ stmt.scrollable /\ exec' \in 0 .. Executions
  BY DEF fetchElsewhere, CursorInv
<1>3. server.total \in Nat /\ to \in Nat
  BY CursorInvFacts DEF Servers
<1>4. CASE to \in 1 .. server.total
  <2>1. /\ server' = [server EXCEPT !.position = to] /\ stmt' = [stmt EXCEPT !.row = Row(to)]
        /\ seen' = <<Row(to)>> /\ reply' = [op |-> "row", ok |-> TRUE]
    BY <1>1, <1>4
  <2> DEFINE r == Row(to)
  <2>2. r \in Rows
    BY <1>3, CursorInvFacts DEF Row, Rows
  <2> HIDE DEF r
  <2>3. seen' = <<r>> /\ r = Row(to)
    BY <2>1 DEF r
  <2>4. <<r>> \in Seq(Rows) /\ <<r>> # <<>> /\ <<r>>[Len(<<r>>)] = r /\ Consecutive(<<r>>)
    BY <2>2, OneRow
  <2>5. Good(After)
    BY <1>2, <1>4, <2>1, <2>3, <2>4, FetchedGood
  <2> QED BY <1>2, <2>5, AfterCall
<1>5. CASE to \notin 1 .. server.total
  <2>1. /\ server' = [server EXCEPT !.position = to] /\ stmt' = stmt /\ seen' = <<>>
        /\ reply' = [op |-> "row", ok |-> FALSE]
    <3> DEFINE found == to \in 1 .. server.total
    <3>1. found = FALSE
      BY <1>5
    <3>2. /\ server' = [server EXCEPT !.position = to] /\ (~found => stmt' = stmt /\ seen' = <<>>)
          /\ reply' = [op |-> "row", ok |-> found]
      BY <1>1
    <3> HIDE DEF found
    <3> QED BY <3>1, <3>2
  <2>2. server' \in Servers /\ server'.open = server.open /\ server'.total = server.total /\ server'.position = to
    BY <1>3, <2>1, CursorInvFacts DEF Servers
  <2>3. reply' \in Replies /\ reply'.op = "row" /\ reply'.ok = FALSE
    BY <2>1 DEF Replies
  <2>4. After \in Moments
    <3>1. stmt' \in Stmts
      BY <2>1, CursorInvFacts
    <3>2. seen' \in Seq(Rows)
      BY <2>1
    <3>3. lost' \in BOOLEAN
      BY <1>2
    <3> QED BY <2>2, <2>3, <3>1, <3>2, <3>3, AfterFields DEF Moments
  <2>5. to <= server.total + 1
    BY <1>3
  <2>6. HasCursor(After)
    BY <2>1, <2>2, <2>5, CursorInvFacts, AfterFields DEF Good, HasCursor
  <2>7. Consecutive(<<>>)
    BY DEF Consecutive
  <2>8. StandsOnLast(After) /\ SeenInOrder(After)
    BY <1>2, <2>1, <2>7, AfterFields DEF StandsOnLast, SeenInOrder
  <2>9. RowIsLast(After) /\ LastAnswer(After)
    BY <2>3, AfterFields DEF RowIsLast, LastAnswer
  <2>10. Good(After)
    BY <2>4, <2>6, <2>8, <2>9 DEF Good
  <2> QED BY <1>2, <2>10, AfterCall
<1> QED BY <1>4, <1>5

LEMMA ServerClosesKeeps == ASSUME CursorInv, ServerClosesCursor PROVE CursorInv'
<1>1. server' \in Servers /\ ~server'.open /\ server'.total = server.total /\ server'.position = server.position
  BY CursorInvFacts DEF ServerClosesCursor, Servers
<1>2. stmt' = stmt /\ seen' = seen /\ lost' = lost /\ reply' = reply /\ exec' = exec
  BY DEF ServerClosesCursor
<1>3. After \in Moments
  BY <1>1, <1>2, AfterFields, CursorInvFacts DEF Moments
<1>4. HasCursor(After) /\ StandsOnLast(After) /\ RowIsLast(After) /\ SeenInOrder(After) /\ LastAnswer(After)
  BY <1>1, <1>2, AfterFields, CursorInvFacts DEF Good, HasCursor, StandsOnLast, RowIsLast, SeenInOrder, LastAnswer
<1>5. Good(After) /\ exec' \in 0 .. Executions
  BY <1>2, <1>3, <1>4 DEF Good, CursorInv
<1> QED BY <1>5, AfterCall

LEMMA CursorStays == ASSUME CursorInv, UNCHANGED cursorVars PROVE CursorInv'
<1>1. After = Current /\ exec' = exec
  BY DEF After, Current, cursorVars
<1>2. Good(After) /\ exec' \in 0 .. Executions
  BY <1>1 DEF CursorInv
<1> QED BY <1>2, AfterCall
-----------------------------------------------------------------------------
(* Every step of the session keeps what the calls of the statement keep. *)
LEMMA CursorStep == ASSUME CursorInv, [Next]_vars PROVE CursorInv'
<1>1. CASE TransactionStep
  BY <1>1, ServerClosesKeeps, CursorStays DEF TransactionStep, Dependants, cursorVars
<1>2. CASE StatementStep
  <2>1. CASE PrepareStatement
    BY <2>1, PrepareKeeps
  <2>2. CASE Execute
    BY <2>2, ExecuteKeeps
  <2>3. CASE queryPreparedRowSet
    BY <2>3, QueryKeeps
  <2>4. CASE ExecuteNotClosed \/ FetchRefused \/ FreeRefused
    BY <2>4, ThrowsKeeps DEF ExecuteNotClosed, FetchRefused, FreeRefused
  <2>5. CASE fetchNext
    BY <2>5, FetchNextKeeps
  <2>6. CASE fetchElsewhere
    BY <2>6, FetchElsewhereKeeps
  <2>7. CASE NewRowSet
    BY <2>7, NewRowSetKeeps
  <2>8. CASE free
    BY <2>8, FreeKeeps
  <2>9. CASE DestroyStatement
    BY <2>9, DestroyKeeps
  <2> QED BY <1>2, <2>1, <2>2, <2>3, <2>4, <2>5, <2>6, <2>7, <2>8, <2>9 DEF StatementStep
<1>3. CASE BlobStep
  BY <1>3, CursorStays DEF BlobStep
<1>4. CASE UNCHANGED vars
  BY <1>4, CursorStays DEF vars
<1> QED BY <1>1, <1>2, <1>3, <1>4 DEF Next

(* Whoever reads a result, row by row and by RowSets of any sizes, in any  *)
(* mixture, gets every row once and in order, however large results and    *)
(* RowSets are: only the rows of a RowSet that threw are lost.             *)
THEOREM RowsInOrderHolds == Spec => []RowsInOrder
<1>1. Init => CursorInv
  BY CursorStart DEF Init
<1>2. CursorInv /\ [Next]_vars => CursorInv'
  BY CursorStep
<1>3. CursorInv => RowsInOrder
  BY CursorInvMeans
<1> QED BY <1>1, <1>2, <1>3, PTL DEF Spec
-----------------------------------------------------------------------------
(* Every step of the session keeps what the calls of the blob keep. *)
LEMMA BytesStep == ASSUME BlobInv, [Next]_vars PROVE BlobInv'
<1>1. CASE TransactionStep
  BY <1>1, ServerClosesBlobKeeps, BlobStays DEF TransactionStep, Dependants, blobVars
<1>2. CASE StatementStep
  BY <1>2, BlobStays DEF StatementStep
<1>3. CASE BlobStep
  <2>1. BlobNext
    BY <1>3 DEF BlobStep, BlobNext
  <2> QED BY <2>1, BlobNextKeeps
<1>4. CASE UNCHANGED vars
  BY <1>4, BlobStays DEF vars
<1> QED BY <1>1, <1>2, <1>3, <1>4 DEF Next

(* However bytes are cut into buffers, chunks and segments on the way in   *)
(* and out, whatever other programs have stored and whenever the           *)
(* transaction ends: a blob holds every byte given, once and in order, and *)
(* a reader gets what lies behind its place without a gap.                 *)
THEOREM BytesConservedHolds == Spec => []BytesConserved
<1>1. Init => BlobInv
  BY BlobStart DEF Init
<1>2. BlobInv /\ [Next]_vars => BlobInv'
  BY BytesStep
<1>3. BlobInv => BytesConserved
  BY BlobInvMeans
<1> QED BY <1>1, <1>2, <1>3, PTL DEF Spec

(* The types of a session, and what the objects' flags promise of their    *)
(* handles: for any number of objects, databases, rows and bytes.          *)
THEOREM TypeCorrect == Spec => []TypeOK
<1>1. Init => CursorInv /\ BlobInv
  BY CursorStart, BlobStart DEF Init
<1>2. CursorInv /\ BlobInv /\ [Next]_vars => (CursorInv /\ BlobInv)'
  BY CursorStep, BytesStep
<1>3. CursorInv /\ BlobInv => CursorTypeOK /\ BlobTypeOK
  BY CursorInvMeans, BlobInvMeans
<1>4. Spec => []TxInv
  BY SpecTxInv
<1>5. TxInv /\ CursorTypeOK /\ BlobTypeOK => TypeOK
  BY DEF TypeOK
<1> QED BY <1>1, <1>2, <1>3, <1>4, <1>5, PTL DEF Spec
=============================================================================

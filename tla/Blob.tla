--------------------------------- MODULE Blob ---------------------------------
(***************************************************************************)
(* One Blob object at a time, writing a new blob or reading one that is    *)
(* stored.  Bytes are numbered in the order the program hands them over,   *)
(* so what is stored and what is read tell whether one was lost, repeated  *)
(* or moved.  A stored blob is a sequence of segments.                     *)
(*                                                                         *)
(* The server is external: it keeps the segments it is given, hands out    *)
(* the current one up to the size of the buffer, and may refuse.           *)
(* Bounds: MaxChunk for 65535, MaxBytes in a blob, BufferSizes.            *)
(***************************************************************************)
EXTENDS Integers, Sequences, SequencesExt

CONSTANTS MaxChunk, MaxBytes, BufferSizes,
    ForeignBlobs    \* blobs other programs have stored, each a sequence of segments

Content(segments) == FlattenSeq(segments)

ASSUME BlobAssumption ==
    /\ MaxChunk \in Nat \ {0} /\ MaxBytes \in Nat /\ BufferSizes \subseteq Nat
    /\ \A segments \in ForeignBlobs : segments \in Seq(Seq(Nat)) /\ Len(Content(segments)) <= MaxBytes

VARIABLES
    blob,       \* the Blob object: [exists, handle, open, mode]
    stored,     \* the segments of the blob, each a sequence of bytes
    given,      \* bytes handed over by calls of write that returned
    place,      \* for a reader: what is left of the segments
    taken,      \* for a reader: bytes read since it was opened or positioned
    start,      \* for a reader: where it was opened or positioned
    last        \* the last read: [asked, got, ...]

blobVars == <<blob, stored, given, place, taken, start, last>>

NoBlob == [exists |-> FALSE, handle |-> FALSE, open |-> FALSE, mode |-> "none"]
NoRead == [asked |-> 0, got |-> 0, single |-> FALSE]
Numbered(from, count) == [i \in 1 .. count |-> from + i]
writing == blob.handle /\ blob.mode = "write"
reading == blob.handle /\ blob.mode = "read"
written == blob.mode \in {"write", "failed"}     \* not stored unless it is closed

BlobInit ==
    /\ blob = NoBlob /\ stored = <<>> /\ given = 0
    /\ place = <<>> /\ taken = <<>> /\ start = 0 /\ last = NoRead

CreateBlob ==
    /\ ~blob.exists
    /\ blob' = [exists |-> TRUE, handle |-> TRUE, open |-> TRUE, mode |-> "write"]
    /\ stored' = <<>> /\ given' = 0
    /\ UNCHANGED <<place, taken, start, last>>

(* The blob written before, or one of another program. *)
OpenBlob ==
    /\ ~blob.exists
    /\ blob' = [exists |-> TRUE, handle |-> TRUE, open |-> TRUE, mode |-> "read"]
    /\ stored' \in {stored} \union ForeignBlobs
    /\ given' = Len(Content(stored'))
    /\ place' = stored' /\ taken' = <<>> /\ start' = 0 /\ last' = NoRead

(* write(): the buffer in chunks, to the first that is refused. *)
Chunk(size, k) == IF (k - 1) * MaxChunk >= size THEN 0
                  ELSE IF k * MaxChunk <= size THEN MaxChunk ELSE size - (k - 1) * MaxChunk
ChunkCount(size) == (size + MaxChunk - 1) \div MaxChunk

(* Mistaken: what is left behind the last full chunk is forgotten. *)
ChunksFull(size, first) == [k \in 1 .. size \div MaxChunk |-> Numbered(first + (k - 1) * MaxChunk, MaxChunk)]

Chunks(size, first) ==
    [k \in 1 .. ChunkCount(size) |-> Numbered(first + (k - 1) * MaxChunk, Chunk(size, k))]

write ==
    /\ writing /\ blob.open
    /\ \E size \in BufferSizes :
          /\ given + size <= MaxBytes
          /\ stored' = stored \o Chunks(size, given)
          /\ given' = given + size
    /\ UNCHANGED <<blob, place, taken, start, last>>

(* A refused write has stored the chunks before, and the program, which    *)
(* cannot know how many, gives the blob up.                                *)
WriteRefused ==
    /\ writing
    /\ \E size \in BufferSizes : \E k \in 0 .. ChunkCount(size) - 1 :
          /\ given + size <= MaxBytes
          /\ blob.open \/ k = 0
          /\ stored' = stored \o SubSeq(Chunks(size, given), 1, k)
          /\ blob' = [blob EXCEPT !.mode = "failed"]
    /\ UNCHANGED <<given, place, taken, start, last>>

(* writeSegment(): one segment, whatever its size; none if it is empty. *)
writeSegment ==
    /\ writing /\ blob.open
    /\ \E size \in BufferSizes :
          /\ given + size <= MaxBytes
          /\ stored' = IF size = 0 THEN stored ELSE Append(stored, Numbered(given, size))
          /\ given' = given + size
    /\ UNCHANGED <<blob, place, taken, start, last>>

(* External: getSegment with a buffer of that size, size > 0. *)
GetSegment(segments, size) ==
    IF segments = <<>> THEN [bytes |-> <<>>, rest |-> <<>>]
    ELSE IF Len(Head(segments)) <= size THEN [bytes |-> Head(segments), rest |-> Tail(segments)]
    ELSE [bytes |-> SubSeq(Head(segments), 1, size),
          rest |-> <<SubSeq(Head(segments), size + 1, Len(Head(segments)))>> \o Tail(segments)]

(* readSegment(): nothing at the end, nothing into an empty buffer. *)
ReadSegmentOf(segments, size) ==
    IF size = 0 THEN [bytes |-> <<>>, rest |-> segments] ELSE GetSegment(segments, size)

(* read(): chunk after chunk until the buffer is full or nothing comes. *)
ReadFrom(segments, size) ==
    LET chunk(left) == IF left < MaxChunk THEN left ELSE MaxChunk
        after[n \in 0 .. size] ==
            IF n = 0 THEN [bytes |-> <<>>, rest |-> segments, done |-> size = 0]
            ELSE LET before == after[n - 1]
                     left == size - Len(before.bytes)
                     now == ReadSegmentOf(before.rest, chunk(left))
                 IN  IF before.done THEN before
                     ELSE [bytes |-> before.bytes \o now.bytes, rest |-> now.rest,
                           done |-> now.bytes = <<>> \/ Len(now.bytes) = left]
    IN  after[size]

ReadBy(answer, size, single) ==
    /\ place' = answer.rest /\ taken' = taken \o answer.bytes
    /\ last' = [asked |-> size, got |-> Len(answer.bytes), single |-> single]
    /\ UNCHANGED <<blob, stored, given, start>>

read == reading /\ blob.open /\ \E size \in BufferSizes : ReadBy(ReadFrom(place, size), size, FALSE)
readSegment == reading /\ blob.open /\ \E size \in BufferSizes : ReadBy(ReadSegmentOf(place, size), size, TRUE)

(* A refused read has taken the chunks before from the server; the program *)
(* cannot go on from there.                                                *)
ReadRefused ==
    /\ reading
    /\ blob' = [blob EXCEPT !.mode = "read failed"]
    /\ UNCHANGED <<stored, given, place, taken, start, last>>

(* seek() in a blob stored as a stream: segments do not matter. *)
seek ==
    /\ reading /\ blob.open /\ Len(stored) = 1
    /\ \E to \in 0 .. Len(stored[1]) :
          /\ place' = IF to = Len(stored[1]) THEN <<>> ELSE <<SubSeq(stored[1], to + 1, Len(stored[1]))>>
          /\ start' = to
    /\ taken' = <<>> /\ last' = NoRead
    /\ UNCHANGED <<blob, stored, given>>

(* close() and cancel(): what is cancelled is not stored. *)
closeBlob ==
    /\ blob.handle /\ blob.open
    /\ blob' = [blob EXCEPT !.handle = FALSE, !.open = FALSE]
    /\ UNCHANGED <<stored, given, place, taken, start, last>>
cancelBlob ==
    /\ blob.handle /\ blob.open
    /\ blob' = [blob EXCEPT !.handle = FALSE, !.open = FALSE]
    /\ IF written THEN stored' = <<>> /\ given' = 0 ELSE UNCHANGED <<stored, given>>
    /\ UNCHANGED <<place, taken, start, last>>

(* The destructor closes; a refusal is swallowed and the handle released,  *)
(* and what was written is gone.                                           *)
DestroyBlob ==
    /\ blob.exists
    /\ blob' = NoBlob
    /\ \/ UNCHANGED <<stored, given>>
       \/ blob.handle /\ written /\ stored' = <<>> /\ given' = 0
    /\ place' = <<>> /\ taken' = <<>> /\ start' = 0 /\ last' = NoRead

(* External: the end of the transaction closes its blobs, and drops what   *)
(* is written and not closed yet.                                          *)
ServerClosesBlob ==
    /\ blob' = [blob EXCEPT !.open = FALSE]
    /\ IF blob.open /\ written THEN stored' = <<>> /\ given' = 0 ELSE UNCHANGED <<stored, given>>
    /\ UNCHANGED <<place, taken, start, last>>

BlobNext ==
    \/ CreateBlob \/ OpenBlob \/ write \/ WriteRefused \/ writeSegment \/ read \/ readSegment \/ ReadRefused
    \/ seek \/ closeBlob \/ cancelBlob \/ DestroyBlob
-----------------------------------------------------------------------------
BlobTypes ==
    /\ blob \in [exists : BOOLEAN, handle : BOOLEAN, open : BOOLEAN, mode : {"none", "write", "failed", "read", "read failed"}]
    /\ stored \in Seq(Seq(Nat)) /\ place \in Seq(Seq(Nat)) /\ taken \in Seq(Nat)
    /\ given \in 0 .. MaxBytes /\ start \in 0 .. MaxBytes
    /\ last \in [asked : Nat, got : Nat, single : BOOLEAN]

HasEmptySegment(segments) == <<>> \in ToSet(segments)

BlobTypeOK ==
    /\ BlobTypes
    /\ blob.handle => blob.exists
    /\ blob.open => blob.handle
    /\ Len(Content(stored)) <= MaxBytes
    /\ blob.mode = "read" =>
          /\ given = Len(Content(stored)) /\ start <= given
          /\ HasEmptySegment(place) => HasEmptySegment(stored)

(* However the bytes are cut into buffers, chunks and segments on the way  *)
(* in and out: as long as no call threw, the blob holds every byte given,  *)
(* once and in order, and the program reads the bytes from where it was    *)
(* positioned, without a gap.  A buffer is left unfilled only at the end   *)
(* of the blob, in front of an empty segment, or by readSegment.           *)
BytesConserved ==
    /\ blob.mode = "write" => Content(stored) = Numbered(0, given)
    /\ blob.mode = "read" =>
          /\ taken = SubSeq(Content(stored), start + 1, start + Len(taken))
          /\ taken \o Content(place) = SubSeq(Content(stored), start + 1, given)
          /\ (last.got < last.asked /\ ~last.single) =>
                \/ Content(place) = <<>>
                \/ HasEmptySegment(stored)
=============================================================================

----------------------------- MODULE StatusVector -----------------------------
(***************************************************************************)
(* What becomes of an error: the StatusWrapper that carries it out of a    *)
(* call, and the DatabaseException that copies it and is copied.           *)
(*                                                                         *)
(* A status vector is a sequence of words: <<"arg", kind>>, the kind of an *)
(* argument, <<"number", n>>, <<"code", c>>, an error code where a kind    *)
(* should be, <<"text", t>>, a pointer to a text of the server's, or       *)
(* <<"own", b, i>>, a pointer to the i-th of the texts in buffer b, which  *)
(* belongs to one exception.  A text is a sequence of letters; the one a   *)
(* "cstring" points to may go on behind its length.  The message text,     *)
(* which the client library formats, is left out.                          *)
(***************************************************************************)
EXTENDS Integers, Sequences, FiniteSets, SequencesExt

End == <<"arg", "end">>
Placeholder == <<"number", 0>>
TextKinds == {"string", "interpreted", "sql_state"}

(* The words of an argument of the server's: its kind, then its value,     *)
(* and a count before the text of a "cstring".                             *)
Names(kinds) == {"arg"} \X kinds
Numbers == {"number"} \X Int
ServerTexts == {"text"} \X Seq(STRING)
TextArguments == Names(TextKinds) \X ServerTexts
CountedArguments == Names({"cstring"}) \X Numbers \X ServerTexts
OtherArguments == Names(STRING \ (TextKinds \union {"cstring", "end"})) \X Numbers

-----------------------------------------------------------------------------
(* An exception: its vector, its texts and the buffer they are in.         *)

(* One turn of copyErrorVector's loop, before the pointers are set: the    *)
(* argument at c.p is copied, the end of the vector stays in place.        *)
CopyArgument(v, c) ==
    LET kind == v[c.p][2]
        copied(p, words, strings) == [p |-> p, words |-> c.words \o words, strings |-> c.strings \o strings]
    IN  CASE v[c.p] = End -> c
          [] v[c.p] # End /\ kind \in TextKinds ->
                copied(c.p + 2, <<v[c.p], Placeholder>>, <<v[c.p + 1][2]>>)
          [] v[c.p] # End /\ kind = "cstring" ->
                copied(c.p + 3, <<<<"arg", "string">>, Placeholder>>, <<SubSeq(v[c.p + 2][2], 1, v[c.p + 1][2])>>)
          [] OTHER -> copied(c.p + 2, <<v[c.p], v[c.p + 1]>>, <<>>)

(* The loop: a vector has no more arguments than words. *)
copyErrorVector(v) ==
    LET copy[n \in 0 .. Len(v)] ==
            IF n = 0 THEN [p |-> 1, words |-> <<>>, strings |-> <<>>] ELSE CopyArgument(v, copy[n - 1])
    IN  [words |-> copy[Len(v)].words \o <<End>>, strings |-> copy[Len(v)].strings]

(* Mistaken: SQLSTATEs are copied with the texts and not patched with them. *)
TextArgsButState(words) == {i \in 1 .. Len(words) - 1 : i % 2 = 1 /\ words[i][2] \in TextKinds \ {"sql_state"}}

(* The positions of the words that name the kind of a text. *)
TextArgs(words) == {i \in 1 .. Len(words) - 1 : i % 2 = 1 /\ words[i][2] \in TextKinds}

(* The copy with the pointers set, text after text, into a buffer. *)
fixupStringPointers(words, buffer) ==
    LET args == TextArgs(words)
        strIdx(i) == Cardinality({j \in args : j <= i})
    IN  [i \in 1 .. Len(words) |-> IF i - 1 \in args THEN <<"own", buffer, strIdx(i - 1)>> ELSE words[i]]

(* The text of the first SQLSTATE; none gives the empty text.  The walk    *)
(* stops at either.                                                        *)
extractSqlState(v) ==
    LET at[n \in 0 .. Len(v)] ==
            IF n = 0 THEN 1
            ELSE LET p == at[n - 1]
                 IN  IF v[p] = End \/ v[p][2] = "sql_state" THEN p
                     ELSE IF v[p][2] = "cstring" THEN p + 3 ELSE p + 2
        p == at[Len(v)]
    IN  IF v[p] = End THEN <<>> ELSE v[p + 1][2]

DatabaseException(v, buffer) ==
    LET copy == copyErrorVector(v)
    IN  [words |-> fixupStringPointers(copy.words, buffer), buffer |-> buffer,
         strings |-> copy.strings, sqlState |-> extractSqlState(v)]

(* Mistaken: the copy is left with the pointers of the original. *)
CopyUnpatched(e, buffer) == [e EXCEPT !.buffer = buffer]

(* The copy constructor; the move constructor takes the buffer over. *)
CopyOf(e, buffer) == [e EXCEPT !.buffer = buffer, !.words = fixupStringPointers(@, buffer)]
MoveOf(e) == e

getErrorCode(e) ==
    IF Len(e.words) >= 2 /\ e.words[1] = <<"arg", "gds">> THEN e.words[2][2] ELSE 0

-----------------------------------------------------------------------------
(* A StatusWrapper: its flag and the IStatus behind it, made when needed.  *)
NewWrapper == [dirty |-> FALSE, errors |-> <<>>]

(* Mistaken: the flag is taken back and the status keeps its errors. *)
clearFlagOnly(w) == [w EXCEPT !.dirty = FALSE]

clearException(w) == IF w.dirty THEN NewWrapper ELSE w

setErrors(w, errors) == [w EXCEPT !.dirty = TRUE, !.errors = errors]
setWarnings(w) == [w EXCEPT !.dirty = TRUE]

(* What checkException throws, if anything. *)
checkException(w) == IF w.dirty THEN w.errors ELSE <<>>

(* External: the client library's side of a call.  It clears the wrapper   *)
(* before the call and checks it afterwards; the answer sets the errors,   *)
(* only warnings, or nothing.                                              *)
Request(w, answer) ==
    LET cleared == clearException(w)
    IN  CASE answer = "fine" -> cleared
          [] answer = "warning" -> setWarnings(cleared)
          [] OTHER -> setErrors(cleared, <<answer>>)

(* The requests of one wrapper: what each of them throws. *)
Requests(answers) ==
    LET wrapper[i \in 0 .. Len(answers)] ==
            IF i = 0 THEN NewWrapper ELSE Request(wrapper[i - 1], answers[i])
    IN  [i \in 1 .. Len(answers) |-> checkException(wrapper[i])]
=============================================================================

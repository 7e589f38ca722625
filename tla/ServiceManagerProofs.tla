------------------------ MODULE ServiceManagerProofs -------------------------
(***************************************************************************)
(* A service's output is complete: for actions that print any number of    *)
(* lines, and answers that hold any number of items in any order.          *)
(***************************************************************************)
EXTENDS ServiceManager, DataLemmas

(* The items of an answer, and what the loop over them has found so far.   *)
Item == [tag : {"output"}, n : Nat] \union [tag : {"notReady", "stdin", "end"}]
Found == [running : BOOLEAN, outputLength : Nat, stdinRequest : BOOLEAN, notReady : BOOLEAN]
Nothing == [running |-> TRUE, outputLength |-> 0, stdinRequest |-> FALSE, notReady |-> FALSE]

(* One round of the loop. *)
Saw(before, item) ==
    IF ~before.running THEN before
    ELSE CASE item.tag = "output" -> [before EXCEPT !.outputLength = item.n]
           [] item.tag = "notReady" -> [before EXCEPT !.notReady = TRUE]
           [] item.tag = "stdin" -> [before EXCEPT !.stdinRequest = TRUE]
           [] item.tag = "end" -> [before EXCEPT !.running = FALSE]

LEMMA SawType ==
  ASSUME NEW before \in Found, NEW item \in Item
  PROVE  Saw(before, item) \in Found
<1>1. CASE item \in [tag : {"output"}, n : Nat]
  BY <1>1 DEF Saw, Found
<1>2. CASE item \in [tag : {"notReady", "stdin", "end"}]
  BY <1>2 DEF Saw, Found
<1> QED BY <1>1, <1>2 DEF Item

Rounds(after, items, n) ==
    /\ after[0] = Nothing
    /\ \A i \in 1 .. n : after[i] = Saw(after[i - 1], items[i])
    /\ Scan(items) = after[n]

(* Scan goes through the items one by one, whatever their number.  *)
LEMMA ScanRounds ==
  ASSUME NEW items \in Seq(Item), NEW n \in Nat, n = Len(items)
  PROVE  \E after \in [0 .. n -> Found] : Rounds(after, items, n)
<1> DEFINE Loop(f) ==
             [i \in 0 .. n |->
                IF i = 0 THEN [running |-> TRUE, outputLength |-> 0, stdinRequest |-> FALSE, notReady |-> FALSE]
                ELSE LET before == f[i - 1]
                         tag == items[i].tag
                     IN  IF ~before.running THEN before
                         ELSE CASE tag = "output" -> [before EXCEPT !.outputLength = items[i].n]
                                [] tag = "notReady" -> [before EXCEPT !.notReady = TRUE]
                                [] tag = "stdin" -> [before EXCEPT !.stdinRequest = TRUE]
                                [] tag = "end" -> [before EXCEPT !.running = FALSE]]
           step == [p \in (Nat \ {0}) \X Found |-> IF p[1] \in 1 .. n THEN Saw(p[2], items[p[1]]) ELSE p[2]]
           after == CHOOSE f : f = Loop(f)
<1>1. n \in Nat /\ \A i \in 1 .. n : items[i] \in Item
  BY LenProperties, ElementOfSeq
<1>2. Nothing \in Found
  BY DEF Nothing, Found
<1>3. StepsWithin(Found, step)
  BY <1>1, SawType DEF StepsWithin
<1>4. \A i \in 1 .. n : \A v \in Found : step[<<i, v>>] = Saw(v, items[i])
  BY <1>1
<1>5. PICK f \in [0 .. n -> Found] : Unfolds(f, Nothing, step, n)
  <2> HIDE DEF step, Loop, after
  <2> QED BY <1>1, <1>2, <1>3, RecursionExists
<1>6. \A i \in 1 .. n : i - 1 \in 0 .. n /\ i \in 0 .. n
  BY <1>1
<1>7. \A i \in 1 .. n : f[i] = Saw(f[i - 1], items[i])
  <2> HIDE DEF step
  <2> QED BY <1>4, <1>5, <1>6 DEF Unfolds
<1>8. ASSUME NEW g
      PROVE  g = Loop(g) <=>
               /\ g = [i \in 0 .. n |-> g[i]]
               /\ \A i \in 0 .. n : g[i] = IF i = 0 THEN Nothing ELSE Saw(g[i - 1], items[i])
  <2>1. Loop(g) = [i \in 0 .. n |-> IF i = 0 THEN Nothing ELSE Saw(g[i - 1], items[i])]
    BY DEF Nothing, Saw
  <2> HIDE DEF Loop, step, after
  <2> QED BY <2>1
<1>9. f = Loop(f)
  <2>1. f[0] = Nothing
    BY <1>5 DEF Unfolds
  <2>2. \A i \in 0 .. n : f[i] = IF i = 0 THEN Nothing ELSE Saw(f[i - 1], items[i])
    BY <2>1, <1>1, <1>7
  <2> HIDE DEF Loop
  <2> QED BY <1>8, <2>2
<1>10. after = Loop(after)
  <2> HIDE DEF Loop
  <2> QED BY <1>9
<1>11. /\ after = [i \in 0 .. n |-> after[i]]
       /\ \A i \in 0 .. n : after[i] = IF i = 0 THEN Nothing ELSE Saw(after[i - 1], items[i])
  <2> HIDE DEF Loop, after
  <2> QED BY <1>8, <1>10
<1>12. \A i \in 0 .. n : after[i] \in Found
  <2> HIDE DEF Loop, after
  <2> DEFINE S == {i \in Nat : i \in 0 .. n => after[i] \in Found}
  <2>1. 0 \in S
    BY <1>2, <1>11
  <2>2. ASSUME NEW i \in Nat, i \in S PROVE i + 1 \in S
    <3> SUFFICES ASSUME i + 1 \in 0 .. n PROVE after[i + 1] \in Found
      OBVIOUS
    <3>1. i \in 0 .. n /\ i + 1 \in 1 .. n /\ (i + 1) - 1 = i /\ i + 1 # 0
      BY <1>1
    <3>2. after[i + 1] = Saw(after[i], items[i + 1])
      BY <1>11, <3>1
    <3> QED BY <2>2, <3>1, <3>2, <1>1, SawType
  <2>3. Nat \subseteq S
    <3> HIDE DEF S
    <3> QED BY <2>1, <2>2, SetInduction
  <2> QED BY <2>3, <1>1
<1>13. Scan(items) = after[n]
  BY DEF Scan
<1> HIDE DEF Loop, after
<1>14. after \in [0 .. n -> Found]
  BY <1>11, <1>12
<1>15. after[0] = Nothing /\ \A i \in 1 .. n : after[i] = Saw(after[i - 1], items[i])
  BY <1>1, <1>11, <1>6
<1> QED BY <1>13, <1>14, <1>15 DEF Rounds
-----------------------------------------------------------------------------
(* Sequences of at most one item each, one behind the other. *)
LEMMA Concatenated ==
  ASSUME NEW a, NEW b, NEW c, NEW d
  PROVE  /\ <<a>> \o <<b>> \o <<c>> \o <<d>> = <<a, b, c, d>>
         /\ <<a>> \o <<b>> \o <<>> \o <<d>> = <<a, b, d>>
         /\ <<a>> \o <<>> \o <<c>> \o <<d>> = <<a, c, d>>
         /\ <<a>> \o <<>> \o <<>> \o <<d>> = <<a, d>>
<1> DEFINE S == {a, b, c, d}
<1>1. /\ <<a>> \in Seq(S) /\ <<a, b>> \in Seq(S) /\ <<a, c>> \in Seq(S) /\ <<a, b, c>> \in Seq(S)
      /\ a \in S /\ b \in S /\ c \in S /\ d \in S
  OBVIOUS
<1>2. \A x \in S : \A s \in Seq(S) :
         /\ Append(s, x) \in Seq(S) /\ Len(Append(s, x)) = Len(s) + 1 /\ Append(s, x)[Len(s) + 1] = x
         /\ \A i \in 1 .. Len(s) : Append(s, x)[i] = s[i]
  BY AppendProperties
<1>3. /\ Len(<<a>>) = 1 /\ Len(<<a, b>>) = 2 /\ Len(<<a, c>>) = 2 /\ Len(<<a, b, c>>) = 3
      /\ 1 \in 1 .. 1 /\ 1 \in 1 .. 2 /\ 2 \in 1 .. 2 /\ 1 \in 1 .. 3 /\ 2 \in 1 .. 3 /\ 3 \in 1 .. 3
  OBVIOUS
<1> HIDE DEF S
<1>4. ASSUME NEW x \in S PROVE Append(<<a>>, x) = <<a, x>>
  <2> DEFINE t == Append(<<a>>, x)
  <2>1. /\ t \in Seq(S) /\ Len(t) = 2 /\ t[2] = x
        /\ t[1] = a
    BY <1>1, <1>2, <1>3
  <2> HIDE DEF t
  <2>2. t = <<t[1], t[2]>>
    BY <2>1
  <2> QED BY <2>1, <2>2 DEF t
<1>5. ASSUME NEW x \in S PROVE Append(<<a, b>>, x) = <<a, b, x>>
  <2> DEFINE t == Append(<<a, b>>, x)
  <2>1. /\ t \in Seq(S) /\ Len(t) = 3 /\ t[3] = x
        /\ t[1] = a /\ t[2] = b
    BY <1>1, <1>2, <1>3
  <2> HIDE DEF t
  <2>2. t = <<t[1], t[2], t[3]>>
    BY <2>1
  <2> QED BY <2>1, <2>2 DEF t
<1>6. ASSUME NEW x \in S PROVE Append(<<a, c>>, x) = <<a, c, x>>
  <2> DEFINE t == Append(<<a, c>>, x)
  <2>1. /\ t \in Seq(S) /\ Len(t) = 3 /\ t[3] = x
        /\ t[1] = a /\ t[2] = c
    BY <1>1, <1>2, <1>3
  <2> HIDE DEF t
  <2>2. t = <<t[1], t[2], t[3]>>
    BY <2>1
  <2> QED BY <2>1, <2>2 DEF t
<1>7. ASSUME NEW x \in S PROVE Append(<<a, b, c>>, x) = <<a, b, c, x>>
  <2> DEFINE t == Append(<<a, b, c>>, x)
  <2>1. /\ t \in Seq(S) /\ Len(t) = 4 /\ t[4] = x
        /\ t[1] = a /\ t[2] = b /\ t[3] = c
    BY <1>1, <1>2, <1>3
  <2> HIDE DEF t
  <2>2. t = <<t[1], t[2], t[3], t[4]>>
    BY <2>1
  <2> QED BY <2>1, <2>2 DEF t
<1>8. \A x \in S : \A s \in Seq(S) : s \o <<x>> = Append(s, x) /\ s \o <<>> = s
  BY AppendIsConcat, ConcatEmptySeq
<1>9. <<a>> \o <<b>> = <<a, b>> /\ <<a, b>> \o <<c>> = <<a, b, c>> /\ <<a, b, c>> \o <<d>> = <<a, b, c, d>>
  BY <1>1, <1>4, <1>5, <1>7, <1>8
<1>10. <<a, b>> \o <<>> = <<a, b>> /\ <<a, b>> \o <<d>> = <<a, b, d>>
  BY <1>1, <1>5, <1>8
<1>11. <<a>> \o <<>> = <<a>> /\ <<a>> \o <<c>> = <<a, c>> /\ <<a, c>> \o <<d>> = <<a, c, d>> /\ <<a>> \o <<d>> = <<a, d>>
  BY <1>1, <1>4, <1>6, <1>8
<1> QED BY <1>9, <1>10, <1>11, Zenon

(* An answer of n lines, with or without the two other items. *)
AnswerOf(n, flag, input) ==
    <<[tag |-> "output", n |-> n]>>
    \o (IF flag THEN <<[tag |-> "notReady"]>> ELSE <<>>)
    \o (IF input THEN <<[tag |-> "stdin"]>> ELSE <<>>) \o <<[tag |-> "end"]>>
Seen(n, flag, input) == [running |-> FALSE, outputLength |-> n, stdinRequest |-> input, notReady |-> flag]

(* What each item adds to what was found before it. *)
Before(lines, input, flag) == [running |-> TRUE, outputLength |-> lines, stdinRequest |-> input, notReady |-> flag]

LEMMA SawEach ==
  ASSUME NEW n
  PROVE  /\ Saw(Before(0, FALSE, FALSE), [tag |-> "output", n |-> n]) = Before(n, FALSE, FALSE)
         /\ Saw(Before(n, FALSE, FALSE), [tag |-> "notReady"]) = Before(n, FALSE, TRUE)
         /\ Saw(Before(n, FALSE, TRUE), [tag |-> "stdin"]) = Before(n, TRUE, TRUE)
         /\ Saw(Before(n, FALSE, FALSE), [tag |-> "stdin"]) = Before(n, TRUE, FALSE)
         /\ Saw(Before(n, FALSE, FALSE), [tag |-> "end"]) = Seen(n, FALSE, FALSE)
         /\ Saw(Before(n, FALSE, TRUE), [tag |-> "end"]) = Seen(n, TRUE, FALSE)
         /\ Saw(Before(n, TRUE, FALSE), [tag |-> "end"]) = Seen(n, FALSE, TRUE)
         /\ Saw(Before(n, TRUE, TRUE), [tag |-> "end"]) = Seen(n, TRUE, TRUE)
<1>1. Saw(Before(0, FALSE, FALSE), [tag |-> "output", n |-> n]) = Before(n, FALSE, FALSE)
  BY DEF Saw, Before, Seen
<1>2. Saw(Before(n, FALSE, FALSE), [tag |-> "notReady"]) = Before(n, FALSE, TRUE)
  BY DEF Saw, Before, Seen
<1>3. Saw(Before(n, FALSE, TRUE), [tag |-> "stdin"]) = Before(n, TRUE, TRUE)
  BY DEF Saw, Before, Seen
<1>4. Saw(Before(n, FALSE, FALSE), [tag |-> "stdin"]) = Before(n, TRUE, FALSE)
  BY DEF Saw, Before, Seen
<1>5. Saw(Before(n, FALSE, FALSE), [tag |-> "end"]) = Seen(n, FALSE, FALSE)
  BY DEF Saw, Before, Seen
<1>6. Saw(Before(n, FALSE, TRUE), [tag |-> "end"]) = Seen(n, TRUE, FALSE)
  BY DEF Saw, Before, Seen
<1>7. Saw(Before(n, TRUE, FALSE), [tag |-> "end"]) = Seen(n, FALSE, TRUE)
  BY DEF Saw, Before, Seen
<1>8. Saw(Before(n, TRUE, TRUE), [tag |-> "end"]) = Seen(n, TRUE, TRUE)
  BY DEF Saw, Before, Seen
<1> QED BY <1>1, <1>2, <1>3, <1>4, <1>5, <1>6, <1>7, <1>8

(* The loop finds as many lines as the answer holds, whether it said "not  *)
(* ready", and its end.                                                    *)
LEMMA OutputSeen ==
  ASSUME NEW n \in Nat, NEW flag \in BOOLEAN, NEW input \in BOOLEAN,
         NEW items, items = AnswerOf(n, flag, input)
  PROVE  Scan(items) = Seen(n, flag, input)
<1> DEFINE o == [tag |-> "output", n |-> n]
           r == [tag |-> "notReady"]
           i == [tag |-> "stdin"]
           e == [tag |-> "end"]
<1>1. o \in Item /\ r \in Item /\ i \in Item /\ e \in Item
  BY DEF Item
<1>3. CASE flag /\ input
  <2>1. items = <<o, r, i, e>>
    BY <1>3, Concatenated DEF AnswerOf
  <2>2. items \in Seq(Item) /\ Len(items) = 4
    BY <2>1, <1>1
  <2>3. PICK f \in [0 .. 4 -> Found] : Rounds(f, items, 4)
    BY <2>2, ScanRounds
  <2>4. 1 \in 1 .. 4 /\ 1 - 1 = 0 /\ 2 \in 1 .. 4 /\ 2 - 1 = 1 /\ 3 \in 1 .. 4 /\ 3 - 1 = 2 /\ 4 \in 1 .. 4 /\ 4 - 1 = 3
    OBVIOUS
  <2>5. items[1] = o /\ items[2] = r /\ items[3] = i /\ items[4] = e
    BY <2>1
  <2>6. /\ f[1] = Saw(f[0], o)
        /\ f[2] = Saw(f[1], r)
        /\ f[3] = Saw(f[2], i)
        /\ f[4] = Saw(f[3], e)
    BY <2>3, <2>4, <2>5 DEF Rounds
  <2>7. f[0] = Before(0, FALSE, FALSE)
    BY <2>3 DEF Rounds, Nothing, Before
  <2>8. f[1] = Before(n, FALSE, FALSE)
    BY <2>7, <2>6, SawEach
  <2>9. f[2] = Before(n, FALSE, TRUE)
    BY <2>8, <2>6, SawEach
  <2>10. f[3] = Before(n, TRUE, TRUE)
    BY <2>9, <2>6, SawEach
  <2>11. f[4] = Seen(n, TRUE, TRUE)
    BY <2>10, <2>6, SawEach
  <2> QED BY <1>3, <2>3, <2>11 DEF Rounds
<1>4. CASE flag /\ ~input
  <2>1. items = <<o, r, e>>
    BY <1>4, Concatenated DEF AnswerOf
  <2>2. items \in Seq(Item) /\ Len(items) = 3
    BY <2>1, <1>1
  <2>3. PICK f \in [0 .. 3 -> Found] : Rounds(f, items, 3)
    BY <2>2, ScanRounds
  <2>4. 1 \in 1 .. 3 /\ 1 - 1 = 0 /\ 2 \in 1 .. 3 /\ 2 - 1 = 1 /\ 3 \in 1 .. 3 /\ 3 - 1 = 2
    OBVIOUS
  <2>5. items[1] = o /\ items[2] = r /\ items[3] = e
    BY <2>1
  <2>6. /\ f[1] = Saw(f[0], o)
        /\ f[2] = Saw(f[1], r)
        /\ f[3] = Saw(f[2], e)
    BY <2>3, <2>4, <2>5 DEF Rounds
  <2>7. f[0] = Before(0, FALSE, FALSE)
    BY <2>3 DEF Rounds, Nothing, Before
  <2>8. f[1] = Before(n, FALSE, FALSE)
    BY <2>7, <2>6, SawEach
  <2>9. f[2] = Before(n, FALSE, TRUE)
    BY <2>8, <2>6, SawEach
  <2>10. f[3] = Seen(n, TRUE, FALSE)
    BY <2>9, <2>6, SawEach
  <2> QED BY <1>4, <2>3, <2>10 DEF Rounds
<1>5. CASE ~flag /\ input
  <2>1. items = <<o, i, e>>
    BY <1>5, Concatenated DEF AnswerOf
  <2>2. items \in Seq(Item) /\ Len(items) = 3
    BY <2>1, <1>1
  <2>3. PICK f \in [0 .. 3 -> Found] : Rounds(f, items, 3)
    BY <2>2, ScanRounds
  <2>4. 1 \in 1 .. 3 /\ 1 - 1 = 0 /\ 2 \in 1 .. 3 /\ 2 - 1 = 1 /\ 3 \in 1 .. 3 /\ 3 - 1 = 2
    OBVIOUS
  <2>5. items[1] = o /\ items[2] = i /\ items[3] = e
    BY <2>1
  <2>6. /\ f[1] = Saw(f[0], o)
        /\ f[2] = Saw(f[1], i)
        /\ f[3] = Saw(f[2], e)
    BY <2>3, <2>4, <2>5 DEF Rounds
  <2>7. f[0] = Before(0, FALSE, FALSE)
    BY <2>3 DEF Rounds, Nothing, Before
  <2>8. f[1] = Before(n, FALSE, FALSE)
    BY <2>7, <2>6, SawEach
  <2>9. f[2] = Before(n, TRUE, FALSE)
    BY <2>8, <2>6, SawEach
  <2>10. f[3] = Seen(n, FALSE, TRUE)
    BY <2>9, <2>6, SawEach
  <2> QED BY <1>5, <2>3, <2>10 DEF Rounds
<1>6. CASE ~flag /\ ~input
  <2>1. items = <<o, e>>
    BY <1>6, Concatenated DEF AnswerOf
  <2>2. items \in Seq(Item) /\ Len(items) = 2
    BY <2>1, <1>1
  <2>3. PICK f \in [0 .. 2 -> Found] : Rounds(f, items, 2)
    BY <2>2, ScanRounds
  <2>4. 1 \in 1 .. 2 /\ 1 - 1 = 0 /\ 2 \in 1 .. 2 /\ 2 - 1 = 1
    OBVIOUS
  <2>5. items[1] = o /\ items[2] = e
    BY <2>1
  <2>6. /\ f[1] = Saw(f[0], o)
        /\ f[2] = Saw(f[1], e)
    BY <2>3, <2>4, <2>5 DEF Rounds
  <2>7. f[0] = Before(0, FALSE, FALSE)
    BY <2>3 DEF Rounds, Nothing, Before
  <2>8. f[1] = Before(n, FALSE, FALSE)
    BY <2>7, <2>6, SawEach
  <2>9. f[2] = Seen(n, FALSE, FALSE)
    BY <2>8, <2>6, SawEach
  <2> QED BY <1>6, <2>3, <2>9 DEF Rounds
<1> QED BY <1>3, <1>4, <1>5, <1>6

(* The inductive invariant: a call that has not returned holds the object, *)
(* whose service is running or has ended under it, and no line is read     *)
(* that was not printed.                                                   *)
SMInv ==
    /\ Types /\ OutputComplete
    /\ service.read <= service.printed
    /\ waiting => isValid /\ service.state # "none"

LEMMA AnswerSeen ==
  ASSUME SMInv, NEW items \in Answers
  PROVE  \E n \in 0 .. unread, flag, input \in BOOLEAN :
            /\ n = 0 /\ (unread > 0 \/ service.state = "running") => flag
            /\ call.verbose => n <= 1
            /\ Scan(items) = Seen(n, flag, input)
<1> DEFINE input == call.requestStdin /\ service.wantsInput
           amounts == IF call.verbose THEN {n \in 0 .. 1 : n <= unread} ELSE 0 .. unread
<1>1. PICK a \in amounts \X BOOLEAN :
         /\ a[1] = 0 /\ (unread > 0 \/ service.state = "running") => a[2]
         /\ items = AnswerOf(a[1], a[2], input)
  BY DEF Answers, AnswerOf
<1>2. unread \in Nat /\ input \in BOOLEAN
  BY DEF SMInv, Types, unread
<1>3. a[1] \in 0 .. unread /\ (call.verbose => a[1] <= 1) /\ a[2] \in BOOLEAN
  BY <1>1, <1>2
<1> HIDE DEF input, amounts
<1>4. Scan(items) = Seen(a[1], a[2], input)
  <2>1. a[1] \in Nat
    BY <1>2, <1>3
  <2> QED BY <1>1, <1>2, <1>3, <2>1, OutputSeen, Zenon
<1> QED BY <1>1, <1>2, <1>3, <1>4, Zenon
-----------------------------------------------------------------------------
LEMMA InitInv == Init => SMInv
<1> SUFFICES ASSUME Init PROVE SMInv
  OBVIOUS
<1>1. 0 \in 0 .. MaxLines /\ 0 <= 0
  BY MaxLinesAssumption
<1>2. Types
  BY <1>1 DEF Init, Types, NoCall, Stopped
<1>3. OutputComplete /\ ~waiting /\ service.read <= service.printed
  BY <1>1 DEF Init, OutputComplete, NoCall, Stopped, waiting
<1> QED BY <1>2, <1>3 DEF SMInv

(* What a round has read is what it has handed out, and it is the last one *)
(* only when nothing is left and the service has ended.                    *)
LEMMA QueryInv ==
  ASSUME SMInv, Query
  PROVE  SMInv'
<1>1. PICK items \in Answers :
         /\ service' = [service EXCEPT !.read = @ + Scan(items).outputLength]
         /\ delivered' = IF call.verbose THEN delivered + Scan(items).outputLength ELSE delivered
         /\ stdinRequest' = Scan(items).stdinRequest
         /\ IF GoesOn(Scan(items)) THEN UNCHANGED <<call, result>> ELSE Return("done")
  BY DEF Query
<1>2. PICK n \in 0 .. unread, flag, input \in BOOLEAN :
         /\ n = 0 /\ (unread > 0 \/ service.state = "running") => flag
         /\ Scan(items) = Seen(n, flag, input)
  BY AnswerSeen
<1>3. /\ service' = [service EXCEPT !.read = @ + n]
      /\ delivered' = IF call.verbose THEN delivered + n ELSE delivered
      /\ stdinRequest' = input
      /\ IF n > 0 \/ input \/ flag THEN UNCHANGED <<call, result>> ELSE Return("done")
  BY <1>1, <1>2 DEF Seen, GoesOn
<1>4. waiting /\ UNCHANGED manager
  BY DEF Query
<1>5. /\ service.printed \in 0 .. MaxLines /\ service.read \in 0 .. MaxLines /\ MaxLines \in Nat
      /\ service.read <= service.printed /\ unread \in Nat /\ unread = service.printed - service.read
  BY MaxLinesAssumption DEF SMInv, Types, unread
<1>6. service.read + n <= service.printed /\ service.read + n \in 0 .. MaxLines /\ n \in Nat
  BY <1>5
<1>7. service' \in [state : {"none", "running", "ended"}, printed : 0 .. MaxLines,
                    read : 0 .. MaxLines, wantsInput : BOOLEAN]
      /\ service'.read = service.read + n /\ service'.printed = service.printed
      /\ service'.state = service.state
  BY <1>3, <1>6 DEF SMInv, Types
<1>8. delivered' \in 0 .. MaxLines /\ (call.verbose => delivered' = service'.read)
  BY <1>3, <1>4, <1>6, <1>7 DEF SMInv, Types, OutputComplete, waiting
<1>9. CASE n > 0 \/ input \/ flag
  <2>1. UNCHANGED <<call, result>>
    BY <1>3, <1>9
  <2>2. Types'
    BY <2>1, <1>3, <1>4, <1>7, <1>8 DEF SMInv, Types
  <2>3. result = "done" => service'.state = "ended" /\ unread' = 0
    BY <1>5, <1>6, <1>7 DEF SMInv, OutputComplete, unread
  <2>4. OutputComplete'
    BY <2>1, <2>3, <1>8 DEF OutputComplete
  <2>5. (service.read <= service.printed)' /\ (waiting => isValid /\ service.state # "none")'
    BY <2>1, <1>4, <1>6, <1>7 DEF SMInv, waiting, isValid
  <2> QED BY <2>2, <2>4, <2>5 DEF SMInv
<1>10. CASE ~(n > 0 \/ input \/ flag)
  <2>1. call' = NoCall /\ result' = "done" /\ n = 0
    BY <1>3, <1>6, <1>10 DEF Return
  <2>2. unread = 0 /\ service.state = "ended"
    BY <2>1, <1>2, <1>4, <1>5, <1>10 DEF SMInv, Types
  <2>3. Types'
    BY <2>1, <1>3, <1>4, <1>7, <1>8 DEF SMInv, Types, NoCall
  <2>4. unread' = 0 /\ service'.state = "ended"
    BY <2>1, <2>2, <1>5, <1>7 DEF unread
  <2>5. OutputComplete'
    BY <2>1, <2>4 DEF OutputComplete, NoCall
  <2>6. (service.read <= service.printed)' /\ ~waiting'
    BY <2>1, <1>6, <1>7 DEF waiting, NoCall
  <2> QED BY <2>3, <2>5, <2>6 DEF SMInv
<1> QED BY <1>9, <1>10

(* The line whose callback throws has been read and handed out. *)
LEMMA CallbackThrowsInv ==
  ASSUME SMInv, CallbackThrows
  PROVE  SMInv'
<1>1. /\ waiting /\ call.verbose /\ unread > 0 /\ call' = NoCall /\ result' = "threw"
      /\ service' = [service EXCEPT !.read = @ + 1] /\ delivered' = delivered + 1
      /\ UNCHANGED <<manager, stdinRequest>>
  BY DEF CallbackThrows, Return
<1>2. /\ service.printed \in 0 .. MaxLines /\ service.read \in 0 .. MaxLines /\ MaxLines \in Nat
      /\ service.read + 1 <= service.printed /\ delivered = service.read
  BY <1>1, MaxLinesAssumption DEF SMInv, Types, OutputComplete, unread, waiting
<1>3. service.read + 1 \in 0 .. MaxLines
  BY <1>2
<1>4. service' \in [state : {"none", "running", "ended"}, printed : 0 .. MaxLines,
                    read : 0 .. MaxLines, wantsInput : BOOLEAN]
      /\ service'.read = service.read + 1 /\ service'.printed = service.printed
  BY <1>1, <1>3 DEF SMInv, Types
<1>5. Types'
  BY <1>1, <1>2, <1>3, <1>4 DEF SMInv, Types, NoCall
<1>6. OutputComplete' /\ ~waiting'
  BY <1>1 DEF OutputComplete, NoCall, waiting
<1> QED BY <1>2, <1>4, <1>5, <1>6 DEF SMInv

(* A service that was refused leaves the one before as it was. *)
LEMMA StartInv ==
  ASSUME SMInv, NEW verbose \in BOOLEAN, NEW requestStdin \in BOOLEAN, Start(verbose, requestStdin)
  PROVE  SMInv'
<1>1. isValid /\ ~waiting /\ stdinRequest' = FALSE /\ delivered' = 0 /\ UNCHANGED manager /\ MaxLines \in Nat
  BY MaxLinesAssumption DEF Start
<1>2. CASE /\ service' = [Stopped EXCEPT !.state = "running"]
           /\ call' = [running |-> TRUE, verbose |-> verbose, requestStdin |-> requestStdin]
           /\ result' = "none"
  <2>1. 0 \in 0 .. MaxLines /\ 0 <= 0
    BY <1>1
  <2>2. service' = [state |-> "running", printed |-> 0, read |-> 0, wantsInput |-> FALSE]
    BY <1>2 DEF Stopped
  <2>3. Types'
    <3>1. call' \in [running : BOOLEAN, verbose : BOOLEAN, requestStdin : BOOLEAN]
      BY <1>2
    <3>2. service' \in [state : {"none", "running", "ended"}, printed : 0 .. MaxLines,
                        read : 0 .. MaxLines, wantsInput : BOOLEAN]
      BY <2>1, <2>2
    <3> QED BY <1>1, <1>2, <2>1, <3>1, <3>2 DEF SMInv, Types
  <2>4. OutputComplete' /\ (service.read <= service.printed)'
    BY <1>1, <1>2, <2>1, <2>2 DEF OutputComplete
  <2>5. (waiting => isValid /\ service.state # "none")'
    BY <1>1, <2>2 DEF isValid
  <2> QED BY <2>3, <2>4, <2>5 DEF SMInv
<1>3. CASE result' = "threw" /\ UNCHANGED <<call, service>>
  <2>1. 0 \in 0 .. MaxLines
    BY <1>1
  <2>2. Types'
    BY <1>1, <1>3, <2>1 DEF SMInv, Types
  <2>3. OutputComplete' /\ ~waiting'
    BY <1>1, <1>3 DEF OutputComplete, waiting
  <2>4. (service.read <= service.printed)'
    BY <1>3 DEF SMInv
  <2> QED BY <2>2, <2>3, <2>4 DEF SMInv
<1> QED BY <1>2, <1>3 DEF Start

LEMMA StepInv == SMInv /\ [Next]_vars => SMInv'
<1> SUFFICES ASSUME SMInv, [Next]_vars PROVE SMInv'
  OBVIOUS
<1> USE MaxLinesAssumption
<1>1. CASE Construct
  BY <1>1 DEF Construct, SMInv, Types, OutputComplete, Stopped, isValid, waiting, unread
<1>2. CASE backup \/ restore \/ setProperties \/ repair
  BY <1>2, StartInv DEF backup, restore, setProperties, repair
<1>3. CASE Query
  BY <1>3, QueryInv
<1>4. CASE StdinRequested \/ QueryRefused
  <2>1. /\ call' = NoCall /\ result' = "threw" /\ UNCHANGED <<manager, delivered, service>>
        /\ stdinRequest' \in BOOLEAN
    BY <1>4 DEF StdinRequested, QueryRefused, Return, SMInv, Types
  <2>2. Types'
    BY <2>1 DEF SMInv, Types, NoCall
  <2>3. OutputComplete' /\ ~waiting'
    BY <2>1 DEF OutputComplete, waiting, NoCall
  <2>4. (service.read <= service.printed)'
    BY <2>1 DEF SMInv
  <2> QED BY <2>2, <2>3, <2>4 DEF SMInv
<1>5. CASE CallbackThrows
  BY <1>5, CallbackThrowsInv
<1>6. CASE disconnect \/ Destroy
  BY <1>6 DEF disconnect, Destroy, SMInv, Types, OutputComplete, isValid, waiting, unread
<1>7. CASE PrintLine
  BY <1>7 DEF PrintLine, SMInv, Types, OutputComplete, isValid, waiting, unread
<1>8. CASE End \/ WantInput
  BY <1>8 DEF End, WantInput, SMInv, Types, OutputComplete, isValid, waiting, unread
<1>9. CASE UNCHANGED vars
  BY <1>9 DEF vars, SMInv, Types, OutputComplete, isValid, waiting, unread
<1> QED BY <1>1, <1>2, <1>3, <1>4, <1>5, <1>6, <1>7, <1>8, <1>9 DEF Next, Round

(* The invariant holds in every state: of a service that prints up to any  *)
(* number of lines (MaxLines is not bounded).                              *)
THEOREM Invariance == Spec => []SMInv
<1> QED BY InitInv, StepInv, PTL DEF Spec

(* The manager, its call and its service keep their types: no action hands *)
(* out more lines than its service has printed.                            *)
THEOREM TypeCorrect == Spec => []TypeOK
<1>1. SMInv => TypeOK
  BY DEF SMInv, TypeOK
<1> QED BY <1>1, Invariance, PTL

(* waitForCompletion() returns only when its service has ended, and a      *)
(* verbose caller has then seen every line, however the answers cut them.  *)
THEOREM NoLineLost == Spec => []OutputComplete
<1>1. SMInv => OutputComplete
  BY DEF SMInv
<1> QED BY <1>1, Invariance, PTL
=============================================================================

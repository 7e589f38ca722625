------------------------ MODULE EventListenerProofs -------------------------
(***************************************************************************)
(* What stop() guarantees of the dispatcher's queue and of the server's    *)
(* registrations, for every set of events and registrations.               *)
(***************************************************************************)
EXTENDS EventListener, DataLemmas

(* Every step keeps the types; counts never go below zero. *)
LEMMA TypeStep ==
  ASSUME TypeOK, Phases, [Next]_vars
  PROVE  TypeOK'
<1>. USE DEF TypeOK, Goto, objectVars, threadVars, serverVars, historyVars
<1>1. \A c, d \in Counts : Plus(c, d) \in Counts
  BY DEF Counts, Plus
<1>2. ASSUME NEW t \in Thread, NEW b \in PC
      PROVE  Woken([pc EXCEPT ![t] = b]) \in [Thread -> PC]
  BY <1>2 DEF Woken, Thread, PC
<1>3. ASSUME NEW r \in Reg \cup {NoReg}
      PROVE  AfterRelease(regs, r) \in [Reg -> RegStates]
  BY <1>3 DEF AfterRelease, RegStates
<1>4. CASE Construct
  <2>1. pc' \in [Thread -> PC]
    BY <1>4 DEF Construct, Thread, PC
  <2>2. /\ regs' \in [Reg -> RegStates]
        /\ base' \in [Reg -> Counts]
        /\ handle' \in [Thread -> Reg \cup {NoReg}]
    BY <1>4 DEF Construct, QueEvents, Thread, RegStates
  <2>. QED BY <1>4, <2>1, <2>2 DEF Construct
<1>5. CASE Requeue
  <2>1. pc' \in [Thread -> PC]
    BY <1>5 DEF Requeue, Thread, PC
  <2>2. /\ regs' \in [Reg -> RegStates]
        /\ base' \in [Reg -> Counts]
        /\ handle' \in [Thread -> Reg \cup {NoReg}]
    BY <1>5 DEF Requeue, QueEvents, Thread, RegStates
  <2>. QED BY <1>5, <2>1, <2>2 DEF Requeue
<1>6. CASE Assign
  <2>1. pc' \in [Thread -> PC]
    BY <1>6 DEF Assign, Thread, PC
  <2>2. /\ regs' \in [Reg -> RegStates]
        /\ eventsHandle' \in Reg \cup {NoReg}
        /\ handle' \in [Thread -> Reg \cup {NoReg}]
    BY <1>6, <1>3 DEF Assign, Thread
  <2>. QED BY <1>6, <2>1, <2>2 DEF Assign
<1>7. CASE Install
  <2>1. pc' \in [Thread -> PC]
    BY <1>7 DEF Install, Thread, PC
  <2>2. handle["firebird"] \in Reg \cup {NoReg}
    BY DEF Thread
  <2>3. /\ regs' \in [Reg -> RegStates]
        /\ eventsHandle' \in Reg \cup {NoReg}
        /\ handle' \in [Thread -> Reg \cup {NoReg}]
    BY <1>7, <1>3, <2>2 DEF Install, Thread
  <2>. QED BY <1>7, <2>1, <2>3 DEF Install
<1>8. CASE Reset
  <2>1. pc' \in [Thread -> PC]
    BY <1>8 DEF Reset, Thread, PC
  <2>. QED BY <1>8, <1>3, <2>1 DEF Reset
<1>9. CASE StopListening
  <2>1. pc' \in [Thread -> PC]
    BY <1>9, <1>2 DEF StopListening, Thread, PC
  <2>. QED BY <1>9, <2>1 DEF StopListening
<1>10. CASE NotifyDispatcher
  <2>1. pc' \in [Thread -> PC]
    BY <1>10, <1>2 DEF NotifyDispatcher, Thread, PC
  <2>. QED BY <1>10, <2>1 DEF NotifyDispatcher
<1>11. CASE DecodeEvent
  <2>1. pc' \in [Thread -> PC]
    BY <1>11 DEF DecodeEvent, Thread, PC
  <2>2. RawCounts \in Counts
    BY DEF RawCounts, Counts
  <2>3. pending' \in Seq(Counts)
    BY <1>11, <2>2 DEF DecodeEvent
  <2>. QED BY <1>11, <2>1, <2>3 DEF DecodeEvent
<1>12. CASE Dispatch
  <2>1. pc' \in [Thread -> PC]
    BY <1>12 DEF Dispatch, Thread, PC
  <2>2. Head(pending) \in Counts /\ Tail(pending) \in Seq(Counts)
    BY <1>12 DEF Dispatch
  <2>3. delivered' \in Counts
    BY <1>12, <1>1, <2>2 DEF Dispatch
  <2>. QED BY <1>12, <2>1, <2>2, <2>3 DEF Dispatch
<1>13. CASE Fire
  <2>1. pc' \in [Thread -> PC]
    BY <1>13 DEF Fire, Thread, PC
  <2>2. events' \in Counts
    BY <1>13 DEF Fire, Counts
  <2>. QED BY <1>13, <2>1, <2>2 DEF Fire, RegStates
<1>21. CASE FireEmpty
  <2>1. pc' \in [Thread -> PC]
    BY <1>21 DEF FireEmpty, Thread, PC
  <2>2. events' \in Counts /\ regs' \in [Reg -> RegStates]
    BY <1>21 DEF FireEmpty, EmptyBlock, NoCounts, Counts, RegStates
  <2>. QED BY <1>21, <2>1, <2>2 DEF FireEmpty
<1>14. ASSUME NEW t \in {"owner", "dispatcher"}, StopStep(t)
       PROVE  TypeOK'
  <2>. t \in Thread
    BY DEF Thread
  <2>1. CASE CopyHandle(t)
    <3>1. pc' \in [Thread -> PC]
      BY <2>1 DEF CopyHandle, PC
    <3>. QED BY <2>1, <3>1 DEF CopyHandle
  <2>2. CASE Cancel(t)
    <3>1. pc' \in [Thread -> PC]
      BY <2>2 DEF Cancel, PC
    <3>. QED BY <2>2, <3>1 DEF Cancel, RegStates
  <2>3. CASE Detach(t)
    <3>1. pc' \in [Thread -> PC]
      BY <2>3 DEF Detach, PC
    <3>. QED BY <2>3, <3>1 DEF Detach
  <2>4. CASE NotifyAll(t)
    <3>1. pc' \in [Thread -> PC]
      BY <2>4, <1>2 DEF NotifyAll, PC
    <3>. QED BY <2>4, <3>1 DEF NotifyAll
  <2>5. CASE JoinDispatcher(t) \/ JoinThrows(t)
    <3>1. pc' \in [Thread -> PC]
      BY <2>5 DEF JoinDispatcher, JoinThrows, PC
    <3>. QED BY <2>5, <3>1 DEF JoinDispatcher, JoinThrows
  <2>6. CASE JoinAborts(t)
    <3>1. pc' \in [Thread -> PC] /\ regs' \in [Reg -> RegStates]
      BY <2>6 DEF JoinAborts, PC, RegStates
    <3>. QED BY <2>6, <3>1 DEF JoinAborts
  <2>. QED BY <1>14, <2>1, <2>2, <2>3, <2>4, <2>5, <2>6 DEF StopStep, Join
<1>15. ASSUME NEW t \in {"owner", "dispatcher"}, NEW from \in PC, Stop(t, from)
       PROVE  TypeOK'
  <2>1. pc' \in [Thread -> PC]
    BY <1>15 DEF Stop, Thread, PC
  <2>. QED BY <1>15, <2>1 DEF Stop
<1>16. CASE ConstructFails \/ StartDispatcher \/ CheckOwner \/ IgnoreEvent
            \/ RequeueFails \/ Sleep \/ SpuriousWakeup \/ CallbackReturns
            \/ EndDispatcher
  <2>1. pc' \in [Thread -> PC]
    BY <1>16 DEF ConstructFails, StartDispatcher, CheckOwner, IgnoreEvent,
       RequeueFails, Sleep, SpuriousWakeup, CallbackReturns, EndDispatcher,
       Thread, PC
  <2>. QED BY <1>16, <2>1 DEF ConstructFails, StartDispatcher, CheckOwner,
           IgnoreEvent, RequeueFails, Sleep, SpuriousWakeup, CallbackReturns,
           EndDispatcher
<1>17. CASE Clear
  <2>1. pc' \in [Thread -> PC]
    BY <1>17 DEF Clear, Thread, PC
  <2>2. pending' \in Seq(Counts)
    BY <1>17 DEF Clear
  <2>. QED BY <1>17, <2>1, <2>2 DEF Clear
<1>18. CASE Post \/ DisconnectAttachment
  <2>1. CASE Post
    <3>1. posted' \in Counts
      <4>1. PICK e \in Event : posted' = [posted EXCEPT ![e] = @ + 1]
        BY <2>1 DEF Post
      <4>. QED BY <4>1 DEF Counts
    <3>. QED BY <2>1, <3>1 DEF Post
  <2>2. CASE DisconnectAttachment
    BY <2>2 DEF DisconnectAttachment, RegStates
  <2>. QED BY <1>18, <2>1, <2>2
<1>19. CASE StopAgain \/ ConstructionFailed \/ Aborted
            \/ UNCHANGED vars
  BY <1>19 DEF StopAgain, ConstructionFailed, Aborted, vars
<1>20. "idle" \in PC /\ "callback" \in PC
  BY DEF PC
<1>. QED
  BY <1>4, <1>5, <1>6, <1>7, <1>8, <1>9, <1>10, <1>11, <1>12, <1>13, <1>14,
     <1>15, <1>16, <1>17, <1>18, <1>19, <1>20, <1>21
     DEF Next, OwnerStep, CallbackStep, DispatchStep

(* Every step keeps the threads in phase. *)
LEMMA PhasesStep ==
  ASSUME ELInv, [Next]_vars
  PROVE  Phases'
<1>. USE DEF Goto
<1>. TypeOK /\ Phases /\ NothingDropped
  BY DEF ELInv
<1>. /\ pc \in [Thread -> PC] /\ listening \in BOOLEAN
     /\ "owner" \in Thread /\ "firebird" \in Thread /\ "dispatcher" \in Thread
  BY DEF TypeOK, Thread
<1>1. CASE Construct \/ ConstructFails \/ Assign \/ StartDispatcher
  BY <1>1 DEF Construct, ConstructFails, Assign, StartDispatcher, objectVars,
     Phases, OwnerPC, DispatcherPC, Stopping, Stopped
<1>2. ASSUME NEW t \in {"owner", "dispatcher"}, StopStep(t) PROVE Phases'
  <2>1. CASE CopyHandle(t) \/ Cancel(t) \/ Detach(t)
    BY <2>1 DEF CopyHandle, Cancel, Detach, objectVars, Phases, OwnerPC,
       DispatcherPC, Stopping, Stopped
  <2>2. CASE NotifyAll(t)
    BY <2>2 DEF NotifyAll, Woken, objectVars, Phases, OwnerPC, DispatcherPC,
       Stopping, Stopped
  <2>3. CASE JoinDispatcher(t) \/ JoinThrows(t)
    BY <2>3 DEF JoinDispatcher, JoinThrows, objectVars, Phases, OwnerPC,
       DispatcherPC, Stopping, Stopped
  <2>4. CASE JoinAborts(t)
    <3>1. /\ pc'["owner"] = "aborted" /\ pc'["firebird"] = "aborted"
          /\ pc'["dispatcher"] = "aborted"
      BY <2>4 DEF JoinAborts
    <3>. QED BY <3>1 DEF Phases, OwnerPC, FirebirdPC, DispatcherPC, Stopping,
             Stopped
  <2>. QED BY <1>2, <2>1, <2>2, <2>3, <2>4 DEF StopStep, Join
<1>3. CASE Clear \/ Reset
  BY <1>3 DEF Clear, Reset, Phases, OwnerPC, Stopping, Stopped
<1>4. CASE Stop("owner", "idle") \/ Stop("dispatcher", "callback")
  BY <1>4 DEF Stop, Phases, OwnerPC, DispatcherPC, Stopping, Stopped
<1>5. CASE Fire \/ FireEmpty \/ CheckOwner \/ IgnoreEvent \/ Requeue
           \/ RequeueFails
  BY <1>5 DEF Fire, FireEmpty, CheckOwner, IgnoreEvent, Requeue, RequeueFails,
     objectVars, Phases, FirebirdPC
<1>6. CASE DecodeEvent
  BY <1>6 DEF DecodeEvent, Phases, FirebirdPC
<1>7. CASE NotifyDispatcher
  BY <1>7 DEF NotifyDispatcher, Woken, objectVars, Phases, FirebirdPC,
     DispatcherPC
<1>8. CASE StopListening
  BY <1>8 DEF StopListening, Woken, Phases, FirebirdPC, DispatcherPC
<1>9. CASE Install
  BY <1>9 DEF Install, Phases, FirebirdPC, Stopping, Stopped
<1>10. CASE Sleep \/ SpuriousWakeup \/ Dispatch \/ CallbackReturns
            \/ EndDispatcher
  BY <1>10 DEF Sleep, SpuriousWakeup, Dispatch, CallbackReturns,
     EndDispatcher, objectVars, Phases, DispatcherPC, Stopped
<1>11. CASE Post \/ DisconnectAttachment \/ StopAgain \/ ConstructionFailed
            \/ Aborted \/ UNCHANGED vars
  <2>1. UNCHANGED <<listening, eventsHandle, pc>>
    BY <1>11 DEF Post, DisconnectAttachment, StopAgain, ConstructionFailed,
       Aborted, vars, objectVars, threadVars
  <2>. QED BY <2>1 DEF Phases
<1>. QED
  BY <1>1, <1>2, <1>3, <1>4, <1>5, <1>6, <1>7, <1>8, <1>9, <1>10, <1>11
     DEF Next, OwnerStep, CallbackStep, DispatchStep

(* Nothing is queued once the dispatcher has gone: only a listening object *)
(* queues, and no step turns listening on again.                           *)
LEMMA DroppedStep ==
  ASSUME ELInv, [Next]_vars
  PROVE  NothingDropped'
<1>. USE DEF Goto
<1>. TypeOK /\ Phases /\ NothingDropped
  BY DEF ELInv
<1>. /\ pc \in [Thread -> PC]
     /\ "owner" \in Thread /\ "firebird" \in Thread /\ "dispatcher" \in Thread
  BY DEF TypeOK, Thread
<1>1. CASE Construct
  BY <1>1 DEF Construct, Phases, NothingDropped
<1>2. CASE EndDispatcher
  BY <1>2 DEF EndDispatcher, objectVars, NothingDropped
<1>3. CASE StartDispatcher
  BY <1>3 DEF StartDispatcher, objectVars, NothingDropped
<1>4. CASE DecodeEvent \/ Dispatch
  BY <1>4 DEF DecodeEvent, Dispatch, NothingDropped
<1>5. CASE Clear \/ StopListening \/ Stop("owner", "idle")
           \/ Stop("dispatcher", "callback")
  BY <1>5 DEF Clear, StopListening, Stop, Woken, NothingDropped
<1>6. ASSUME NEW t \in {"owner", "dispatcher"}, StopStep(t)
      PROVE  NothingDropped'
  BY <1>6 DEF StopStep, CopyHandle, Cancel, Detach, NotifyAll, Join,
     JoinDispatcher, JoinThrows, JoinAborts, Woken, objectVars, NothingDropped
<1>7. CASE Assign \/ Reset \/ Install
  BY <1>7 DEF Assign, Reset, Install, NothingDropped
<1>8. CASE ConstructFails \/ Fire \/ FireEmpty \/ CheckOwner \/ IgnoreEvent
           \/ Requeue \/ RequeueFails \/ NotifyDispatcher \/ Sleep \/ SpuriousWakeup
           \/ CallbackReturns
  BY <1>8 DEF ConstructFails, Fire, FireEmpty, CheckOwner, IgnoreEvent,
     Requeue, RequeueFails, NotifyDispatcher, Sleep, SpuriousWakeup, CallbackReturns,
     Woken, objectVars, NothingDropped
<1>9. CASE Post \/ DisconnectAttachment \/ StopAgain \/ ConstructionFailed
           \/ Aborted \/ UNCHANGED vars
  BY <1>9 DEF Post, DisconnectAttachment, StopAgain, ConstructionFailed,
     Aborted, vars, objectVars, threadVars, NothingDropped
<1>. QED
  BY <1>1, <1>2, <1>3, <1>4, <1>5, <1>6, <1>7, <1>8, <1>9
     DEF Next, OwnerStep, CallbackStep, DispatchStep

(* An armed registration always has the handle that releases it. *)
LEMMA ArmedStep ==
  ASSUME ELInv, [Next]_vars
  PROVE  ArmedHeld'
<1>. USE DEF Goto
<1>. TypeOK /\ Phases /\ ArmedHeld
  BY DEF ELInv
<1>. /\ pc \in [Thread -> PC] /\ handle \in [Thread -> Reg \cup {NoReg}]
     /\ regs \in [Reg -> RegStates]
     /\ "owner" \in Thread /\ "firebird" \in Thread /\ "dispatcher" \in Thread
  BY DEF TypeOK, Thread
<1>1. ASSUME ReleaseCancels, NEW r \in Reg \cup {NoReg}, NEW s \in Reg,
             AfterRelease(regs, r)[s] = "armed"
      PROVE  regs[s] = "armed" /\ s # r
  BY <1>1, RegAssumption DEF AfterRelease
<1>2. CASE Construct \/ Requeue
  BY <1>2 DEF Construct, Requeue, QueEvents, objectVars, ArmedHeld
<1>3. CASE Assign
  <2>1. eventsHandle \in Reg \cup {NoReg}
    BY DEF TypeOK
  <2>. QED BY <1>1, <1>3, <2>1 DEF Assign, ArmedHeld
<1>4. CASE Install
  <2>1. eventsHandle \in Reg \cup {NoReg}
    BY DEF TypeOK
  <2>. QED BY <1>1, <1>4, <2>1 DEF Install, ArmedHeld
<1>5. CASE Reset
  <2>1. eventsHandle \in Reg \cup {NoReg}
    BY DEF TypeOK
  <2>. QED BY <1>1, <1>5, <2>1 DEF Reset, ArmedHeld
<1>6. CASE Fire \/ FireEmpty \/ DisconnectAttachment
  BY <1>6 DEF Fire, FireEmpty, DisconnectAttachment, objectVars, threadVars, ArmedHeld
<1>7. ASSUME NEW t \in {"owner", "dispatcher"}, StopStep(t) PROVE ArmedHeld'
  <2>1. CASE JoinAborts(t)
    BY <2>1 DEF JoinAborts, ArmedHeld
  <2>2. CASE ~JoinAborts(t)
    BY <1>7, <2>2 DEF StopStep, CopyHandle, Cancel, Detach, NotifyAll, Join,
       JoinDispatcher, JoinThrows, Woken, objectVars, serverVars, ArmedHeld
  <2>. QED BY <2>1, <2>2
<1>8. CASE ConstructFails \/ StartDispatcher \/ CheckOwner \/ IgnoreEvent
           \/ RequeueFails \/ NotifyDispatcher \/ Sleep \/ SpuriousWakeup
           \/ CallbackReturns \/ EndDispatcher
  BY <1>8 DEF ConstructFails, StartDispatcher, CheckOwner, IgnoreEvent,
     RequeueFails, NotifyDispatcher, Sleep, SpuriousWakeup, CallbackReturns,
     EndDispatcher, Woken, objectVars, serverVars, ArmedHeld
<1>9. CASE DecodeEvent \/ Dispatch \/ Clear \/ StopListening
           \/ Stop("owner", "idle") \/ Stop("dispatcher", "callback")
  BY <1>9 DEF DecodeEvent, Dispatch, Clear, StopListening, Stop, Woken,
     serverVars, ArmedHeld
<1>10. CASE Post \/ StopAgain \/ ConstructionFailed \/ Aborted
            \/ UNCHANGED vars
  BY <1>10 DEF Post, StopAgain, ConstructionFailed, Aborted, vars, objectVars,
     threadVars, serverVars, ArmedHeld
<1>. QED
  BY <1>2, <1>3, <1>4, <1>5, <1>6, <1>7, <1>8, <1>9, <1>10
     DEF Next, OwnerStep, CallbackStep, DispatchStep

(* The inductive invariant: the phases of the three threads, what is left  *)
(* in the queue, and the holder of every armed registration.               *)
THEOREM SpecELInv == Spec => []ELInv
<1>1. Init => ELInv
  <2>1. Init => TypeOK
    <3>. SUFFICES ASSUME Init PROVE TypeOK
      OBVIOUS
    <3>1. NoCounts \in Counts /\ posted \in Counts
      BY DEF Init, Counts, NoCounts
    <3>2. pc \in [Thread -> PC]
      BY DEF Init, Thread, PC
    <3>3. regs \in [Reg -> RegStates]
      BY DEF Init, RegStates
    <3>4. pending \in Seq(Counts)
      BY DEF Init
    <3>5. handle \in [Thread -> Reg \cup {NoReg}]
      BY DEF Init
    <3>6. base \in [Reg -> Counts]
      BY <3>1 DEF Init
    <3>. QED BY <3>1, <3>2, <3>3, <3>4, <3>5, <3>6 DEF Init, TypeOK
  <2>2. Init => Phases /\ NothingDropped /\ ArmedHeld
    BY DEF Init, Phases, NothingDropped, ArmedHeld, Thread, OwnerPC,
       FirebirdPC, DispatcherPC, Stopping, Stopped
  <2>. QED BY <2>1, <2>2 DEF ELInv
<1>2. ELInv /\ [Next]_vars => ELInv'
  <2>. SUFFICES ASSUME ELInv, [Next]_vars PROVE ELInv'
    OBVIOUS
  <2>1. TypeOK'
    BY TypeStep DEF ELInv
  <2>. QED BY <2>1, PhasesStep, DroppedStep, ArmedStep DEF ELInv
<1>. QED BY <1>1, <1>2, PTL DEF Spec

(* Every variable keeps its type; no count of events is negative. *)
THEOREM TypeCorrect == Spec => []TypeOK
<1>1. ELInv => TypeOK
  BY DEF ELInv
<1>. QED BY <1>1, SpecELInv, PTL

(* The clear() at the end of stop() discards no notification. *)
THEOREM NothingDroppedHolds == Spec => []NothingDropped
<1>1. ELInv => NothingDropped
  BY DEF ELInv
<1>. QED BY <1>1, SpecELInv, PTL

(* A stopped listener leaves no registration behind, whatever callback     *)
(* was renewing one when stop() cancelled.                                 *)
THEOREM AllCancelledHolds == Spec => []AllCancelled
<1>1. ELInv => AllCancelled
  BY RegAssumption DEF ELInv, Phases, ArmedHeld, AllCancelled
<1>. QED BY <1>1, SpecELInv, PTL
-----------------------------------------------------------------------------
(* The sum of a base and the first i of a sequence of counts. *)
Sums(A, d, s) ==
    /\ A \in [0 .. Len(s) -> Counts] /\ A[0] = d
    /\ \A i \in 1 .. Len(s) : A[i] = Plus(A[i - 1], s[i])

LEMMA PlusType == ASSUME NEW c \in Counts, NEW d \in Counts PROVE Plus(c, d) \in Counts
  BY DEF Counts, Plus

(* FoldLeft adds them up one by one. *)
LEMMA FoldedSums ==
  ASSUME NEW d \in Counts, NEW s \in Seq(Counts)
  PROVE  \E A : Sums(A, d, s) /\ FoldLeft(Plus, d, s) = A[Len(s)]
<1> DEFINE n == Len(s)
           step == [p \in (Nat \ {0}) \X Counts |-> IF p[1] \in 1 .. n THEN Plus(p[2], s[p[1]]) ELSE p[2]]
           Loop(f) == [x \in SUBSET DOMAIN s |->
                         IF x = {} THEN d ELSE LET y == Max(x) IN Plus(f[x \ {y}], s[y])]
           after == CHOOSE f : f = Loop(f)
<1>1. n \in Nat /\ DOMAIN s = 1 .. n /\ \A i \in 1 .. n : s[i] \in Counts
  BY LenProperties, ElementOfSeq
<1>2. StepsWithin(Counts, step)
  BY <1>1, PlusType DEF StepsWithin
<1>3. \A i \in 1 .. n : \A v \in Counts : step[<<i, v>>] = Plus(v, s[i])
  BY <1>1
<1>4. FoldLeft(Plus, d, s) = after[1 .. n]
  BY <1>1 DEF FoldLeft, MapThenFoldSet
<1> HIDE DEF step
<1>5. PICK f \in [SUBSET (1 .. n) -> Counts] : Descends(f, d, step, n)
  <2> HIDE DEF n
  <2> QED BY <1>1, <1>2, DescentExists
<1>6. f = Loop(f)
  <2>1. ASSUME NEW x \in SUBSET (1 .. n), x # {}
        PROVE  step[<<Max(x), f[x \ {Max(x)}]>>] = Plus(f[x \ {Max(x)}], s[Max(x)])
    <3>1. Max(x) \in 1 .. n
      BY <1>1, <2>1, LargestIn
    <3>2. x \ {Max(x)} \in SUBSET (1 .. n)
      OBVIOUS
    <3> QED BY <3>1, <3>2, <1>3
  <2> QED BY <2>1, <1>1, <1>5 DEF Descends
<1>7. after = Loop(after)
  <2> HIDE DEF Loop
  <2> QED BY <1>6
<1>8. \A x \in SUBSET (1 .. n) : after[x] = IF x = {} THEN d ELSE Plus(after[x \ {Max(x)}], s[Max(x)])
  <2> HIDE DEF after
  <2> QED BY <1>7, <1>1
<1> HIDE DEF Loop, after
<1> DEFINE A == [i \in 0 .. n |-> after[1 .. i]]
<1>9. A[0] = d
  <2>1. 1 .. 0 = {} /\ 0 \in 0 .. n
    BY <1>1
  <2> QED BY <2>1, <1>8
<1>10. ASSUME NEW i \in 1 .. n PROVE A[i] = Plus(A[i - 1], s[i])
  <2>1. /\ 1 .. i \in SUBSET (1 .. n) /\ 1 .. i # {} /\ (1 .. i) \ {i} = 1 .. (i - 1)
        /\ i \in 0 .. n /\ i - 1 \in 0 .. n /\ i \in 1 .. i /\ i \in Nat /\ 1 .. i \in SUBSET (1 .. i)
    BY <1>1
  <2>2. Max(1 .. i) = i
    BY <2>1, LargestTop
  <2>3. after[1 .. i] = Plus(after[1 .. (i - 1)], s[i])
    BY <1>8, <2>1, <2>2
  <2> QED BY <2>1, <2>3
<1>11. A = [i \in 0 .. n |-> A[i]] /\ A[n] = after[1 .. n]
  BY <1>1
<1> HIDE DEF A
<1>12. \A i \in 0 .. n : A[i] \in Counts
  <2> DEFINE S == {i \in Nat : i \in 0 .. n => A[i] \in Counts}
  <2>1. 0 \in S
    BY <1>9
  <2>2. ASSUME NEW i \in Nat, i \in S PROVE i + 1 \in S
    <3> SUFFICES ASSUME i + 1 \in 0 .. n PROVE A[i + 1] \in Counts
      OBVIOUS
    <3>1. i \in 0 .. n /\ i + 1 \in 1 .. n /\ (i + 1) - 1 = i
      BY <1>1
    <3> QED BY <2>2, <3>1, <1>1, <1>10, PlusType
  <2>3. Nat \subseteq S
    <3> HIDE DEF S
    <3> QED BY <2>1, <2>2, SetInduction
  <2> QED BY <2>3, <1>1
<1>13. A \in [0 .. n -> Counts]
  BY <1>11, <1>12
<1>14. Sums(A, d, s)
  BY <1>9, <1>10, <1>13 DEF Sums
<1> QED BY <1>4, <1>11, <1>14

(* A notification is added behind what is queued, *)
LEMMA SumAppend ==
  ASSUME NEW d \in Counts, NEW s \in Seq(Counts), NEW c \in Counts
  PROVE  FoldLeft(Plus, d, Append(s, c)) = Plus(FoldLeft(Plus, d, s), c)
<1> DEFINE t == Append(s, c)
           n == Len(s)
<1>1. /\ t \in Seq(Counts) /\ Len(t) = n + 1 /\ t[n + 1] = c /\ n \in Nat
      /\ \A i \in 1 .. n : t[i] = s[i]
  BY AppendProperties, LenProperties
<1> HIDE DEF t
<1>2. PICK A : Sums(A, d, s) /\ FoldLeft(Plus, d, s) = A[n]
  BY FoldedSums
<1>3. PICK B : Sums(B, d, t) /\ FoldLeft(Plus, d, t) = B[n + 1]
  BY <1>1, FoldedSums
<1> HIDE DEF n
<1>4. A[0] = B[0] /\ \A i \in 1 .. n : A[i - 1] = B[i - 1] => A[i] = B[i]
  BY <1>1, <1>2, <1>3 DEF Sums, n
<1>5. A[n] = B[n]
  <2>1. n \in Nat /\ GoTogether(A, B, n)
    BY <1>1, <1>4 DEF GoTogether
  <2> QED BY <2>1, RecursionAgrees
<1>6. B[n + 1] = Plus(B[n], c)
  <2>1. n + 1 \in 1 .. n + 1 /\ (n + 1) - 1 = n
    BY <1>1
  <2> QED BY <2>1, <1>1, <1>3 DEF Sums
<1> QED BY <1>2, <1>3, <1>5, <1>6 DEF t, n

(* and taken from the front. *)
LEMMA SumHead ==
  ASSUME NEW d \in Counts, NEW s \in Seq(Counts), s # <<>>
  PROVE  FoldLeft(Plus, Plus(d, Head(s)), Tail(s)) = FoldLeft(Plus, d, s)
<1> DEFINE t == Tail(s)
           e == Plus(d, Head(s))
           n == Len(t)
<1>1. /\ t \in Seq(Counts) /\ n \in Nat /\ Len(s) = n + 1 /\ Head(s) = s[1] /\ Head(s) \in Counts
      /\ \A i \in 1 .. n : t[i] = s[i + 1]
  BY HeadTailProperties, LenProperties, EmptySeq
<1>2. e \in Counts
  BY <1>1, PlusType
<1> HIDE DEF t
<1>3. PICK A : Sums(A, d, s) /\ FoldLeft(Plus, d, s) = A[n + 1]
  BY <1>1, FoldedSums
<1> HIDE DEF e
<1>4. PICK B : Sums(B, e, t) /\ FoldLeft(Plus, e, t) = B[n]
  BY <1>1, <1>2, FoldedSums
<1> HIDE DEF n
<1> DEFINE C == [i \in 0 .. n |-> A[i + 1]]
<1>5. C[0] = B[0]
  <2>1. 1 \in 1 .. n + 1 /\ 1 - 1 = 0 /\ 0 \in 0 .. n
    BY <1>1
  <2>2. A[1] = e
    BY <2>1, <1>1, <1>3 DEF Sums, e
  <2> QED BY <2>1, <2>2, <1>4 DEF Sums
<1>6. ASSUME NEW i \in 1 .. n, C[i - 1] = B[i - 1] PROVE C[i] = B[i]
  <2>1. i \in 0 .. n /\ i - 1 \in 0 .. n /\ (i - 1) + 1 = i /\ i + 1 \in 1 .. n + 1 /\ (i + 1) - 1 = i
    BY <1>1
  <2>2. C[i] = A[i + 1] /\ C[i - 1] = A[i]
    BY <2>1
  <2>3. A[i + 1] = Plus(A[i], t[i])
    BY <2>1, <1>1, <1>3 DEF Sums
  <2>4. B[i] = Plus(B[i - 1], t[i])
    BY <1>4 DEF Sums, n
  <2> QED BY <1>6, <2>2, <2>3, <2>4
<1>7. C[n] = A[n + 1]
  BY <1>1
<1> HIDE DEF C
<1>8. C[n] = B[n]
  <2>1. n \in Nat /\ GoTogether(C, B, n)
    BY <1>1, <1>5, <1>6 DEF GoTogether
  <2> QED BY <2>1, RecursionAgrees
<1> QED BY <1>3, <1>4, <1>7, <1>8 DEF t, e

LEMMA SumNothing ==
  ASSUME NEW d \in Counts
  PROVE  FoldLeft(Plus, d, <<>>) = d
<1>1. <<>> \in Seq(Counts) /\ Len(<<>>) = 0
  OBVIOUS
<1>2. PICK A : Sums(A, d, <<>>) /\ FoldLeft(Plus, d, <<>>) = A[Len(<<>>)]
  BY <1>1, FoldedSums
<1> QED BY <1>1, <1>2 DEF Sums

LEMMA SumType ==
  ASSUME NEW d \in Counts, NEW s \in Seq(Counts)
  PROVE  FoldLeft(Plus, d, s) \in Counts
<1>1. PICK A : Sums(A, d, s) /\ FoldLeft(Plus, d, s) = A[Len(s)]
  BY FoldedSums
<1>2. Len(s) \in 0 .. Len(s)
  BY LenProperties
<1> QED BY <1>1, <1>2 DEF Sums

LEMMA PlusFacts ==
  ASSUME NEW a \in Counts, NEW b \in Counts, NEW c \in Counts
  PROVE  /\ Plus(a, Plus(b, c)) = Plus(Plus(a, b), c)
         /\ Plus(a, NoCounts) = a
  BY DEF Plus, Counts, NoCounts

-----------------------------------------------------------------------------
(* What the counts rest on: nothing is queued before the baseline is       *)
(* fixed, and a callback never reports less than the baseline, because no  *)
(* second callback runs before it has been handled.                        *)
Baseline ==
    /\ ~first => pending = <<>> /\ delivered = NoCounts
    /\ \A e \in Event : eventBuffer[e] <= posted[e] + 1
    /\ pc["firebird"] \in {"called", "enter"} /\ events # EmptyBlock =>
         \A e \in Event : eventBuffer[e] <= events[e] /\ events[e] <= posted[e] + 1

CountsInv == ELInv /\ Baseline /\ CountsConserved

LEMMA CountsFrame ==
  ASSUME CountsInv,
         UNCHANGED <<first, pending, delivered, initial, eventBuffer, events, posted>>,
         pc'["firebird"] \in {"called", "enter"} => pc["firebird"] \in {"called", "enter"}
  PROVE  Baseline' /\ CountsConserved'
<1>1. Baseline'
  BY DEF CountsInv, Baseline
<1>2. CountsConserved'
  BY DEF CountsInv, CountsConserved
<1> QED BY <1>1, <1>2

LEMMA DecodeCounts ==
  ASSUME CountsInv, DecodeEvent
  PROVE  Baseline' /\ CountsConserved'
<1>1. TypeOK /\ Baseline /\ CountsConserved
  BY DEF CountsInv, ELInv
<1>2. /\ pc["firebird"] = "enter" /\ events # EmptyBlock /\ eventBuffer' = events /\ first' = TRUE
      /\ UNCHANGED <<events, posted, delivered>>
      /\ pc' \in {[pc EXCEPT !["firebird"] = "notify"], [pc EXCEPT !["firebird"] = "requeue"]}
  BY DEF DecodeEvent, Goto, serverVars
<1>3. pc'["firebird"] \in {"notify", "requeue"}
  BY <1>1, <1>2 DEF TypeOK, Thread
<1>4. \A e \in Event : eventBuffer[e] \in Nat /\ events[e] \in Nat /\ eventBuffer[e] <= events[e]
  BY <1>1, <1>2 DEF TypeOK, Counts, Baseline
<1>5. Baseline'
  <2>1. \A e \in Event : eventBuffer'[e] <= posted'[e] + 1
    BY <1>1, <1>2 DEF Baseline
  <2> QED BY <1>2, <1>3, <2>1 DEF Baseline
<1>6. RawCounts \in Counts /\ Plus(eventBuffer, RawCounts) = events
  <2>1. RawCounts = [e \in Event |-> events[e] - eventBuffer[e]]
    BY <1>4 DEF RawCounts
  <2>2. \A e \in Event : RawCounts[e] \in Nat /\ eventBuffer[e] + RawCounts[e] = events[e]
    BY <1>4, <2>1
  <2>3. events = [e \in Event |-> events[e]]
    BY <1>1 DEF TypeOK, Counts
  <2>4. RawCounts = [e \in Event |-> RawCounts[e]]
    BY <2>1
  <2> HIDE DEF RawCounts
  <2> QED BY <2>2, <2>3, <2>4 DEF Plus, Counts
<1>7. initial \in Counts /\ delivered \in Counts /\ pending \in Seq(Counts)
      /\ eventBuffer \in Counts /\ events \in Counts
  BY <1>1 DEF TypeOK
<1>8. CASE first /\ RawCounts # NoCounts
  <2>1. pending' = Append(pending, RawCounts) /\ UNCHANGED initial
    BY <1>8 DEF DecodeEvent
  <2>2. FoldLeft(Plus, delivered, pending') = Plus(FoldLeft(Plus, delivered, pending), RawCounts)
    BY <1>6, <1>7, <2>1, SumAppend
  <2>3. Plus(initial, FoldLeft(Plus, delivered, pending)) = eventBuffer
    BY <1>1, <1>8 DEF CountsConserved
  <2>4. FoldLeft(Plus, delivered, pending) \in Counts
    BY <1>7, SumType
  <2>5. Plus(initial, FoldLeft(Plus, delivered, pending')) = events
    <3> DEFINE sum == FoldLeft(Plus, delivered, pending)
    <3>1. sum \in Counts
      BY <2>4
    <3>2. Plus(initial, Plus(sum, RawCounts)) = Plus(Plus(initial, sum), RawCounts)
      <4> HIDE DEF sum
      <4> QED BY <1>6, <1>7, <3>1, PlusFacts
    <3> QED BY <1>6, <2>2, <2>3, <3>2
  <2> QED BY <1>2, <1>5, <2>1, <2>5 DEF CountsConserved
<1>9. CASE first /\ RawCounts = NoCounts
  <2>1. UNCHANGED <<pending, initial>>
    BY <1>9 DEF DecodeEvent
  <2>2. events = eventBuffer
    BY <1>6, <1>7, <1>9, PlusFacts
  <2> QED BY <1>1, <1>2, <1>5, <1>9, <2>1, <2>2 DEF CountsConserved
<1>10. CASE ~first
  <2>1. pending' = pending /\ initial' = events
    BY <1>10 DEF DecodeEvent
  <2>2. pending = <<>> /\ delivered = NoCounts
    BY <1>1, <1>10 DEF Baseline
  <2>3. FoldLeft(Plus, delivered, pending) = NoCounts
    BY <1>7, <2>2, SumNothing
  <2>4. Plus(events, NoCounts) = events
    BY <1>7, PlusFacts
  <2> QED BY <1>2, <1>5, <2>1, <2>3, <2>4 DEF CountsConserved
<1> QED BY <1>8, <1>9, <1>10

LEMMA CountsStep ==
  ASSUME CountsInv, [Next]_vars
  PROVE  Baseline' /\ CountsConserved'
<1> USE DEF Goto
<1> TypeOK /\ Phases /\ NothingDropped /\ Baseline /\ CountsConserved
  BY DEF CountsInv, ELInv
<1> pc \in [Thread -> PC] /\ "owner" \in Thread /\ "firebird" \in Thread /\ "dispatcher" \in Thread
  BY DEF TypeOK, Thread
<1>1. CASE Construct \/ ConstructFails \/ Assign \/ StartDispatcher \/ Reset
  <2>1. /\ UNCHANGED <<first, pending, delivered, initial, eventBuffer, events, posted>>
        /\ pc'["firebird"] = pc["firebird"]
    BY <1>1 DEF Construct, ConstructFails, Assign, StartDispatcher, Reset, objectVars, serverVars, historyVars
  <2> QED BY <2>1, CountsFrame
<1>2. ASSUME NEW t \in {"owner", "dispatcher"}, StopStep(t) PROVE Baseline' /\ CountsConserved'
  <2>1. /\ UNCHANGED <<first, pending, delivered, initial, eventBuffer, events, posted>>
        /\ pc'["firebird"] \in {pc["firebird"], "aborted"}
    BY <1>2 DEF StopStep, CopyHandle, Cancel, Detach, NotifyAll, Join, JoinDispatcher, JoinThrows,
       JoinAborts, Woken, objectVars, serverVars, historyVars
  <2> QED BY <2>1, CountsFrame
<1>3. CASE Stop("owner", "idle") \/ Stop("dispatcher", "callback")
  <2>1. /\ UNCHANGED <<first, pending, delivered, initial, eventBuffer, events, posted>>
        /\ pc'["firebird"] = pc["firebird"]
    BY <1>3 DEF Stop, serverVars, historyVars
  <2> QED BY <2>1, CountsFrame
<1>4. CASE Clear
  <2>1. pending = <<>>
    BY <1>4 DEF Clear, Phases, NothingDropped, Stopped
  <2>2. /\ UNCHANGED <<first, pending, delivered, initial, eventBuffer, events, posted>>
        /\ pc'["firebird"] = pc["firebird"]
    BY <1>4, <2>1 DEF Clear, serverVars, historyVars
  <2> QED BY <2>2, CountsFrame
<1>5. CASE Fire
  <2>1. /\ UNCHANGED <<first, pending, delivered, initial, eventBuffer, posted>>
        /\ events' = [e \in Event |-> posted[e] + 1]
    BY <1>5 DEF Fire, objectVars, historyVars
  <2>2. \A e \in Event : eventBuffer[e] <= events'[e] /\ events'[e] <= posted[e] + 1
    <3>1. \A e \in Event : posted[e] \in Nat /\ eventBuffer[e] <= posted[e] + 1
      BY DEF TypeOK, Counts, Baseline
    <3> QED BY <2>1, <3>1
  <2>3. Baseline'
    BY <2>1, <2>2 DEF Baseline
  <2> QED BY <2>1, <2>3 DEF CountsConserved
<1>12. CASE FireEmpty
  <2>1. /\ UNCHANGED <<first, pending, delivered, initial, eventBuffer, posted>>
        /\ events' = EmptyBlock
    BY <1>12 DEF FireEmpty, objectVars, historyVars
  <2>2. Baseline'
    BY <2>1 DEF Baseline, EmptyBlock, NoCounts
  <2> QED BY <2>1, <2>2 DEF CountsConserved
<1>6. CASE CheckOwner \/ IgnoreEvent \/ NotifyDispatcher \/ Requeue \/ RequeueFails
           \/ StopListening \/ Install
  <2>1. UNCHANGED <<first, pending, delivered, initial, eventBuffer, events, posted>>
    BY <1>6 DEF CheckOwner, IgnoreEvent, NotifyDispatcher, Requeue, RequeueFails,
       StopListening, Install, objectVars, serverVars, historyVars
  <2>2. pc'["firebird"] \in {"called", "enter"} => pc["firebird"] \in {"called", "enter"}
    BY <1>6 DEF CheckOwner, IgnoreEvent, NotifyDispatcher, Requeue, RequeueFails,
       StopListening, Install, Woken
  <2> QED BY <2>1, <2>2, CountsFrame
<1>7. CASE DecodeEvent
  BY <1>7, DecodeCounts
<1>8. CASE Sleep \/ SpuriousWakeup \/ CallbackReturns \/ EndDispatcher
  <2>1. /\ UNCHANGED <<first, pending, delivered, initial, eventBuffer, events, posted>>
        /\ pc'["firebird"] = pc["firebird"]
    BY <1>8 DEF Sleep, SpuriousWakeup, CallbackReturns, EndDispatcher, objectVars, serverVars, historyVars
  <2> QED BY <2>1, CountsFrame
<1>9. CASE Dispatch
  <2>1. /\ UNCHANGED <<first, initial, eventBuffer, events, posted>>
        /\ pc'["firebird"] = pc["firebird"]
        /\ pending # <<>> /\ delivered' = Plus(delivered, Head(pending)) /\ pending' = Tail(pending)
    BY <1>9 DEF Dispatch, serverVars
  <2>2. FoldLeft(Plus, delivered', pending') = FoldLeft(Plus, delivered, pending)
    <3>1. delivered \in Counts /\ pending \in Seq(Counts)
      BY DEF TypeOK
    <3> QED BY <2>1, <3>1, SumHead
  <2>3. first
    BY <2>1 DEF Baseline
  <2>4. Baseline'
    BY <2>1, <2>3 DEF Baseline
  <2> QED BY <2>1, <2>2, <2>3, <2>4 DEF CountsConserved
<1>10. CASE Post
  <2>1. /\ UNCHANGED <<first, pending, delivered, initial, eventBuffer, events, pc>>
        /\ \E e \in Event : posted' = [posted EXCEPT ![e] = @ + 1]
    BY <1>10 DEF Post, objectVars, threadVars, historyVars
  <2>2. \A e \in Event : posted[e] \in Nat /\ posted'[e] \in Nat /\ posted[e] <= posted'[e]
    BY <2>1 DEF TypeOK, Counts
  <2>3. \A e \in Event : eventBuffer[e] \in Nat /\ events[e] \in Nat
    BY DEF TypeOK, Counts
  <2>4. Baseline'
    <3>1. \A e \in Event : eventBuffer[e] <= posted'[e] + 1
      BY <2>2, <2>3 DEF Baseline
    <3>2. \A e \in Event : events[e] <= posted[e] + 1 => events[e] <= posted'[e] + 1
      BY <2>2, <2>3
    <3> QED BY <2>1, <3>1, <3>2 DEF Baseline
  <2> QED BY <2>1, <2>4 DEF CountsConserved
<1>11. CASE DisconnectAttachment \/ StopAgain \/ ConstructionFailed \/ Aborted
            \/ UNCHANGED vars
  <2>1. UNCHANGED <<first, pending, delivered, initial, eventBuffer, events, posted, pc>>
    BY <1>11 DEF DisconnectAttachment, StopAgain, ConstructionFailed, Aborted, vars, objectVars, threadVars,
       serverVars, historyVars
  <2> QED BY <2>1, CountsFrame
<1> QED
  BY <1>1, <1>2, <1>3, <1>4, <1>5, <1>6, <1>7, <1>8, <1>9, <1>10, <1>11, <1>12
     DEF Next, OwnerStep, CallbackStep, DispatchStep

(* Every occurrence counted since the first callback is delivered or still *)
(* queued, once: for any number of events, posts and registrations.        *)
THEOREM CountsConservedHolds == Spec => []CountsConserved
<1>1. Init => Baseline /\ CountsConserved
  <2> SUFFICES ASSUME Init PROVE Baseline /\ CountsConserved
    OBVIOUS
  <2>1. \A e \in Event : eventBuffer[e] = 0 /\ posted[e] = 0 /\ 0 <= 0 + 1
    BY DEF Init, NoCounts
  <2>2. pc["firebird"] = "idle" /\ ~first /\ pending = <<>> /\ delivered = NoCounts
    BY DEF Init, Thread
  <2> QED BY <2>1, <2>2 DEF Baseline, CountsConserved
<1>2. CountsInv /\ ELInv' /\ [Next]_vars => CountsInv'
  BY CountsStep DEF CountsInv
<1>3. Init /\ ELInv => CountsInv
  BY <1>1 DEF CountsInv
<1>4. CountsInv => CountsConserved
  BY DEF CountsInv
<1> QED BY <1>2, <1>3, <1>4, SpecELInv, PTL DEF Spec
=============================================================================

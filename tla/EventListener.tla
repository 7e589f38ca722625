---------------------------- MODULE EventListener ----------------------------
(***************************************************************************)
(* The event listener of src/fb-cpp/EventListener.{h,cpp}: three threads   *)
(* share one object.  "owner" constructs it and stops it, "firebird" is    *)
(* the client library's thread that delivers event callbacks one at a      *)
(* time, "dispatcher" runs the user's callback, which may call stop() too. *)
(* Each critical section of the object's mutex is one step; the steps      *)
(* between them are the calls made without it.                             *)
(*                                                                         *)
(* External, from how the code uses it: a registration (queEvents) fires   *)
(* once, as soon as an event's count has reached the count it was given,   *)
(* and reports every event's count plus one; so the first one fires at     *)
(* once and only fixes the baseline.  cancel() ends a registration.  One   *)
(* that goes with its attachment may be reported with an empty block.      *)
(***************************************************************************)
EXTENDS Naturals, Sequences, SequencesExt

CONSTANTS
  Event,           \* the event names
  Reg,             \* identities of registrations (IEvents)
  NoReg,           \* an empty handle
  ReleaseCancels,  \* whether releasing an uncancelled IEvents ends it
  MayDisconnect,   \* whether the attachment is disconnected under the listener
  Asserts,         \* whether the program is built with its assertions
  MaxPosts         \* bound: how often events are posted in a behaviour

ASSUME EventAssumption == IsFiniteSet(Event) /\ Event # {}
ASSUME RegAssumption == IsFiniteSet(Reg) /\ NoReg \notin Reg
ASSUME ExternalAssumption ==
  /\ ReleaseCancels \in BOOLEAN /\ MayDisconnect \in BOOLEAN
  /\ Asserts \in BOOLEAN /\ MaxPosts \in Nat

VARIABLES
  listening,    \* registered, as isListening() reports it
  running,      \* stop() has not finished
  first,        \* the first callback has been handled
  pending,      \* pendingNotifications: counts per event
  eventsHandle, \* the registration stop() will cancel
  attachedTo,   \* firebirdCallback.owner is set
  eventBuffer,  \* the baseline: the last count seen of each event
  pc,           \* where each thread is
  handle,       \* a registration each thread holds in a local variable
  events,       \* the counts the running callback was given
  regs,         \* what the server knows of each registration
  base,         \* the counts each registration was given
  posted,       \* how often each event has been posted
  connected,    \* the attachment has a handle
  initial,      \* the baseline the first callback fixed
  delivered     \* the counts handed to the user's callback so far

objectVars == <<listening, running, first, pending, eventsHandle, attachedTo,
                eventBuffer>>
threadVars == <<pc, handle, events>>
serverVars == <<regs, base, posted, connected>>
historyVars == <<initial, delivered>>
vars == <<objectVars, threadVars, serverVars, historyVars>>

Thread == {"owner", "firebird", "dispatcher"}
Counts == [Event -> Nat]
NoCounts == [e \in Event |-> 0]
EmptyBlock == NoCounts  \* no count is reported: a reported one is at least one
Plus(c, d) == [e \in Event |-> c[e] + d[e]]

RegStates == {"none", "armed", "over", "dropped"}

PC ==
  {"construct", "assign", "start", "failed", "idle", "stopped",
   "cancel", "cancelling", "detach", "notifyAll", "join", "clear", "reset",
   "called", "enter", "notify", "requeue", "lost", "install",
   "none", "check", "wait", "callback", "ended", "aborted"}

TypeOK ==
  /\ listening \in BOOLEAN /\ running \in BOOLEAN /\ first \in BOOLEAN
  /\ pending \in Seq(Counts)
  /\ eventsHandle \in Reg \cup {NoReg}
  /\ attachedTo \in BOOLEAN
  /\ eventBuffer \in Counts
  /\ pc \in [Thread -> PC]
  /\ handle \in [Thread -> Reg \cup {NoReg}]
  /\ events \in Counts
  /\ regs \in [Reg -> RegStates]
  /\ base \in [Reg -> Counts]
  /\ posted \in Counts
  /\ connected \in BOOLEAN
  /\ initial \in Counts /\ delivered \in Counts

Init ==
  /\ listening = FALSE /\ running = FALSE /\ first = FALSE
  /\ pending = <<>>
  /\ eventsHandle = NoReg
  /\ attachedTo = TRUE
  /\ eventBuffer = NoCounts
  /\ pc = [t \in Thread |-> IF t = "owner" THEN "construct"
                            ELSE IF t = "firebird" THEN "idle" ELSE "none"]
  /\ handle = [t \in Thread |-> NoReg]
  /\ events = NoCounts
  /\ regs = [r \in Reg |-> "none"]
  /\ base = [r \in Reg |-> NoCounts]
  /\ posted \in [Event -> {0}]
  /\ connected = TRUE
  /\ initial = NoCounts /\ delivered = NoCounts

-----------------------------------------------------------------------------
Goto(t, from, to) == pc[t] = from /\ pc' = [pc EXCEPT ![t] = to]

(* condition.notify_one() and notify_all(): only the dispatcher waits. *)
Woken(p) ==
  [p EXCEPT !["dispatcher"] = IF @ = "wait" THEN "check" ELSE @]

(* queEvents: the attachment registers the callback with the counts in     *)
(* the event buffer.                                                       *)
QueEvents(t) ==
  /\ connected
  /\ \E r \in Reg :
       /\ regs[r] = "none"
       /\ regs' = [regs EXCEPT ![r] = "armed"]
       /\ base' = [base EXCEPT ![r] = eventBuffer]
       /\ handle' = [handle EXCEPT ![t] = r]

(* The last reference to registration r is released. *)
AfterRelease(s, r) ==
  IF r = NoReg \/ (s[r] = "armed" /\ ~ReleaseCancels) THEN s
  ELSE [s EXCEPT ![r] = "none"]

-----------------------------------------------------------------------------
(* The constructor sets the flags and registers, without the mutex. *)
Construct ==
  /\ Goto("owner", "construct", "assign")
  /\ listening' = TRUE /\ running' = TRUE
  /\ QueEvents("owner")
  /\ UNCHANGED <<first, pending, eventsHandle, attachedTo, eventBuffer,
                 events, posted, connected, historyVars>>

(* queEvents throws, and the constructor with it. *)
ConstructFails ==
  /\ Goto("owner", "construct", "failed")
  /\ UNCHANGED <<objectVars, handle, events, serverVars, historyVars>>

(* eventsHandle.reset(...): releases what the first callback has put there *)
(* if it was faster.                                                       *)
Assign ==
  /\ Goto("owner", "assign", "start")
  /\ regs' = AfterRelease(regs, eventsHandle)
  /\ eventsHandle' = handle["owner"]
  /\ handle' = [handle EXCEPT !["owner"] = NoReg]
  /\ UNCHANGED <<listening, running, first, pending, attachedTo, eventBuffer,
                 events, base, posted, connected, historyVars>>

StartDispatcher ==
  /\ pc["owner"] = "start"
  /\ pc' = [pc EXCEPT !["owner"] = "idle", !["dispatcher"] = "check"]
  /\ UNCHANGED <<objectVars, handle, events, serverVars, historyVars>>

-----------------------------------------------------------------------------
(* stop(), called by the owner or from the user's callback. *)
Stop(t, from) ==
  /\ running
  /\ Goto(t, from, "cancel")
  /\ listening' = FALSE
  /\ UNCHANGED <<running, first, pending, eventsHandle, attachedTo,
                 eventBuffer, handle, events, serverVars, historyVars>>

(* stop() again: there is nothing to stop. *)
StopAgain ==
  /\ pc["owner"] = "stopped" /\ ~running
  /\ UNCHANGED vars

(* cancelEventsHandle: a copy of the handle, taken under the mutex. *)
CopyHandle(t) ==
  /\ handle' = [handle EXCEPT ![t] = eventsHandle]
  /\ \/ eventsHandle = NoReg /\ Goto(t, "cancel", "detach")
     \/ eventsHandle # NoReg /\ Goto(t, "cancel", "cancelling")
  /\ UNCHANGED <<objectVars, events, serverVars, historyVars>>

(* handle->cancel() ends the registration, or throws, which is swallowed.  *)
Cancel(t) ==
  /\ Goto(t, "cancelling", "detach")
  /\ \/ regs' = [regs EXCEPT ![handle[t]] = "over"]
     \/ UNCHANGED regs
  /\ handle' = [handle EXCEPT ![t] = NoReg]
  /\ UNCHANGED <<objectVars, events, base, posted, connected, historyVars>>

Detach(t) ==
  /\ Goto(t, "detach", "notifyAll")
  /\ attachedTo' = FALSE
  /\ UNCHANGED <<listening, running, first, pending, eventsHandle,
                 eventBuffer, handle, events, serverVars, historyVars>>

(* Mistaken: stop() does not wake the dispatcher it is about to join. *)
NotifyNobody(t) ==
  /\ pc[t] = "notifyAll"
  /\ pc' = [pc EXCEPT ![t] = "join"]
  /\ UNCHANGED <<objectVars, handle, events, serverVars, historyVars>>

NotifyAll(t) ==
  /\ pc[t] = "notifyAll"
  /\ pc' = Woken([pc EXCEPT ![t] = "join"])
  /\ UNCHANGED <<objectVars, handle, events, serverVars, historyVars>>

(* dispatcher.join() by the owner, once the dispatcher has ended. *)
JoinDispatcher(t) ==
  /\ t = "owner" /\ pc["dispatcher"] = "ended" /\ Goto(t, "join", "clear")
  /\ UNCHANGED <<objectVars, handle, events, serverVars, historyVars>>

(* A thread that joins itself gets an exception, and its stop() is left    *)
(* unfinished.  The user's callback catches it, or else dispatchLoop does, *)
(* which goes on in a build without assertions                             *)
JoinThrows(t) ==
  /\ t = "dispatcher" /\ Goto(t, "join", "check")
  /\ UNCHANGED <<objectVars, handle, events, serverVars, historyVars>>

(* and aborts the process in a build with them: assert(false).  The server *)
(* forgets what the process had registered.                                *)
JoinAborts(t) ==
  /\ Asserts /\ t = "dispatcher" /\ pc[t] = "join"
  /\ pc' = [x \in Thread |-> "aborted"]
  /\ regs' = [r \in Reg |-> "none"]
  /\ connected' = FALSE
  /\ UNCHANGED <<objectVars, handle, events, base, posted, historyVars>>

Join(t) == JoinDispatcher(t) \/ JoinThrows(t) \/ JoinAborts(t)

Clear ==
  /\ Goto("owner", "clear", "reset")
  /\ pending' = <<>> /\ running' = FALSE
  /\ UNCHANGED <<listening, first, eventsHandle, attachedTo, eventBuffer,
                 handle, events, serverVars, historyVars>>

Reset ==
  /\ Goto("owner", "reset", "stopped")
  /\ regs' = AfterRelease(regs, eventsHandle)
  /\ eventsHandle' = NoReg
  /\ UNCHANGED <<listening, running, first, pending, attachedTo, eventBuffer,
                 handle, events, base, posted, connected, historyVars>>

StopStep(t) ==
  CopyHandle(t) \/ Cancel(t) \/ Detach(t) \/ NotifyAll(t) \/ Join(t)

-----------------------------------------------------------------------------
(* handleEvent, on Firebird's thread. *)

(* A registration whose counts have been reached calls back, once. *)
Fire ==
  /\ Goto("firebird", "idle", "called")
  /\ \E r \in Reg :
       /\ regs[r] = "armed" /\ \E e \in Event : base[r][e] <= posted[e]
       /\ regs' = [regs EXCEPT ![r] = "over"]
  /\ events' = [e \in Event |-> posted[e] + 1]
  /\ UNCHANGED <<objectVars, handle, base, posted, connected, historyVars>>

(* A registration that went with its attachment is reported, perhaps: with *)
(* an empty block.                                                         *)
FireEmpty ==
  /\ Goto("firebird", "idle", "called")
  /\ \E r \in Reg :
       regs[r] = "dropped" /\ regs' = [regs EXCEPT ![r] = "over"]
  /\ events' = EmptyBlock
  /\ UNCHANGED <<objectVars, handle, base, posted, connected, historyVars>>

(* if (owner) owner->handleEvent(...), without synchronisation. *)
CheckOwner ==
  /\ \/ attachedTo /\ Goto("firebird", "called", "enter")
     \/ ~attachedTo /\ Goto("firebird", "called", "idle")
  /\ UNCHANGED <<objectVars, handle, events, serverVars, historyVars>>

(* Mistaken: the operands of the subtraction are swapped. *)
RawCountsSwapped ==
  [e \in Event |->
     IF events[e] >= eventBuffer[e] THEN eventBuffer[e] - events[e] ELSE 0]

(* decodeEventCounts: how much each count grew, never below zero. *)
RawCounts ==
  [e \in Event |->
     IF events[e] >= eventBuffer[e] THEN events[e] - eventBuffer[e] ELSE 0]

(* Mistaken: the baseline stays what the first callback made it. *)
DecodeKeepsBaseline ==
  /\ listening /\ events # EmptyBlock
  /\ eventBuffer' = IF first THEN eventBuffer ELSE events
  /\ first' = TRUE
  /\ \/ /\ first /\ RawCounts # NoCounts
        /\ pending' = Append(pending, RawCounts)
        /\ Goto("firebird", "enter", "notify")
        /\ UNCHANGED initial
     \/ /\ first /\ RawCounts = NoCounts
        /\ Goto("firebird", "enter", "requeue")
        /\ UNCHANGED <<pending, initial>>
     \/ /\ ~first
        /\ initial' = events
        /\ Goto("firebird", "enter", "requeue")
        /\ UNCHANGED pending
  /\ UNCHANGED <<listening, running, eventsHandle, attachedTo, handle, events,
                 serverVars, delivered>>

(* The first critical section: counts, baseline, notification. *)
DecodeEvent ==
  /\ listening /\ events # EmptyBlock
  /\ eventBuffer' = events
  /\ first' = TRUE
  /\ \/ /\ first /\ RawCounts # NoCounts
        /\ pending' = Append(pending, RawCounts)
        /\ Goto("firebird", "enter", "notify")
        /\ UNCHANGED initial
     \/ /\ first /\ RawCounts = NoCounts
        /\ Goto("firebird", "enter", "requeue")
        /\ UNCHANGED <<pending, initial>>
     \/ /\ ~first
        /\ initial' = events
        /\ Goto("firebird", "enter", "requeue")
        /\ UNCHANGED pending
  /\ UNCHANGED <<listening, running, eventsHandle, attachedTo, handle, events,
                 serverVars, delivered>>

(* Nothing is decoded and nothing renewed after stop(), nor for an empty   *)
(* block: the object goes on "listening" then, to nothing.                 *)
IgnoreEvent ==
  /\ ~listening \/ events = EmptyBlock
  /\ Goto("firebird", "enter", "idle")
  /\ UNCHANGED <<objectVars, handle, events, serverVars, historyVars>>

(* Mistaken: a queued notification wakes nobody. *)
NotifyNoDispatcher ==
  /\ Goto("firebird", "notify", "requeue")
  /\ UNCHANGED <<objectVars, handle, events, serverVars, historyVars>>

(* condition.notify_one(), after the unlock. *)
NotifyDispatcher ==
  /\ pc["firebird"] = "notify"
  /\ pc' = Woken([pc EXCEPT !["firebird"] = "requeue"])
  /\ UNCHANGED <<objectVars, handle, events, serverVars, historyVars>>

(* A new registration with the new baseline, without the mutex. *)
Requeue ==
  /\ Goto("firebird", "requeue", "install")
  /\ QueEvents("firebird")
  /\ UNCHANGED <<objectVars, events, posted, connected, historyVars>>

(* The attachment is disconnected, or queEvents throws. *)
RequeueFails ==
  /\ Goto("firebird", "requeue", "lost")
  /\ UNCHANGED <<objectVars, handle, events, serverVars, historyVars>>

(* Mistaken: the flag is cleared and nobody is told. *)
StopListeningSilently ==
  /\ Goto("firebird", "lost", "idle")
  /\ listening' = FALSE
  /\ UNCHANGED <<running, first, pending, eventsHandle, attachedTo,
                 eventBuffer, handle, events, serverVars, historyVars>>

StopListening ==
  /\ pc["firebird"] = "lost"
  /\ LET back == [pc EXCEPT !["firebird"] = "idle"] IN
       pc' = IF listening THEN Woken(back) ELSE back
  /\ listening' = FALSE
  /\ UNCHANGED <<running, first, pending, eventsHandle, attachedTo,
                 eventBuffer, handle, events, serverVars, historyVars>>

(* Mistaken: installs the new handle without looking at `listening'. *)
InstallAlways ==
  /\ Goto("firebird", "install", "idle")
  /\ handle' = [handle EXCEPT !["firebird"] = NoReg]
  /\ eventsHandle' = handle["firebird"]
  /\ regs' = AfterRelease(regs, eventsHandle)
  /\ UNCHANGED <<listening, running, first, pending, attachedTo, eventBuffer,
                 events, base, posted, connected, historyVars>>

(* The second critical section: the new handle takes the place of the old  *)
(* one, or is released if stop() has come in between.                      *)
Install ==
  /\ Goto("firebird", "install", "idle")
  /\ handle' = [handle EXCEPT !["firebird"] = NoReg]
  /\ \/ /\ listening
        /\ eventsHandle' = handle["firebird"]
        /\ regs' = AfterRelease(regs, eventsHandle)
     \/ /\ ~listening
        /\ regs' = AfterRelease(regs, handle["firebird"])
        /\ UNCHANGED eventsHandle
  /\ UNCHANGED <<listening, running, first, pending, attachedTo, eventBuffer,
                 events, base, posted, connected, historyVars>>

CallbackStep ==
  \/ CheckOwner \/ DecodeEvent \/ IgnoreEvent \/ NotifyDispatcher
  \/ Requeue \/ RequeueFails \/ StopListening \/ Install

-----------------------------------------------------------------------------
(* dispatchLoop *)
Sleep ==
  /\ pending = <<>> /\ listening
  /\ Goto("dispatcher", "check", "wait")
  /\ UNCHANGED <<objectVars, handle, events, serverVars, historyVars>>

SpuriousWakeup ==
  /\ Goto("dispatcher", "wait", "check")
  /\ UNCHANGED <<objectVars, handle, events, serverVars, historyVars>>

Dispatch ==
  /\ pending # <<>>
  /\ Goto("dispatcher", "check", "callback")
  /\ delivered' = Plus(delivered, Head(pending))
  /\ pending' = Tail(pending)
  /\ UNCHANGED <<listening, running, first, eventsHandle, attachedTo,
                 eventBuffer, handle, events, serverVars, initial>>

CallbackReturns ==
  /\ Goto("dispatcher", "callback", "check")
  /\ UNCHANGED <<objectVars, handle, events, serverVars, historyVars>>

(* Mistaken: ends with notifications still queued. *)
EndAtOnce ==
  /\ ~listening
  /\ Goto("dispatcher", "check", "ended")
  /\ UNCHANGED <<objectVars, handle, events, serverVars, historyVars>>

EndDispatcher ==
  /\ pending = <<>> /\ ~listening
  /\ Goto("dispatcher", "check", "ended")
  /\ UNCHANGED <<objectVars, handle, events, serverVars, historyVars>>

DispatchStep == Sleep \/ Dispatch \/ CallbackReturns \/ EndDispatcher

-----------------------------------------------------------------------------
Post ==
  /\ FoldFunction(+, 0, posted) < MaxPosts
  /\ \E e \in Event : posted' = [posted EXCEPT ![e] = @ + 1]
  /\ UNCHANGED <<objectVars, threadVars, regs, base, connected, historyVars>>

(* The attachment is disconnected: its registrations go with it. *)
DisconnectAttachment ==
  /\ MayDisconnect /\ connected
  /\ connected' = FALSE
  /\ regs' = [r \in Reg |-> IF regs[r] = "armed" THEN "dropped" ELSE regs[r]]
  /\ UNCHANGED <<objectVars, threadVars, base, posted, historyVars>>

ConstructionFailed == pc["owner"] = "failed" /\ UNCHANGED vars
Aborted == pc["owner"] = "aborted" /\ UNCHANGED vars

OwnerStep == Assign \/ StartDispatcher \/ StopStep("owner") \/ Clear \/ Reset

Next ==
  \/ Construct \/ ConstructFails \/ OwnerStep
  \/ Stop("owner", "idle") \/ Stop("dispatcher", "callback") \/ StopAgain
  \/ Fire \/ FireEmpty \/ CallbackStep
  \/ DispatchStep \/ StopStep("dispatcher") \/ SpuriousWakeup
  \/ Post \/ DisconnectAttachment \/ ConstructionFailed \/ Aborted

Spec == Init /\ [][Next]_vars

(* Each thread keeps running, due callbacks are made and return; nothing   *)
(* obliges anybody to post an event, to call stop() or to wake spuriously. *)
Fairness ==
  /\ WF_vars(OwnerStep)
  /\ WF_vars(Fire) /\ WF_vars(CallbackStep)
  /\ WF_vars(DispatchStep \/ StopStep("dispatcher"))

FairSpec == Spec /\ Fairness
-----------------------------------------------------------------------------
(* Every occurrence counted by a callback after the first one is reported  *)
(* to the user exactly once, or still queued: none is counted twice, none  *)
(* dropped, whenever stop() or a failed registration comes.                *)
CountsConserved ==
  first => Plus(initial, FoldLeft(Plus, delivered, pending)) = eventBuffer

(* The dispatcher leaves only when nothing is queued and nothing can be    *)
(* queued any more: the clear() at the end of stop() discards nothing.     *)
NothingDropped == pc["dispatcher"] = "ended" => pending = <<>> /\ ~listening

(* When stop() has returned, and the callback it may have overtaken too,   *)
(* the server knows of no registration of this listener.                   *)
AllCancelled ==
  ReleaseCancels /\ pc["owner"] = "stopped" /\ pc["firebird"] = "idle" =>
    \A r \in Reg : regs[r] # "armed"

(* A stop() from the user's callback met the assertion of the dispatch     *)
(* loop: no process is left.  Never in a build without assertions.         *)
ProcessAborted == pc["dispatcher"] = "aborted"

(* stop() returns, also when the user's callback has called it before or   *)
(* calls it at the same time, unless that callback's exception aborts the  *)
(* process.                                                                *)
StopReturns ==
  pc["owner"] = "cancel" ~> pc["owner"] = "stopped" \/ ProcessAborted

(* Whatever is queued reaches the user's callback, before or during stop(),*)
(* unless the process is aborted.                                          *)
NotificationsDelivered == pending # <<>> ~> pending = <<>> \/ ProcessAborted

(* Once nothing is listened to, the dispatcher thread ends, whoever        *)
(* cleared the flag: by itself, or with the process.                       *)
DispatcherEnds ==
  ~listening /\ pc["dispatcher"] # "none" ~>
    pc["dispatcher"] = "ended" \/ ProcessAborted

(* Where each thread can be, relative to the others and to the flags. *)
OwnerPC ==
  {"construct", "assign", "start", "failed", "idle", "cancel", "cancelling",
   "detach", "notifyAll", "join", "clear", "reset", "stopped", "aborted"}
FirebirdPC ==
  {"idle", "called", "enter", "notify", "requeue", "lost", "install",
   "aborted"}
DispatcherPC ==
  {"none", "check", "wait", "callback", "cancel", "cancelling", "detach",
   "notifyAll", "join", "ended", "aborted"}
Stopping == {"cancel", "cancelling", "detach", "notifyAll", "join"}
Stopped == {"clear", "reset", "stopped"}

Phases ==
  /\ pc["owner"] \in OwnerPC /\ pc["firebird"] \in FirebirdPC
  /\ pc["dispatcher"] \in DispatcherPC
  /\ pc["owner"] \in {"construct", "assign", "start", "failed"} <=>
       pc["dispatcher"] = "none"
  /\ pc["owner"] \in Stopping \cup Stopped => ~listening
  /\ pc["owner"] \in Stopped => pc["dispatcher"] = "ended"
  /\ pc["owner"] = "stopped" => eventsHandle = NoReg

(* Every armed registration is held by the one handle that will release it.*)
ArmedHeld ==
  ReleaseCancels => \A r \in Reg : regs[r] = "armed" =>
    \/ r = eventsHandle
    \/ pc["owner"] = "assign" /\ r = handle["owner"]
    \/ pc["firebird"] = "install" /\ r = handle["firebird"]

(* The inductive invariant behind NothingDropped and AllCancelled. *)
ELInv == TypeOK /\ Phases /\ NothingDropped /\ ArmedHeld

(* A registration is armed, or the callback it made is about to renew it.  *)
Registered == pc["firebird"] # "idle" \/ \E r \in Reg : regs[r] = "armed"

(* isListening(): "true if the listener is currently registered for event  *)
(* notifications".                                                         *)
ListeningIsRegistered == listening /\ pc["owner"] = "idle" => Registered

(* "Stops the listener and waits for any background work to finish": no    *)
(* callback is still inside handleEvent.                                   *)
StopWaits ==
  pc["owner"] = "stopped" => pc["firebird"] \in {"idle", "called"}
=============================================================================

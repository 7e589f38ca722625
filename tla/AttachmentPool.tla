--------------------------- MODULE AttachmentPool ---------------------------
(***************************************************************************)
(* The connection pool of src/fb-cpp/AttachmentPool.{h,cpp}: threads       *)
(* acquire leases of pooled connections, return them and close the pool.   *)
(*                                                                         *)
(* A step is what one thread does between two points where the code locks, *)
(* unlocks or blocks; `mutex' is the pool's std::mutex and `waiting' the   *)
(* set of threads asleep in availableCondition.  Time is abstracted to     *)
(* three facts that clocks make true in any order: a caller's acquire      *)
(* deadline has passed (`late'), an available connection has reached the   *)
(* idle timeout (`idle'), a connection has reached its lifetime (`aged').  *)
(* Connections are identities; the identity of a destroyed one is reused.  *)
(***************************************************************************)
EXTENDS Naturals, Sequences, SequencesExt

CONSTANTS
  Thread,          \* the threads that use the pool
  Conn,            \* identities of AttachmentPoolEntry objects
  NoThread,        \* the mutex is free
  NoConn,          \* a thread is working on no entry
  MinSize,         \* options.minSize
  MaxSize,         \* options.maxSize
  Validate,        \* options.validateOnAcquire
  ResetOnRelease,  \* options.sessionResetOnRelease
  IdleTimeout,     \* whether options.idleTimeout is set
  MaxLifetime,     \* whether options.maxLifetime is set
  Timeouts,        \* whether options.acquireTimeout can pass while a call runs
  MaxHeld,         \* bound: leases one thread holds before it acquires another
  MaxBreaks        \* bound: connections the server drops in a behaviour

ASSUME SizesAssumption ==
  MinSize \in Nat /\ MaxSize \in Nat /\ MaxSize >= 1 /\ MinSize <= MaxSize
ASSUME ConnAssumption == IsFiniteSet(Conn) /\ NoConn \notin Conn
ASSUME ThreadAssumption == IsFiniteSet(Thread) /\ NoThread \notin Thread
ASSUME OptionsAssumption ==
  /\ Validate \in BOOLEAN /\ ResetOnRelease \in BOOLEAN
  /\ IdleTimeout \in BOOLEAN /\ MaxLifetime \in BOOLEAN
  /\ Timeouts \in BOOLEAN
ASSUME BoundsAssumption == MaxHeld \in Nat /\ MaxBreaks \in Nat

VARIABLES
  entries,    \* the entries the pool owns
  available,  \* the deque of entries ready to be leased
  inUse,      \* the counter of leased entries
  pending,    \* the counter of connections being created
  closed,     \* close() was called
  alive,      \* the destructor has not started
  mutex,      \* the thread that holds the pool's mutex
  waiting,    \* the threads blocked in availableCondition
  pc,         \* where each thread is in its call
  scan,       \* evictLocked's iterator
  entry,      \* the entry a call is working on
  dying,      \* entries a thread has taken out of the pool and must destroy
  late,       \* the deadline of the thread's acquire has passed
  held,       \* the leases (PooledAttachment objects) of each thread
  conn,       \* each connection: not existing, or what its handle is worth
  idle,       \* available entries that reached the idle timeout
  aged,       \* entries that reached the maximum lifetime
  dirty,      \* entries whose session a lease holder has used
  breaks      \* connections the server has dropped so far

poolVars == <<entries, available, inUse, pending, closed, alive>>
syncVars == <<mutex, waiting>>
callVars == <<pc, scan, entry, dying, late, held>>
connVars == <<conn, idle, aged, dirty, breaks>>
vars == <<poolVars, syncVars, callVars, connVars>>

(***************************************************************************)
(* Where a call can be.  The mutex is held exactly in Locked.              *)
(***************************************************************************)
Locked  == {"evict", "take", "closing"}
Unlocked ==
  {"idle", "evicted", "ping", "pingOk", "pingBad", "rejected", "connect",
   "connected", "refused", "wait", "release", "reset", "return", "discard",
   "notify", "returned", "drained"}
PC == Locked \cup Unlocked

(* Calls of acquire() or tryAcquire() in progress. *)
Acquiring ==
  {"evict", "evicted", "take", "ping", "pingOk", "pingBad", "rejected",
   "connect", "connected", "refused", "wait"}

(* Points of acquireImpl between ++pending and --pending. *)
Creating == {"connect", "connected", "refused"}

(* "none": no such object; "good"; "broken": the server no longer answers, *)
(* the handle is still set; "closed": the lease holder disconnected it, so *)
(* that Attachment::isValid() is false.                                    *)
ConnState == {"none", "good", "broken", "closed"}

TypeOK ==
  /\ entries \in SUBSET Conn
  /\ available \in Seq(Conn)
  /\ inUse \in Nat
  /\ pending \in Nat
  /\ closed \in BOOLEAN
  /\ alive \in BOOLEAN
  /\ mutex \in Thread \cup {NoThread}
  /\ waiting \in SUBSET Thread
  /\ pc \in [Thread -> PC]
  /\ scan \in [Thread -> Nat \ {0}]
  /\ entry \in [Thread -> Conn \cup {NoConn}]
  /\ dying \in [Thread -> SUBSET Conn]
  /\ late \in [Thread -> BOOLEAN]
  /\ held \in [Thread -> SUBSET Conn]
  /\ conn \in [Conn -> ConnState]
  /\ idle \in SUBSET Conn
  /\ aged \in SUBSET Conn
  /\ dirty \in SUBSET Conn
  /\ breaks \in 0..MaxBreaks

(***************************************************************************)
(* The constructor: MinSize connections, all available.                    *)
(***************************************************************************)
Init ==
  /\ available \in {s \in [1..MinSize -> Conn] : IsInjective(s)}
  /\ entries = ToSet(available)
  /\ conn = [c \in Conn |-> IF c \in entries THEN "good" ELSE "none"]
  /\ inUse = 0 /\ pending = 0
  /\ closed = FALSE /\ alive = TRUE
  /\ mutex = NoThread /\ waiting = {}
  /\ pc = [t \in Thread |-> "idle"]
  /\ scan = [t \in Thread |-> 1]
  /\ entry = [t \in Thread |-> NoConn]
  /\ dying = [t \in Thread |-> {}]
  /\ late = [t \in Thread |-> FALSE]
  /\ held = [t \in Thread |-> {}]
  /\ idle = {} /\ aged = {} /\ dirty = {}
  /\ breaks = 0

-----------------------------------------------------------------------------
(* Helpers.  Goto moves thread t without touching its other locals. *)
Goto(t, from, to) == pc[t] = from /\ pc' = [pc EXCEPT ![t] = to]

Lock(t) == mutex = NoThread /\ mutex' = t
Unlock(t) == mutex = t /\ mutex' = NoThread

(* acquireImpl returns: its deadline goes with it. *)
Return(t, from) == Goto(t, from, "idle") /\ late' = [late EXCEPT ![t] = FALSE]

(* One critical section that is over within the step. *)
LockUnlock == mutex = NoThread /\ UNCHANGED mutex

(* availableCondition.notify_one() *)
NotifyOne ==
  \/ waiting = {} /\ UNCHANGED waiting
  \/ \E w \in waiting : waiting' = waiting \ {w}

(* A destroyed entry leaves no trace but the server's count of breaks. *)
Forget(c) ==
  /\ conn' = [conn EXCEPT ![c] = "none"]
  /\ idle' = idle \ {c}
  /\ aged' = aged \ {c}
  /\ dirty' = dirty \ {c}

(* return PooledAttachment{*this, *entry} *)
Grant(t, c) ==
  /\ held' = [held EXCEPT ![t] = @ \cup {c}]
  /\ dirty' = dirty \cup {c}

-----------------------------------------------------------------------------
(* acquire() and tryAcquire() differ only in how a failure is reported. *)

(* acquireImpl on a closed pool: throws, or returns nullopt. *)
AcquireRefused(t) ==
  /\ alive /\ pc[t] = "idle" /\ closed
  /\ LockUnlock
  /\ UNCHANGED vars

(* acquireImpl: the lock, the check of `closed', the deadline. *)
Acquire(t) ==
  /\ alive /\ ~closed
  /\ Cardinality(held[t]) < MaxHeld
  /\ Goto(t, "idle", "evict")
  /\ Lock(t)
  /\ UNCHANGED <<poolVars, waiting, scan, entry, dying, late, held, connVars>>

(* Mistaken: evicts idle entries down to below the minimum. *)
ShouldEvictBelowMin(c) ==
  \/ MaxLifetime /\ c \in aged
  \/ IdleTimeout /\ Cardinality(entries) >= MinSize /\ c \in idle

(* evictLocked's verdict on one available entry. *)
ShouldEvict(c) ==
  \/ MaxLifetime /\ c \in aged
  \/ IdleTimeout /\ Cardinality(entries) > MinSize /\ c \in idle

(* evictLocked, one iteration: the entry moves to toDestroy, or is kept. *)
EvictScan(t) ==
  /\ pc[t] = "evict" /\ scan[t] <= Len(available)
  /\ LET c == available[scan[t]] IN
       \/ /\ ShouldEvict(c)
          /\ available' = RemoveAt(available, scan[t])
          /\ entries' = entries \ {c}
          /\ dying' = [dying EXCEPT ![t] = @ \cup {c}]
          /\ UNCHANGED scan
       \/ /\ ~ShouldEvict(c)
          /\ scan' = [scan EXCEPT ![t] = @ + 1]
          /\ UNCHANGED <<entries, available, dying>>
  /\ UNCHANGED <<inUse, pending, closed, alive, syncVars, pc, entry, late,
                 held, connVars>>

(* evictLocked, end of the loop: unlock only if there is work to do. *)
EvictEnd(t) ==
  /\ scan[t] > Len(available)
  /\ scan' = [scan EXCEPT ![t] = 1]
  /\ \/ dying[t] = {} /\ Goto(t, "evict", "take") /\ UNCHANGED mutex
     \/ dying[t] # {} /\ Goto(t, "evict", "evicted") /\ Unlock(t)
  /\ UNCHANGED <<poolVars, waiting, entry, dying, late, held, connVars>>

(* The destructor of one entry: the connection is detached, or dropped if  *)
(* the server does not answer.  Always outside the lock.                   *)
Disconnect(t) ==
  /\ pc[t] \in {"evicted", "rejected", "returned", "drained"}
  /\ \E c \in dying[t] :
       /\ dying' = [dying EXCEPT ![t] = @ \ {c}]
       /\ Forget(c)
  /\ UNCHANGED <<poolVars, syncVars, pc, scan, entry, late, held, breaks>>

(* evictLocked: toDestroy is empty, lock again and go on. *)
EvictRelock(t) ==
  /\ dying[t] = {} /\ Goto(t, "evicted", "take") /\ Lock(t)
  /\ UNCHANGED <<poolVars, waiting, scan, entry, dying, late, held, connVars>>

(* Mistaken: leases the first available entry without taking it out. *)
TakeWithoutPop(t) ==
  /\ pc[t] = "take" /\ available # <<>>
  /\ inUse' = inUse + 1
  /\ idle' = idle \ {Head(available)}
  /\ Unlock(t)
  /\ \/ /\ Validate
        /\ Goto(t, "take", "ping")
        /\ entry' = [entry EXCEPT ![t] = Head(available)]
        /\ UNCHANGED <<late, held, dirty>>
     \/ /\ ~Validate
        /\ Return(t, "take")
        /\ Grant(t, Head(available))
        /\ UNCHANGED entry
  /\ UNCHANGED <<entries, available, pending, closed, alive, waiting, scan,
                 dying, conn, aged, breaks>>

(* acquireImpl: the first available entry, leased at once or after a ping. *)
TakeAvailable(t) ==
  /\ pc[t] = "take" /\ available # <<>>
  /\ available' = Tail(available)
  /\ inUse' = inUse + 1
  /\ idle' = idle \ {Head(available)}
  /\ Unlock(t)
  /\ \/ /\ Validate
        /\ Goto(t, "take", "ping")
        /\ entry' = [entry EXCEPT ![t] = Head(available)]
        /\ UNCHANGED <<late, held, dirty>>
     \/ /\ ~Validate
        /\ Return(t, "take")
        /\ Grant(t, Head(available))
        /\ UNCHANGED entry
  /\ UNCHANGED <<entries, pending, closed, alive, waiting, scan, dying, conn,
                 aged, breaks>>

(* entry->attachment->ping(), outside the lock. *)
Ping(t) ==
  /\ \/ Goto(t, "ping", "pingOk") /\ conn[entry[t]] = "good"
     \/ Goto(t, "ping", "pingBad") /\ conn[entry[t]] # "good"
  /\ UNCHANGED <<poolVars, syncVars, scan, entry, dying, late, held, connVars>>

(* The ping succeeded: the lease is returned. *)
PingAccept(t) ==
  /\ Return(t, "pingOk") /\ LockUnlock
  /\ Grant(t, entry[t])
  /\ entry' = [entry EXCEPT ![t] = NoConn]
  /\ UNCHANGED <<poolVars, waiting, scan, dying, conn, idle, aged, breaks>>

(* Mistaken: the entry that failed its ping still counts as in use. *)
PingRejectStillInUse(t) ==
  /\ Goto(t, "pingBad", "rejected") /\ LockUnlock
  /\ entries' = entries \ {entry[t]}
  /\ dying' = [dying EXCEPT ![t] = {entry[t]}]
  /\ entry' = [entry EXCEPT ![t] = NoConn]
  /\ UNCHANGED <<available, inUse, pending, closed, alive, waiting, scan,
                 late, held, connVars>>

(* The ping failed: the entry is extracted, the lock released to destroy it. *)
PingReject(t) ==
  /\ Goto(t, "pingBad", "rejected") /\ LockUnlock
  /\ inUse' = inUse - 1
  /\ entries' = entries \ {entry[t]}
  /\ dying' = [dying EXCEPT ![t] = {entry[t]}]
  /\ entry' = [entry EXCEPT ![t] = NoConn]
  /\ UNCHANGED <<available, pending, closed, alive, waiting, scan, late, held,
                 connVars>>

(* continue: the loop starts again with evictLocked. *)
PingRelock(t) ==
  /\ dying[t] = {} /\ Goto(t, "rejected", "evict") /\ Lock(t)
  /\ UNCHANGED <<poolVars, waiting, scan, entry, dying, late, held, connVars>>

(* Mistaken: counts only what exists; or lets one connection too many in. *)
HasCapacityUnreserved == Cardinality(entries) < MaxSize
HasCapacityOffByOne == Cardinality(entries) + pending <= MaxSize

(* Nothing available but capacity left: reserve it and unlock. *)
HasCapacity == Cardinality(entries) + pending < MaxSize

Reserve(t) ==
  /\ available = <<>> /\ HasCapacity
  /\ Goto(t, "take", "connect")
  /\ pending' = pending + 1
  /\ Unlock(t)
  /\ UNCHANGED <<entries, available, inUse, closed, alive, waiting, scan,
                 entry, dying, late, held, connVars>>

(* The new Attachment attaches to the database, or its constructor throws. *)
Connect(t) ==
  /\ \/ \E c \in Conn :
          /\ conn[c] = "none"
          /\ conn' = [conn EXCEPT ![c] = "good"]
          /\ entry' = [entry EXCEPT ![t] = c]
          /\ Goto(t, "connect", "connected")
     \/ Goto(t, "connect", "refused") /\ UNCHANGED <<conn, entry>>
  /\ UNCHANGED <<poolVars, syncVars, scan, dying, late, held, idle, aged,
                 dirty, breaks>>

(* Mistaken: the new entry is not counted as in use. *)
AddEntryUncounted(t) ==
  /\ Return(t, "connected") /\ LockUnlock
  /\ pending' = pending - 1
  /\ entries' = entries \cup {entry[t]}
  /\ Grant(t, entry[t])
  /\ entry' = [entry EXCEPT ![t] = NoConn]
  /\ UNCHANGED <<available, inUse, closed, alive, waiting, scan, dying, conn,
                 idle, aged, breaks>>

(* The new entry joins the pool, already leased. *)
AddEntry(t) ==
  /\ Return(t, "connected") /\ LockUnlock
  /\ pending' = pending - 1
  /\ entries' = entries \cup {entry[t]}
  /\ inUse' = inUse + 1
  /\ Grant(t, entry[t])
  /\ entry' = [entry EXCEPT ![t] = NoConn]
  /\ UNCHANGED <<available, closed, alive, waiting, scan, dying, conn, idle,
                 aged, breaks>>

(* Mistaken: the freed capacity is announced to nobody. *)
ConnectFailedSilently(t) ==
  /\ Return(t, "refused") /\ LockUnlock
  /\ pending' = pending - 1
  /\ UNCHANGED <<entries, available, inUse, closed, alive, waiting, scan,
                 entry, dying, held, connVars>>

(* The constructor threw: give the reservation back, wake another waiter. *)
ConnectFailed(t) ==
  /\ Return(t, "refused") /\ LockUnlock
  /\ pending' = pending - 1
  /\ NotifyOne
  /\ UNCHANGED <<entries, available, inUse, closed, alive, scan, entry, dying,
                 held, connVars>>

Exhausted == available = <<>> /\ ~HasCapacity

(* remaining <= 0: the acquire fails without waiting. *)
GiveUp(t) ==
  /\ Exhausted /\ late[t]
  /\ Return(t, "take") /\ Unlock(t)
  /\ UNCHANGED <<poolVars, waiting, scan, entry, dying, held, connVars>>

(* wait_for: unlock and sleep, in one step. *)
Wait(t) ==
  /\ Exhausted /\ ~late[t]
  /\ Goto(t, "take", "wait") /\ Unlock(t)
  /\ waiting' = waiting \cup {t}
  /\ UNCHANGED <<poolVars, scan, entry, dying, late, held, connVars>>

(* wait_for returns no_timeout, after a notification or spuriously. *)
WakeUp(t) ==
  /\ Goto(t, "wait", "evict") /\ Lock(t)
  /\ waiting' = waiting \ {t}
  /\ UNCHANGED <<poolVars, scan, entry, dying, late, held, connVars>>

(* Mistaken: starts over with a new deadline. *)
TimeOutStartsOver(t) ==
  /\ late[t]
  /\ Goto(t, "wait", "evict") /\ Lock(t)
  /\ late' = [late EXCEPT ![t] = FALSE]
  /\ waiting' = waiting \ {t}
  /\ UNCHANGED <<poolVars, scan, entry, dying, held, connVars>>

(* wait_for returns timeout, because the clock says so once the lock is    *)
(* taken again: also to a thread that was notified.                        *)
TimeOut(t) ==
  /\ late[t]
  /\ Return(t, "wait") /\ LockUnlock
  /\ waiting' = waiting \ {t}
  /\ UNCHANGED <<poolVars, scan, entry, dying, held, connVars>>

-----------------------------------------------------------------------------
(* PooledAttachment::release(), also run by its destructor and its move    *)
(* assignment: the lease forgets the entry before the pool sees it.        *)
Release(t) ==
  /\ \E c \in held[t] :
       /\ held' = [held EXCEPT ![t] = @ \ {c}]
       /\ entry' = [entry EXCEPT ![t] = c]
  /\ Goto(t, "idle", "release")
  /\ UNCHANGED <<poolVars, syncVars, scan, dying, late, connVars>>

(* AttachmentPool::release() reads `closed' without the lock: a thread     *)
(* that races with close() may see either value.                           *)
SeesClosed == IF closed THEN BOOLEAN ELSE {FALSE}

ReleaseCheck(t) ==
  /\ pc[t] = "release"
  /\ \E seen \in SeesClosed :
       LET reset == ~seen /\ ResetOnRelease /\ conn[entry[t]] # "closed" IN
         \/ reset /\ Goto(t, "release", "reset")
         \/ ~reset /\ Goto(t, "release", "return")
  /\ UNCHANGED <<poolVars, syncVars, scan, entry, dying, late, held, connVars>>

(* ALTER SESSION RESET, which the server may refuse. *)
ResetSession(t) ==
  /\ \/ /\ Goto(t, "reset", "return")
        /\ conn[entry[t]] = "good"
        /\ dirty' = dirty \ {entry[t]}
     \/ /\ Goto(t, "reset", "discard")
        /\ UNCHANGED dirty
  /\ UNCHANGED <<poolVars, syncVars, scan, entry, dying, late, held, conn,
                 idle, aged, breaks>>

(* Mistaken: one of the three reasons to discard an entry is forgotten. *)
DiscardUnlessClosed(t) == conn[entry[t]] = "closed" \/ pc[t] = "discard"
DiscardUnlessInvalid(t) == closed \/ pc[t] = "discard"
DiscardUnlessDirty(t) == closed \/ conn[entry[t]] = "closed"

(* release(): whether the returned entry is discarded. *)
MustDiscard(t) == closed \/ conn[entry[t]] = "closed" \/ pc[t] = "discard"

(* release(): the critical section. *)
ReleaseLocked(t) ==
  /\ pc[t] \in {"return", "discard"}
  /\ pc' = [pc EXCEPT ![t] = "notify"]
  /\ LockUnlock
  /\ inUse' = inUse - 1
  /\ \/ /\ MustDiscard(t)
        /\ entries' = entries \ {entry[t]}
        /\ dying' = [dying EXCEPT ![t] = {entry[t]}]
        /\ UNCHANGED available
     \/ /\ ~MustDiscard(t)
        /\ available' = Append(available, entry[t])
        /\ UNCHANGED <<entries, dying>>
  /\ entry' = [entry EXCEPT ![t] = NoConn]
  /\ UNCHANGED <<pending, closed, alive, waiting, scan, late, held, connVars>>

(* notify_one() after the unlock. *)
ReleaseNotify(t) ==
  /\ Goto(t, "notify", "returned")
  /\ NotifyOne
  /\ UNCHANGED <<poolVars, mutex, scan, entry, dying, late, held, connVars>>

(* toDestroy has been destroyed: release() returns. *)
ReleaseEnd(t) ==
  /\ dying[t] = {} /\ Goto(t, "returned", "idle")
  /\ UNCHANGED <<poolVars, syncVars, scan, entry, dying, late, held, connVars>>

-----------------------------------------------------------------------------
(* close(): marks the pool, then empties it one connection at a time. *)
Close(t) ==
  /\ alive
  /\ Goto(t, "idle", "closing") /\ Lock(t)
  /\ closed' = TRUE
  /\ UNCHANGED <<entries, available, inUse, pending, alive, waiting, scan,
                 entry, dying, late, held, connVars>>

(* The destructor, which the class allows once every lease is returned and *)
(* no call is in progress: close().                                        *)
Destroy(t) ==
  /\ alive
  /\ \A u \in Thread : pc[u] = "idle" /\ held[u] = {}
  /\ alive' = FALSE
  /\ Goto(t, "idle", "closing") /\ Lock(t)
  /\ closed' = TRUE
  /\ UNCHANGED <<entries, available, inUse, pending, waiting, scan, entry,
                 dying, late, held, connVars>>

CloseOne(t) ==
  /\ available # <<>>
  /\ Goto(t, "closing", "drained") /\ Unlock(t)
  /\ available' = Tail(available)
  /\ entries' = entries \ {Head(available)}
  /\ dying' = [dying EXCEPT ![t] = {Head(available)}]
  /\ UNCHANGED <<inUse, pending, closed, alive, waiting, scan, entry, late,
                 held, connVars>>

CloseRelock(t) ==
  /\ dying[t] = {} /\ Goto(t, "drained", "closing") /\ Lock(t)
  /\ UNCHANGED <<poolVars, waiting, scan, entry, dying, late, held, connVars>>

CloseEnd(t) ==
  /\ available = <<>>
  /\ Goto(t, "closing", "idle") /\ Unlock(t)
  /\ UNCHANGED <<poolVars, waiting, scan, entry, dying, late, held, connVars>>

-----------------------------------------------------------------------------
(* What holders of leases, the server and the clock do. *)

(* A lease is moved to an object of another thread. *)
MoveLease(t, u) ==
  /\ pc[t] = "idle" /\ pc[u] = "idle" /\ t # u
  /\ Cardinality(held[u]) < MaxHeld
  /\ \E c \in held[t] :
       held' = [held EXCEPT ![t] = @ \ {c}, ![u] = @ \cup {c}]
  /\ UNCHANGED <<poolVars, syncVars, pc, scan, entry, dying, late, connVars>>

(* The holder calls disconnect() on the leased Attachment. *)
HolderDisconnects(t) ==
  /\ pc[t] = "idle"
  /\ \E c \in held[t] :
       /\ conn[c] = "good"
       /\ conn' = [conn EXCEPT ![c] = "closed"]
  /\ UNCHANGED <<poolVars, syncVars, callVars, idle, aged, dirty, breaks>>

(* The server drops a connection of the pool. *)
Break ==
  /\ breaks < MaxBreaks
  /\ breaks' = breaks + 1
  /\ \E c \in entries :
       conn[c] = "good" /\ conn' = [conn EXCEPT ![c] = "broken"]
  /\ UNCHANGED <<poolVars, syncVars, callVars, idle, aged, dirty>>

DeadlinePasses(t) ==
  /\ Timeouts /\ pc[t] \in Acquiring /\ ~late[t]
  /\ late' = [late EXCEPT ![t] = TRUE]
  /\ UNCHANGED <<poolVars, syncVars, pc, scan, entry, dying, held, connVars>>

IdleTimePasses ==
  /\ IdleTimeout
  /\ \E c \in ToSet(available) \ idle : idle' = idle \cup {c}
  /\ UNCHANGED <<poolVars, syncVars, callVars, conn, aged, dirty, breaks>>

LifetimePasses ==
  /\ MaxLifetime
  /\ \E c \in entries \ aged : aged' = aged \cup {c}
  /\ UNCHANGED <<poolVars, syncVars, callVars, conn, idle, dirty, breaks>>

(* The destructor has returned: nothing uses the pool any more. *)
Destroyed ==
  /\ ~alive /\ \A t \in Thread : pc[t] = "idle"
  /\ UNCHANGED vars

-----------------------------------------------------------------------------
AcquireStep(t) ==
  \/ EvictScan(t) \/ EvictEnd(t) \/ EvictRelock(t)
  \/ TakeAvailable(t) \/ Ping(t) \/ PingAccept(t) \/ PingReject(t)
  \/ PingRelock(t) \/ Reserve(t) \/ Connect(t) \/ AddEntry(t)
  \/ ConnectFailed(t) \/ GiveUp(t) \/ Wait(t) \/ TimeOut(t)

ReleaseStep(t) ==
  \/ ReleaseCheck(t) \/ ResetSession(t) \/ ReleaseLocked(t)
  \/ ReleaseNotify(t) \/ ReleaseEnd(t)

CloseStep(t) == CloseOne(t) \/ CloseRelock(t) \/ CloseEnd(t)

(* What a thread inside a call does, and goes on doing. *)
Step(t) == AcquireStep(t) \/ ReleaseStep(t) \/ CloseStep(t) \/ Disconnect(t)

Environment ==
  \/ Break \/ IdleTimePasses \/ LifetimePasses
  \/ \E t \in Thread : DeadlinePasses(t) \/ HolderDisconnects(t)
  \/ \E t, u \in Thread : MoveLease(t, u)

Next ==
  \/ \E t \in Thread :
       \/ AcquireRefused(t) \/ Acquire(t) \/ Release(t)
       \/ Close(t) \/ Destroy(t) \/ WakeUp(t) \/ Step(t)
  \/ Environment
  \/ Destroyed

Spec == Init /\ [][Next]_vars

(* Threads inside a call keep running and get the mutex in the end, a      *)
(* notified waiter wakes, the clock moves, leases are returned in the end. *)
Fairness ==
  \A t \in Thread :
    /\ SF_vars(Step(t))
    /\ SF_vars(t \notin waiting /\ WakeUp(t))
    /\ SF_vars(Release(t))
    /\ WF_vars(DeadlinePasses(t))

FairSpec == Spec /\ Fairness
-----------------------------------------------------------------------------
(* The entries thread t is answerable for: its leases, and the entry its   *)
(* call is working on unless that one is not in the pool yet.              *)
Busy(t) ==
  held[t] \cup (IF pc[t] = "connected" THEN {} ELSE {entry[t]} \ {NoConn})

AllBusy == UNION {Busy(t) : t \in Thread}

(* The promise the pool keeps, with each entry where the code has it: in   *)
(* the deque, with the thread answerable for it, or not in the pool.       *)
Place ==
  [c \in Conn |->
     IF c \in ToSet(available) THEN "available"
     ELSE IF c \in AllBusy THEN CHOOSE t \in Thread : c \in Busy(t)
     ELSE "absent"]

Promise == INSTANCE LeasePool WITH
  Limit <- MaxSize, Idle <- "available", Absent <- "absent",
  place <- Place, shut <- closed

(* Seen from outside, the pool is a LeasePool: at most getMaxSize()        *)
(* connections, each in one place, taken and given back one at a time,     *)
(* none given back to a closed pool.                                       *)
ImplementsLeasePool == Promise!LPSpec

(* Every entry is in exactly one place: once in the deque, or with exactly *)
(* one thread.  A thread that pings, resets or leases an entry works on an *)
(* object the pool still owns, and no entry waits for its destruction in   *)
(* two threads or while the pool can still hand it out.                    *)
OneOwner ==
  /\ IsInjective(available)
  /\ entries = ToSet(available) \cup AllBusy
  /\ \A t \in Thread :
       /\ Busy(t) \cap ToSet(available) = {}
       /\ entry[t] \notin held[t]
       /\ dying[t] \cap entries = {}
       /\ pc[t] = "connected" => entry[t] \notin entries
       /\ \A u \in Thread \ {t} :
            Busy(t) \cap Busy(u) = {} /\ dying[t] \cap dying[u] = {}

(* size() is availableCount() plus inUseCount() and the counters agree     *)
(* with what they count, at every moment another thread may look.          *)
Accounting ==
  /\ inUse = Cardinality(AllBusy)
  /\ pending = Cardinality({t \in Thread : pc[t] \in Creating})
  /\ Cardinality(entries) = Len(available) + inUse

(* The pool never owns, or is about to own, more than getMaxSize().        *)
Capacity == Cardinality(entries) + pending <= MaxSize

(* Once a close() has gone through, nothing is put back in the deque: not  *)
(* by a release that raced with it, not by an acquire it overtook.         *)
ClosedStaysDrained ==
  closed /\ available # <<>> =>
    \E t \in Thread : pc[t] \in {"closing", "drained"}

(* What waits in the deque can be handed out: every entry has a handle,    *)
(* as ping() asserts, and with session reset on release none is a session  *)
(* a previous holder has used, whatever close(), a failed reset and a      *)
(* holder that disconnected its attachment did meanwhile.                  *)
PooledIsUsable ==
  /\ \A c \in ToSet(available) : conn[c] \in {"good", "broken"}
  /\ ResetOnRelease => ToSet(available) \cap dirty = {}

(* Connections are never evicted below getMinSize() for being idle: a scan *)
(* that leaves fewer has removed an entry past its lifetime.               *)
IdleEvictionKeepsMin ==
  [][\A t \in Thread :
       pc[t] = "evict" /\ Cardinality(entries') < Cardinality(entries) =>
         Cardinality(entries') >= MinSize \/ entries \ entries' \subseteq aged]_vars

(* No thread sleeps while there is a connection, or the capacity for one,  *)
(* unless somebody is awake or about to be woken to use it.                *)
Awake(t) == pc[t] \in Acquiring /\ t \notin waiting
NoLostWakeup ==
  ~closed /\ waiting # {} /\ ~Exhausted =>
    \E t \in Thread : Awake(t) \/ pc[t] = "notify"

(* Every call returns: acquire() by its deadline at the latest, release()  *)
(* and close() although others go on acquiring and releasing.              *)
CallsReturn == \A t \in Thread : pc[t] # "idle" ~> pc[t] = "idle"

(* A closed pool disconnects in the end every connection it ever had, also *)
(* those leased, being created or being pinged when close() ran.           *)
ClosedPoolDrains == <>[](closed => \A c \in Conn : conn[c] = "none")

(* getAcquireTimeout(), tryAcquire(): a call times out only if no          *)
(* connection is available.                                                *)
TimesOutOnlyIfExhausted ==
  [][\A t \in Thread : TimeOut(t) => available = <<>>]_vars
-----------------------------------------------------------------------------
(* The inductive invariant behind the safety properties, conjunct by       *)
(* conjunct: what each thread's locals may be at each point of its call,   *)
(* who owns which entry, which entries exist, and what the counters count. *)

(* The mutex is held exactly inside the critical sections. *)
MutexOK == \A t \in Thread : mutex = t <=> pc[t] \in Locked

Working ==
  {"ping", "pingOk", "pingBad", "connected", "release", "reset", "return",
   "discard"}
EntryOK == \A t \in Thread : entry[t] # NoConn <=> pc[t] \in Working

DyingOK ==
  \A t \in Thread : dying[t] # {} =>
    pc[t] \in {"evict", "evicted", "rejected", "notify", "returned", "drained"}

Leased == entries \ ToSet(available)

Owners ==
  /\ IsInjective(available)
  /\ ToSet(available) \subseteq entries
  /\ \A t \in Thread : Busy(t) \subseteq Leased /\ entry[t] \notin held[t]
  /\ \A c \in Leased : \E t \in Thread : c \in Busy(t)
  /\ \A t, u \in Thread : t # u => Busy(t) \cap Busy(u) = {}

(* An entry being destroyed, or created, is known to one thread only. *)
Private(t) == dying[t] \cup (IF pc[t] = "connected" THEN {entry[t]} ELSE {})

Objects ==
  /\ \A c \in entries : conn[c] # "none"
  /\ \A t \in Thread :
       /\ Private(t) \cap entries = {}
       /\ \A c \in Private(t) : conn[c] # "none"
  /\ \A t, u \in Thread : t # u => Private(t) \cap Private(u) = {}

Counters ==
  /\ inUse = Cardinality(Leased)
  /\ pending = Cardinality({t \in Thread : pc[t] \in Creating})

IInv ==
  TypeOK /\ MutexOK /\ EntryOK /\ DyingOK /\ Owners /\ Objects /\ Counters
  /\ Capacity
=============================================================================

----------------------- MODULE AttachmentPoolProofs -------------------------
(***************************************************************************)
(* The safety properties of AttachmentPool hold for every set of threads   *)
(* and connections, every size and every combination of options: the       *)
(* inductive invariant IInv and what it implies; then what the pool        *)
(* promises its users.  What waits in the deque can be used by whoever     *)
(* takes it next and eviction keeps the minimum; no wakeup is lost as long *)
(* as no call runs into its deadline; and the pool implements LeasePool.   *)
(***************************************************************************)
EXTENDS AttachmentPool, DataLemmas

(* The sets the counters count are finite. *)
LEMMA FiniteCounts ==
  ASSUME TypeOK
  PROVE  /\ IsFiniteSet(entries) /\ Cardinality(entries) \in Nat
         /\ IsFiniteSet(Leased) /\ Cardinality(Leased) \in Nat
         /\ IsFiniteSet({t \in Thread : pc[t] \in Creating})
         /\ Cardinality({t \in Thread : pc[t] \in Creating}) \in Nat
<1>1. IsFiniteSet(entries)
  BY ConnAssumption, FS_Subset DEF TypeOK
<1>2. IsFiniteSet(Leased)
  BY <1>1, FS_Subset DEF Leased
<1>3. IsFiniteSet({t \in Thread : pc[t] \in Creating})
  BY ThreadAssumption, FS_Subset
<1>. QED BY <1>1, <1>2, <1>3, FS_CardinalityType

(* A counter that is about to be decremented is positive. *)
LEMMA PositiveCounters ==
  ASSUME IInv, NEW t \in Thread
  PROVE  /\ pc[t] \in Working /\ pc[t] # "connected" =>
              entry[t] \in Leased /\ entry[t] \in Conn /\ inUse - 1 \in Nat
         /\ pc[t] \in Creating => pending - 1 \in Nat
<1>1. ASSUME pc[t] \in Working, pc[t] # "connected"
      PROVE  entry[t] \in Leased /\ entry[t] \in Conn /\ inUse - 1 \in Nat
  <2>1. entry[t] \in Leased /\ entry[t] \in Conn
    BY <1>1 DEF IInv, TypeOK, EntryOK, Owners, Busy
  <2>2. Cardinality(Leased) # 0 /\ Cardinality(Leased) \in Nat
    BY <2>1, FiniteCounts, FS_EmptySet DEF IInv
  <2>. QED BY <2>1, <2>2 DEF IInv, Counters
<1>2. ASSUME pc[t] \in Creating PROVE pending - 1 \in Nat
  <2>. DEFINE C == {u \in Thread : pc[u] \in Creating}
  <2>1. t \in C
    BY <1>2
  <2>2. Cardinality(C) # 0 /\ Cardinality(C) \in Nat
    BY <2>1, FiniteCounts, FS_EmptySet DEF IInv
  <2>. QED BY <2>2 DEF IInv, Counters
<1>. QED BY <1>1, <1>2

(* The deque's front and the scanned element are entries of the pool. *)
LEMMA DequeFacts ==
  ASSUME IInv
  PROVE  /\ available # <<>> =>
              /\ Head(available) \in ToSet(available)
              /\ Head(available) \in Conn
              /\ Tail(available) \in Seq(Conn)
              /\ ToSet(Tail(available)) = ToSet(available) \ {Head(available)}
              /\ IsInjective(Tail(available))
         /\ \A k \in 1..Len(available) :
              /\ available[k] \in ToSet(available)
              /\ available[k] \in Conn
              /\ RemoveAt(available, k) \in Seq(Conn)
              /\ ToSet(RemoveAt(available, k))
                   = ToSet(available) \ {available[k]}
              /\ IsInjective(RemoveAt(available, k))
<1>1. available \in Seq(Conn) /\ IsInjective(available)
  BY DEF IInv, TypeOK, Owners
<1>. QED BY <1>1, TailFacts, RemoveAtFacts

(* Every step keeps the types; the counters never go below zero. *)
LEMMA TypeStep ==
  ASSUME IInv, [Next]_vars
  PROVE  TypeOK'
<1>. USE DEF TypeOK, poolVars, syncVars, callVars, connVars, Goto, Return, Lock,
         Unlock, LockUnlock, Forget, Grant, NotifyOne, PC, Locked, Unlocked,
         ConnState
<1>. TypeOK
  BY DEF IInv
<1>1. ASSUME NEW t \in Thread, AcquireRefused(t) PROVE TypeOK'
  BY <1>1 DEF AcquireRefused, vars
<1>2. ASSUME NEW t \in Thread, Acquire(t) PROVE TypeOK'
  BY <1>2 DEF Acquire, vars
<1>3. ASSUME NEW t \in Thread, EvictScan(t) PROVE TypeOK'
  <2>1. scan[t] \in 1..Len(available)
    BY <1>3, LenProperties DEF EvictScan
  <2>2. available' \in Seq(Conn)
    BY <1>3, <2>1, DequeFacts DEF EvictScan
  <2>3. entries' \in SUBSET Conn
    BY <1>3 DEF EvictScan
  <2>4. dying' \in [Thread -> SUBSET Conn]
    BY <1>3, <2>1, DequeFacts DEF EvictScan
  <2>5. scan' \in [Thread -> Nat \ {0}]
    BY <1>3 DEF EvictScan
  <2>6. UNCHANGED <<inUse, pending, closed, alive, syncVars, pc, entry, late,
                    held, connVars>>
    BY <1>3 DEF EvictScan
  <2>. QED BY <2>2, <2>3, <2>4, <2>5, <2>6
<1>4. ASSUME NEW t \in Thread, EvictEnd(t) PROVE TypeOK'
  <2>1. pc' \in [Thread -> PC]
    BY <1>4 DEF EvictEnd
  <2>2. scan' \in [Thread -> Nat \ {0}]
    BY <1>4 DEF EvictEnd
  <2>3. mutex' \in Thread \cup {NoThread}
    BY <1>4 DEF EvictEnd
  <2>4. UNCHANGED <<poolVars, waiting, entry, dying, late, held, connVars>>
    BY <1>4 DEF EvictEnd
  <2>. QED BY <2>1, <2>2, <2>3, <2>4
<1>5. ASSUME NEW t \in Thread, EvictRelock(t) PROVE TypeOK'
  BY <1>5 DEF EvictRelock, vars
<1>6. ASSUME NEW t \in Thread, TakeAvailable(t) PROVE TypeOK'
  <2>1. available' \in Seq(Conn) /\ inUse' \in Nat
    BY <1>6, DequeFacts DEF TakeAvailable
  <2>2. idle' \in SUBSET Conn
    BY <1>6 DEF TakeAvailable
  <2>3. dirty' \in SUBSET Conn
    BY <1>6, DequeFacts DEF TakeAvailable
  <2>4. pc' \in [Thread -> PC]
    BY <1>6 DEF TakeAvailable
  <2>5. mutex' \in Thread \cup {NoThread}
    BY <1>6 DEF TakeAvailable
  <2>6. entry' \in [Thread -> Conn \cup {NoConn}]
    BY <1>6, DequeFacts DEF TakeAvailable
  <2>7. held' \in [Thread -> SUBSET Conn]
    <3>1. \/ UNCHANGED held
          \/ held' = [held EXCEPT ![t] = @ \cup {Head(available)}]
      BY <1>6 DEF TakeAvailable
    <3>2. Head(available) \in Conn
      BY <1>6, DequeFacts DEF TakeAvailable
    <3>3. held \in [Thread -> SUBSET Conn]
      OBVIOUS
    <3>. HIDE DEF TypeOK
    <3>. QED BY <3>1, <3>2, <3>3
  <2>8. late' \in [Thread -> BOOLEAN]
    BY <1>6 DEF TakeAvailable
  <2>9. UNCHANGED <<entries, pending, closed, alive, waiting, scan, dying,
                    conn, aged, breaks>>
    BY <1>6 DEF TakeAvailable
  <2>. QED BY <2>1, <2>2, <2>3, <2>4, <2>5, <2>6, <2>7, <2>8, <2>9
<1>7. ASSUME NEW t \in Thread, Ping(t) PROVE TypeOK'
  BY <1>7 DEF Ping, vars
<1>8. ASSUME NEW t \in Thread, PingAccept(t) PROVE TypeOK'
  BY <1>8, PositiveCounters DEF PingAccept, Working, Creating
<1>9. ASSUME NEW t \in Thread, PingReject(t) PROVE TypeOK'
  BY <1>9, PositiveCounters DEF PingReject, Working, Creating
<1>10. ASSUME NEW t \in Thread, PingRelock(t) PROVE TypeOK'
  BY <1>10 DEF PingRelock, vars
<1>11. ASSUME NEW t \in Thread, Reserve(t) PROVE TypeOK'
  BY <1>11 DEF Reserve, vars
<1>12. ASSUME NEW t \in Thread, Connect(t) PROVE TypeOK'
  <2>1. conn' \in [Conn -> ConnState]
    BY <1>12 DEF Connect
  <2>2. entry' \in [Thread -> Conn \cup {NoConn}]
    <3>1. ASSUME NEW c \in Conn, entry' = [entry EXCEPT ![t] = c]
          PROVE  entry' \in [Thread -> Conn \cup {NoConn}]
      BY <3>1
    <3>. QED BY <1>12, <3>1 DEF Connect
  <2>3. pc' \in [Thread -> PC]
    BY <1>12 DEF Connect
  <2>4. UNCHANGED <<poolVars, syncVars, scan, dying, late, held, idle,
                    aged, dirty, breaks>>
    BY <1>12 DEF Connect
  <2>. QED BY <2>1, <2>2, <2>3, <2>4
<1>13. ASSUME NEW t \in Thread, AddEntry(t) PROVE TypeOK'
  <2>. entry[t] \in Conn
    BY <1>13 DEF AddEntry, IInv, EntryOK, Working
  <2>1. pending' \in Nat
    BY <1>13, PositiveCounters DEF AddEntry, Creating
  <2>2. entries' \in SUBSET Conn /\ inUse' \in Nat
    BY <1>13 DEF AddEntry
  <2>3. dirty' \in SUBSET Conn
    BY <1>13 DEF AddEntry
  <2>4. pc' \in [Thread -> PC]
    BY <1>13 DEF AddEntry
  <2>5. entry' \in [Thread -> Conn \cup {NoConn}]
    BY <1>13 DEF AddEntry
  <2>6. held' \in [Thread -> SUBSET Conn]
    BY <1>13 DEF AddEntry
  <2>7. late' \in [Thread -> BOOLEAN]
    BY <1>13 DEF AddEntry
  <2>8. UNCHANGED <<available, closed, alive, mutex, waiting, scan, dying,
                    conn, idle, aged, breaks>>
    BY <1>13 DEF AddEntry
  <2>. QED BY <2>1, <2>2, <2>3, <2>4, <2>5, <2>6, <2>7, <2>8
<1>14. ASSUME NEW t \in Thread, ConnectFailed(t) PROVE TypeOK'
  BY <1>14, PositiveCounters DEF ConnectFailed, Working, Creating
<1>15. ASSUME NEW t \in Thread, GiveUp(t) PROVE TypeOK'
  BY <1>15 DEF GiveUp, vars
<1>16. ASSUME NEW t \in Thread, Wait(t) PROVE TypeOK'
  BY <1>16 DEF Wait, vars
<1>17. ASSUME NEW t \in Thread, WakeUp(t) PROVE TypeOK'
  BY <1>17 DEF WakeUp, vars
<1>18. ASSUME NEW t \in Thread, TimeOut(t) PROVE TypeOK'
  BY <1>18 DEF TimeOut, vars
<1>19. ASSUME NEW t \in Thread, Release(t) PROVE TypeOK'
  BY <1>19 DEF Release, vars
<1>20. ASSUME NEW t \in Thread, ReleaseCheck(t) PROVE TypeOK'
  BY <1>20 DEF ReleaseCheck, vars
<1>21. ASSUME NEW t \in Thread, ResetSession(t) PROVE TypeOK'
  BY <1>21 DEF ResetSession, vars
<1>22. ASSUME NEW t \in Thread, ReleaseLocked(t) PROVE TypeOK'
  <2>. entry[t] \in Conn /\ inUse - 1 \in Nat
    BY <1>22, PositiveCounters DEF ReleaseLocked, Working
  <2>1. inUse' \in Nat
    BY <1>22 DEF ReleaseLocked
  <2>2. entries' \in SUBSET Conn
    BY <1>22 DEF ReleaseLocked
  <2>3. available' \in Seq(Conn)
    <3>1. UNCHANGED available \/ available' = Append(available, entry[t])
      BY <1>22 DEF ReleaseLocked
    <3>2. available \in Seq(Conn)
      OBVIOUS
    <3>. HIDE DEF TypeOK
    <3>. QED BY <3>1, <3>2, AppendProperties
  <2>4. dying' \in [Thread -> SUBSET Conn]
    <3>1. UNCHANGED dying \/ dying' = [dying EXCEPT ![t] = {entry[t]}]
      BY <1>22 DEF ReleaseLocked
    <3>2. dying \in [Thread -> SUBSET Conn]
      OBVIOUS
    <3>. HIDE DEF TypeOK
    <3>. QED BY <3>1, <3>2
  <2>5. pc' \in [Thread -> PC]
    BY <1>22 DEF ReleaseLocked
  <2>6. entry' \in [Thread -> Conn \cup {NoConn}]
    BY <1>22 DEF ReleaseLocked
  <2>7. UNCHANGED <<pending, closed, alive, mutex, waiting, scan, late, held,
                    connVars>>
    BY <1>22 DEF ReleaseLocked
  <2>. QED BY <2>1, <2>2, <2>3, <2>4, <2>5, <2>6, <2>7
<1>23. ASSUME NEW t \in Thread, ReleaseNotify(t) PROVE TypeOK'
  BY <1>23 DEF ReleaseNotify, vars
<1>24. ASSUME NEW t \in Thread, ReleaseEnd(t) PROVE TypeOK'
  BY <1>24 DEF ReleaseEnd, vars
<1>25. ASSUME NEW t \in Thread, Close(t) PROVE TypeOK'
  BY <1>25 DEF Close, vars
<1>26. ASSUME NEW t \in Thread, Destroy(t) PROVE TypeOK'
  BY <1>26 DEF Destroy, vars
<1>27. ASSUME NEW t \in Thread, CloseOne(t) PROVE TypeOK'
  BY <1>27, DequeFacts DEF CloseOne
<1>28. ASSUME NEW t \in Thread, CloseRelock(t) PROVE TypeOK'
  BY <1>28 DEF CloseRelock, vars
<1>29. ASSUME NEW t \in Thread, CloseEnd(t) PROVE TypeOK'
  BY <1>29 DEF CloseEnd, vars
<1>30. ASSUME NEW t \in Thread, Disconnect(t) PROVE TypeOK'
  BY <1>30 DEF Disconnect, vars
<1>31. ASSUME NEW t \in Thread, HolderDisconnects(t) PROVE TypeOK'
  BY <1>31 DEF HolderDisconnects, vars
<1>32. ASSUME NEW t \in Thread, DeadlinePasses(t) PROVE TypeOK'
  BY <1>32 DEF DeadlinePasses, vars
<1>33. ASSUME NEW t \in Thread, NEW u \in Thread, MoveLease(t, u) PROVE TypeOK'
  <2>1. PICK c \in held[t] :
          held' = [held EXCEPT ![t] = @ \ {c}, ![u] = @ \cup {c}]
    BY <1>33 DEF MoveLease
  <2>2. held' \in [Thread -> SUBSET Conn]
    BY <2>1
  <2>. QED BY <1>33, <2>2 DEF MoveLease
<1>34. ASSUME Break PROVE TypeOK'
  BY <1>34, BoundsAssumption DEF Break
<1>35. ASSUME IdleTimePasses PROVE TypeOK'
  BY <1>35, ElementsByPosition DEF IdleTimePasses
<1>36. ASSUME LifetimePasses PROVE TypeOK'
  BY <1>36 DEF LifetimePasses, vars
<1>37. ASSUME Destroyed PROVE TypeOK'
  BY <1>37 DEF Destroyed, vars
<1>38. CASE UNCHANGED vars
  BY <1>38 DEF vars
<1>. QED
  BY <1>1, <1>2, <1>3, <1>4, <1>5, <1>6, <1>7, <1>8, <1>9, <1>10, <1>11,
     <1>12, <1>13, <1>14, <1>15, <1>16, <1>17, <1>18, <1>19, <1>20, <1>21,
     <1>22, <1>23, <1>24, <1>25, <1>26, <1>27, <1>28, <1>29, <1>30, <1>31,
     <1>32, <1>33, <1>34, <1>35, <1>36, <1>37, <1>38 DEF Next, Step,
     AcquireStep, ReleaseStep, CloseStep, Environment

-----------------------------------------------------------------------------
(* Between its critical sections no thread holds the mutex. *)
LEMMA MutexStep ==
  ASSUME IInv, [Next]_vars
  PROVE  MutexOK'
<1>. USE DEF MutexOK, Locked, Goto, Return, Lock, Unlock, LockUnlock
<1>. MutexOK /\ pc \in [Thread -> PC] /\ NoThread \notin Thread
  BY ThreadAssumption DEF IInv, TypeOK
<1>1. ASSUME NEW t \in Thread,
             Acquire(t) \/ EvictRelock(t) \/ PingRelock(t) \/ WakeUp(t) \/
             Close(t) \/ Destroy(t) \/ CloseRelock(t)
      PROVE  MutexOK'
  BY <1>1 DEF Acquire, EvictRelock, PingRelock, WakeUp, Close, Destroy,
     CloseRelock, vars, callVars, syncVars
<1>2. ASSUME NEW t \in Thread,
             TakeAvailable(t) \/ Reserve(t) \/ GiveUp(t) \/ Wait(t) \/
             CloseOne(t) \/ CloseEnd(t)
      PROVE  MutexOK'
  BY <1>2 DEF TakeAvailable, Reserve, GiveUp, Wait, CloseOne, CloseEnd,
     vars, callVars, syncVars
<1>3. ASSUME NEW t \in Thread,
             EvictEnd(t)
      PROVE  MutexOK'
  BY <1>3 DEF EvictEnd, vars, callVars, syncVars
<1>4. ASSUME NEW t \in Thread,
             PingAccept(t) \/ PingReject(t) \/ AddEntry(t) \/
             ConnectFailed(t) \/ TimeOut(t)
      PROVE  MutexOK'
  BY <1>4 DEF PingAccept, PingReject, AddEntry, ConnectFailed, TimeOut,
     vars, callVars, syncVars
<1>5. ASSUME NEW t \in Thread,
             ReleaseLocked(t) \/ Ping(t) \/ Connect(t) \/ Release(t) \/
             ReleaseCheck(t) \/ ResetSession(t) \/ ReleaseNotify(t) \/
             ReleaseEnd(t)
      PROVE  MutexOK'
  BY <1>5 DEF ReleaseLocked, Ping, Connect, Release, ReleaseCheck,
     ResetSession, ReleaseNotify, ReleaseEnd, vars, callVars, syncVars
<1>6. ASSUME NEW t \in Thread,
             AcquireRefused(t) \/ EvictScan(t) \/ Disconnect(t) \/
             HolderDisconnects(t) \/ DeadlinePasses(t) \/ (\E u \in Thread :
             MoveLease(t, u))
      PROVE  MutexOK'
  BY <1>6 DEF AcquireRefused, EvictScan, Disconnect, HolderDisconnects,
     DeadlinePasses, MoveLease, vars, callVars, syncVars
<1>7. ASSUME Break \/ IdleTimePasses \/ LifetimePasses \/ Destroyed \/
             UNCHANGED vars
      PROVE  MutexOK'
  BY <1>7 DEF Break, IdleTimePasses, LifetimePasses, Destroyed, vars,
     callVars, syncVars
<1>. QED BY <1>1, <1>2, <1>3, <1>4, <1>5, <1>6, <1>7 DEF Next, Step,
       AcquireStep, ReleaseStep, CloseStep, Environment

-----------------------------------------------------------------------------
(* A thread works on an entry exactly where its call has one. *)
LEMMA EntryStep ==
  ASSUME IInv, [Next]_vars
  PROVE  EntryOK'
<1>. USE DEF EntryOK, Working, Goto, Return
<1>. /\ EntryOK /\ pc \in [Thread -> PC]
     /\ entry \in [Thread -> Conn \cup {NoConn}]
     /\ held \in [Thread -> SUBSET Conn]
     /\ NoConn \notin Conn
  BY ConnAssumption DEF IInv, TypeOK
<1>1. ASSUME NEW t \in Thread,
             Acquire(t) \/ EvictEnd(t) \/ EvictRelock(t) \/ PingRelock(t) \/
             WakeUp(t) \/ Close(t) \/ Destroy(t) \/ CloseRelock(t) \/
             Reserve(t) \/ GiveUp(t) \/ Wait(t)
      PROVE  EntryOK'
  BY <1>1 DEF Acquire, EvictEnd, EvictRelock, PingRelock, WakeUp, Close,
     Destroy, CloseRelock, Reserve, GiveUp, Wait, vars, callVars, syncVars
<1>2. ASSUME NEW t \in Thread,
             CloseOne(t) \/ CloseEnd(t) \/ AcquireRefused(t) \/ EvictScan(t)
             \/ Disconnect(t) \/ HolderDisconnects(t) \/ DeadlinePasses(t)
             \/ (\E u \in Thread : MoveLease(t, u))
      PROVE  EntryOK'
  BY <1>2 DEF CloseOne, CloseEnd, AcquireRefused, EvictScan, Disconnect,
     HolderDisconnects, DeadlinePasses, MoveLease, vars, callVars, syncVars
<1>3. ASSUME NEW t \in Thread,
             Ping(t) \/ ReleaseCheck(t) \/ ResetSession(t) \/
             ReleaseNotify(t) \/ ReleaseEnd(t) \/ ConnectFailed(t) \/
             TimeOut(t)
      PROVE  EntryOK'
  BY <1>3 DEF Ping, ReleaseCheck, ResetSession, ReleaseNotify, ReleaseEnd,
     ConnectFailed, TimeOut, vars, callVars, syncVars
<1>4. ASSUME NEW t \in Thread,
             TakeAvailable(t)
      PROVE  EntryOK'
  BY <1>4, DequeFacts DEF TakeAvailable
<1>5. ASSUME NEW t \in Thread,
             PingAccept(t) \/ PingReject(t) \/ AddEntry(t) \/
             ReleaseLocked(t)
      PROVE  EntryOK'
  BY <1>5 DEF PingAccept, PingReject, AddEntry, ReleaseLocked, vars,
     callVars, syncVars
<1>6. ASSUME NEW t \in Thread,
             Connect(t)
      PROVE  EntryOK'
  BY <1>6 DEF Connect, vars, callVars, syncVars
<1>7. ASSUME NEW t \in Thread,
             Release(t)
      PROVE  EntryOK'
  BY <1>7 DEF Release, vars, callVars, syncVars
<1>8. ASSUME Break \/ IdleTimePasses \/ LifetimePasses \/ Destroyed \/
             UNCHANGED vars
      PROVE  EntryOK'
  BY <1>8 DEF Break, IdleTimePasses, LifetimePasses, Destroyed, vars,
     callVars, syncVars
<1>. QED BY <1>1, <1>2, <1>3, <1>4, <1>5, <1>6, <1>7, <1>8 DEF Next, Step,
       AcquireStep, ReleaseStep, CloseStep, Environment

(* A thread has entries to destroy only where the code destroys them. *)
LEMMA DyingStep ==
  ASSUME IInv, [Next]_vars
  PROVE  DyingOK'
<1>. USE DEF DyingOK, Goto, Return
<1>. DyingOK /\ pc \in [Thread -> PC] /\ dying \in [Thread -> SUBSET Conn]
  BY DEF IInv, TypeOK
<1>1. ASSUME NEW t \in Thread,
             Acquire(t) \/ EvictRelock(t) \/ PingRelock(t) \/ WakeUp(t) \/
             Close(t) \/ Destroy(t) \/ CloseRelock(t) \/ Reserve(t) \/
             GiveUp(t) \/ Wait(t)
      PROVE  DyingOK'
  BY <1>1 DEF Acquire, EvictRelock, PingRelock, WakeUp, Close, Destroy,
     CloseRelock, Reserve, GiveUp, Wait, vars, callVars, syncVars
<1>2. ASSUME NEW t \in Thread,
             EvictEnd(t) \/ EvictScan(t) \/ CloseOne(t) \/ CloseEnd(t)
      PROVE  DyingOK'
  BY <1>2 DEF EvictEnd, EvictScan, CloseOne, CloseEnd, vars, callVars,
     syncVars
<1>3. ASSUME NEW t \in Thread,
             AcquireRefused(t) \/ HolderDisconnects(t) \/ DeadlinePasses(t)
             \/ (\E u \in Thread : MoveLease(t, u))
      PROVE  DyingOK'
  BY <1>3 DEF AcquireRefused, HolderDisconnects, DeadlinePasses, MoveLease,
     vars, callVars, syncVars
<1>4. ASSUME NEW t \in Thread,
             Ping(t) \/ ReleaseCheck(t) \/ ResetSession(t) \/
             ReleaseNotify(t) \/ ReleaseEnd(t) \/ ConnectFailed(t) \/
             TimeOut(t)
      PROVE  DyingOK'
  BY <1>4 DEF Ping, ReleaseCheck, ResetSession, ReleaseNotify, ReleaseEnd,
     ConnectFailed, TimeOut, vars, callVars, syncVars
<1>5. ASSUME NEW t \in Thread,
             TakeAvailable(t) \/ PingAccept(t) \/ PingReject(t) \/
             AddEntry(t) \/ ReleaseLocked(t) \/ Connect(t) \/ Release(t)
      PROVE  DyingOK'
  BY <1>5 DEF TakeAvailable, PingAccept, PingReject, AddEntry,
     ReleaseLocked, Connect, Release, vars, callVars, syncVars
<1>6. ASSUME NEW t \in Thread,
             Disconnect(t)
      PROVE  DyingOK'
  BY <1>6 DEF Disconnect, vars, callVars, syncVars
<1>7. ASSUME Break \/ IdleTimePasses \/ LifetimePasses \/ Destroyed \/
             UNCHANGED vars
      PROVE  DyingOK'
  BY <1>7 DEF Break, IdleTimePasses, LifetimePasses, Destroyed, vars,
     callVars, syncVars
<1>. QED BY <1>1, <1>2, <1>3, <1>4, <1>5, <1>6, <1>7 DEF Next, Step,
       AcquireStep, ReleaseStep, CloseStep, Environment

-----------------------------------------------------------------------------
(* Who owns what does not depend on which role the entry has in a thread. *)
LEMMA OwnersSame ==
  ASSUME Owners, IsInjective(available'), ToSet(available') \subseteq entries',
         Leased' = Leased,
         \A u \in Thread : Busy(u)' = Busy(u),
         \A u \in Thread : entry'[u] \notin held'[u]
  PROVE  Owners'
BY DEF Owners

LEMMA OwnersFrame ==
  ASSUME Owners, UNCHANGED <<entries, available, held, entry>>,
         \A u \in Thread : pc'[u] = "connected" <=> pc[u] = "connected"
  PROVE  Owners'
<1>1. \A u \in Thread : Busy(u)' = Busy(u) /\ entry'[u] \notin held'[u]
  BY DEF Busy, Owners
<1>. QED BY <1>1, OwnersSame DEF Owners, Leased

(* An entry nobody answers for goes to one thread. *)
LEMMA OwnersGain ==
  ASSUME Owners, IsInjective(available'), ToSet(available') \subseteq entries',
         NEW t \in Thread, NEW c, c \notin Leased,
         Leased' = Leased \cup {c},
         Busy(t)' = Busy(t) \cup {c},
         \A u \in Thread \ {t} : Busy(u)' = Busy(u),
         \A u \in Thread : entry'[u] \notin held'[u]
  PROVE  Owners'
BY DEF Owners

(* The thread that answers for an entry lets it go. *)
LEMMA OwnersLose ==
  ASSUME Owners, IsInjective(available'), ToSet(available') \subseteq entries',
         NEW t \in Thread, NEW c \in Busy(t),
         Leased' = Leased \ {c},
         Busy(t)' = Busy(t) \ {c},
         \A u \in Thread \ {t} : Busy(u)' = Busy(u),
         \A u \in Thread : entry'[u] \notin held'[u]
  PROVE  Owners'
BY DEF Owners

(* Every step keeps each entry in one place. *)
LEMMA OwnersStep ==
  ASSUME IInv, [Next]_vars
  PROVE  Owners'
<1>. USE DEF Goto, Return
<1>. /\ Owners /\ EntryOK /\ Objects
     /\ available \in Seq(Conn) /\ IsInjective(available)
     /\ ToSet(available) \subseteq entries
     /\ pc \in [Thread -> PC]
     /\ entry \in [Thread -> Conn \cup {NoConn}]
     /\ held \in [Thread -> SUBSET Conn]
     /\ NoConn \notin Conn
     /\ \A u \in Thread : Busy(u) \subseteq Leased /\ entry[u] \notin held[u]
     /\ \A u, v \in Thread : u # v => Busy(u) \cap Busy(v) = {}
  BY ConnAssumption DEF IInv, TypeOK, Owners
<1>1. ASSUME NEW t \in Thread,
             Acquire(t) \/ EvictEnd(t) \/ EvictRelock(t) \/ PingRelock(t) \/
             WakeUp(t) \/ Close(t) \/ Destroy(t) \/ CloseRelock(t) \/
             Reserve(t) \/ GiveUp(t) \/ Wait(t)
      PROVE  Owners'
  <2>1. UNCHANGED <<entries, available, held, entry>>
    BY <1>1 DEF Acquire, EvictEnd, EvictRelock, PingRelock, WakeUp, Close,
       Destroy, CloseRelock, Reserve, GiveUp, Wait, vars, poolVars, callVars
  <2>2. \A u \in Thread : pc'[u] = "connected" <=> pc[u] = "connected"
    BY <1>1 DEF Acquire, EvictEnd, EvictRelock, PingRelock, WakeUp, Close,
       Destroy, CloseRelock, Reserve, GiveUp, Wait, vars, callVars
  <2>. QED BY <2>1, <2>2, OwnersFrame
<1>2. ASSUME NEW t \in Thread,
             CloseEnd(t) \/ AcquireRefused(t) \/ Disconnect(t) \/
             HolderDisconnects(t) \/ DeadlinePasses(t) \/ Ping(t) \/
             ReleaseCheck(t) \/ ResetSession(t) \/ ReleaseNotify(t) \/
             ReleaseEnd(t) \/ ConnectFailed(t) \/ TimeOut(t)
      PROVE  Owners'
  <2>1. UNCHANGED <<entries, available, held, entry>>
    BY <1>2 DEF CloseEnd, AcquireRefused, Disconnect, HolderDisconnects,
       DeadlinePasses, Ping, ReleaseCheck, ResetSession, ReleaseNotify,
       ReleaseEnd, ConnectFailed, TimeOut, vars, poolVars, callVars
  <2>2. \A u \in Thread : pc'[u] = "connected" <=> pc[u] = "connected"
    BY <1>2 DEF CloseEnd, AcquireRefused, Disconnect, HolderDisconnects,
       DeadlinePasses, Ping, ReleaseCheck, ResetSession, ReleaseNotify,
       ReleaseEnd, ConnectFailed, TimeOut, vars, callVars
  <2>. QED BY <2>1, <2>2, OwnersFrame
<1>3. ASSUME Break \/ IdleTimePasses \/ LifetimePasses \/ Destroyed \/
             UNCHANGED vars
      PROVE  Owners'
  <2>1. UNCHANGED <<entries, available, held, entry>>
    BY <1>3 DEF Break, IdleTimePasses, LifetimePasses, Destroyed, vars,
       poolVars, callVars
  <2>2. \A u \in Thread : pc'[u] = "connected" <=> pc[u] = "connected"
    BY <1>3 DEF Break, IdleTimePasses, LifetimePasses, Destroyed, vars,
       callVars
  <2>. QED BY <2>1, <2>2, OwnersFrame
<1>4. ASSUME NEW t \in Thread,
             EvictScan(t)
      PROVE  Owners'
  <2>1. scan[t] \in 1..Len(available)
    BY <1>4, LenProperties DEF EvictScan, IInv, TypeOK
  <2>2. UNCHANGED <<pc, held, entry>>
    BY <1>4 DEF EvictScan
  <2>3. CASE UNCHANGED <<entries, available>>
    BY <2>2, <2>3, OwnersFrame
  <2>4. CASE ~UNCHANGED <<entries, available>>
    <3>1. PICK k \in 1..Len(available) :
            /\ available' = RemoveAt(available, k)
            /\ entries' = entries \ {available[k]}
      BY <1>4, <2>1, <2>4 DEF EvictScan
    <3>2. /\ IsInjective(available')
          /\ ToSet(available') = ToSet(available) \ {available[k]}
          /\ available[k] \in ToSet(available)
      BY <3>1, DequeFacts
    <3>3. Leased' = Leased /\ ToSet(available') \subseteq entries'
      BY <3>1, <3>2 DEF Leased
    <3>4. \A u \in Thread : Busy(u)' = Busy(u) /\ entry'[u] \notin held'[u]
      BY <2>2 DEF Busy
    <3>. QED BY <3>2, <3>3, <3>4, OwnersSame
  <2>. QED BY <2>3, <2>4
<1>5. ASSUME NEW t \in Thread,
             CloseOne(t)
      PROVE  Owners'
  <2>1. /\ available # <<>> /\ available' = Tail(available)
        /\ entries' = entries \ {Head(available)}
        /\ UNCHANGED <<held, entry>>
    BY <1>5 DEF CloseOne
  <2>2. \A u \in Thread : pc'[u] = "connected" <=> pc[u] = "connected"
    BY <1>5 DEF CloseOne
  <2>3. /\ IsInjective(available')
        /\ ToSet(available') = ToSet(available) \ {Head(available)}
        /\ Head(available) \in ToSet(available)
    BY <2>1, DequeFacts
  <2>4. Leased' = Leased /\ ToSet(available') \subseteq entries'
    BY <2>1, <2>3 DEF Leased
  <2>5. \A u \in Thread : Busy(u)' = Busy(u) /\ entry'[u] \notin held'[u]
    BY <2>1, <2>2 DEF Busy
  <2>. QED BY <2>3, <2>4, <2>5, OwnersSame
<1>6. ASSUME NEW t \in Thread,
             PingAccept(t)
      PROVE  Owners'
  <2>1. /\ UNCHANGED <<entries, available>>
        /\ pc[t] = "pingOk" /\ pc' = [pc EXCEPT ![t] = "idle"]
        /\ held' = [held EXCEPT ![t] = @ \cup {entry[t]}]
        /\ entry' = [entry EXCEPT ![t] = NoConn]
    BY <1>6 DEF PingAccept, Grant, poolVars
  <2>2. entry[t] # NoConn
    BY <2>1 DEF EntryOK, Working
  <2>3. Busy(t)' = Busy(t)
    BY <2>1, <2>2 DEF Busy
  <2>4. \A u \in Thread \ {t} : Busy(u)' = Busy(u)
    BY <2>1 DEF Busy
  <2>5. \A u \in Thread : entry'[u] \notin held'[u]
    BY <2>1, <2>2
  <2>. QED BY <2>1, <2>3, <2>4, <2>5, OwnersSame DEF Leased
<1>7. ASSUME NEW t \in Thread,
             Release(t)
      PROVE  Owners'
  <2>1. PICK c \in held[t] :
          /\ held' = [held EXCEPT ![t] = @ \ {c}]
          /\ entry' = [entry EXCEPT ![t] = c]
    BY <1>7 DEF Release
  <2>2. /\ UNCHANGED <<entries, available>>
        /\ pc[t] = "idle" /\ pc' = [pc EXCEPT ![t] = "release"]
    BY <1>7 DEF Release, poolVars
  <2>3. entry[t] = NoConn
    BY <2>2 DEF EntryOK, Working
  <2>4. \A u \in Thread : Busy(u)' = Busy(u)
    BY <2>1, <2>2, <2>3 DEF Busy
  <2>5. \A u \in Thread : entry'[u] \notin held'[u]
    BY <2>1
  <2>. QED BY <2>2, <2>4, <2>5, OwnersSame DEF Leased
<1>8. ASSUME NEW t \in Thread,
             Connect(t)
      PROVE  Owners'
  <2>1. UNCHANGED <<entries, available, held>>
    BY <1>8 DEF Connect, poolVars
  <2>2. CASE UNCHANGED entry
    <3>1. \A u \in Thread : pc[u] = "connected" => pc'[u] = "connected"
      BY <1>8 DEF Connect
    <3>2. \A u \in Thread \ {t} : pc'[u] = pc[u]
      BY <1>8 DEF Connect
    <3>3. pc[t] = "connect" /\ entry[t] = NoConn
      BY <1>8 DEF Connect, EntryOK, Working
    <3>4. \A u \in Thread : Busy(u)' = Busy(u)
      BY <3>1, <3>2, <3>3, <2>1, <2>2 DEF Busy
    <3>. QED BY <2>1, <2>2, <3>4, OwnersSame DEF Leased
  <2>3. ASSUME NEW c \in Conn, conn[c] = "none",
               entry' = [entry EXCEPT ![t] = c],
               pc[t] = "connect", pc' = [pc EXCEPT ![t] = "connected"]
        PROVE  Owners'
    <3>1. entry[t] = NoConn
      BY <2>3 DEF EntryOK, Working
    <3>2. c \notin entries
      BY <2>3 DEF Objects
    <3>3. \A u \in Thread : Busy(u)' = Busy(u)
      BY <2>1, <2>3, <3>1 DEF Busy
    <3>4. \A u \in Thread : held[u] \subseteq entries
      BY DEF Owners, Busy, Leased
    <3>5. \A u \in Thread : entry'[u] \notin held'[u]
      BY <2>1, <2>3, <3>2, <3>4
    <3>. QED BY <2>1, <3>3, <3>5, OwnersSame DEF Leased
  <2>. QED BY <1>8, <2>2, <2>3 DEF Connect
<1>9. ASSUME NEW t \in Thread,
             TakeAvailable(t)
      PROVE  Owners'
  <2>. DEFINE c == Head(available)
  <2>1. /\ available # <<>> /\ available' = Tail(available)
        /\ UNCHANGED entries /\ pc[t] = "take"
    BY <1>9 DEF TakeAvailable
  <2>2. /\ IsInjective(available')
        /\ ToSet(available') = ToSet(available) \ {c}
        /\ c \in ToSet(available) /\ c \in Conn
    BY <2>1, DequeFacts
  <2>3. Leased' = Leased \cup {c} /\ c \notin Leased /\ c \in entries
    BY <2>1, <2>2 DEF Leased
  <2>4. entry[t] = NoConn /\ c \notin held[t]
    BY <2>1, <2>3 DEF EntryOK, Working, Busy
  <2>5. CASE Validate
    <3>1. /\ entry' = [entry EXCEPT ![t] = c] /\ held' = held
          /\ pc' = [pc EXCEPT ![t] = "ping"]
      BY <1>9, <2>5 DEF TakeAvailable
    <3>2. Busy(t)' = Busy(t) \cup {c}
      BY <3>1, <2>1, <2>2, <2>4 DEF Busy
    <3>3. \A u \in Thread \ {t} : Busy(u)' = Busy(u)
      BY <3>1 DEF Busy
    <3>4. \A u \in Thread : entry'[u] \notin held'[u]
      BY <3>1, <2>4
    <3>. QED BY <2>1, <2>2, <2>3, <3>2, <3>3, <3>4, OwnersGain
  <2>6. CASE ~Validate
    <3>1. /\ held' = [held EXCEPT ![t] = @ \cup {c}] /\ entry' = entry
          /\ pc' = [pc EXCEPT ![t] = "idle"]
      BY <1>9, <2>6 DEF TakeAvailable, Grant
    <3>2. Busy(t)' = Busy(t) \cup {c}
      BY <3>1, <2>1, <2>2, <2>4 DEF Busy
    <3>3. \A u \in Thread \ {t} : Busy(u)' = Busy(u)
      BY <3>1 DEF Busy
    <3>4. \A u \in Thread : entry'[u] \notin held'[u]
      BY <3>1, <2>2, <2>4
    <3>. QED BY <2>1, <2>2, <2>3, <3>2, <3>3, <3>4, OwnersGain
  <2>. QED BY <2>5, <2>6
<1>10. ASSUME NEW t \in Thread,
              AddEntry(t)
       PROVE  Owners'
  <2>. DEFINE c == entry[t]
  <2>1. /\ UNCHANGED available /\ entries' = entries \cup {c}
        /\ pc[t] = "connected" /\ pc' = [pc EXCEPT ![t] = "idle"]
        /\ held' = [held EXCEPT ![t] = @ \cup {c}]
        /\ entry' = [entry EXCEPT ![t] = NoConn]
    BY <1>10 DEF AddEntry, Grant
  <2>2. c \notin entries
    BY <2>1 DEF Objects, Private
  <2>3. /\ Leased' = Leased \cup {c} /\ c \notin Leased
        /\ ToSet(available') \subseteq entries'
    BY <2>1, <2>2 DEF Leased
  <2>4. Busy(t)' = Busy(t) \cup {c}
    BY <2>1 DEF Busy
  <2>5. \A u \in Thread \ {t} : Busy(u)' = Busy(u)
    BY <2>1 DEF Busy
  <2>6. c # NoConn
    BY <2>1 DEF EntryOK, Working
  <2>7. \A u \in Thread : entry'[u] \notin held'[u]
    BY <2>1, <2>6
  <2>. QED BY <2>1, <2>3, <2>4, <2>5, <2>7, OwnersGain
<1>11. ASSUME NEW t \in Thread,
              PingReject(t)
       PROVE  Owners'
  <2>. DEFINE c == entry[t]
  <2>1. /\ UNCHANGED <<available, held>> /\ entries' = entries \ {c}
        /\ pc[t] = "pingBad" /\ pc' = [pc EXCEPT ![t] = "rejected"]
        /\ entry' = [entry EXCEPT ![t] = NoConn]
    BY <1>11 DEF PingReject
  <2>2. c \in Busy(t) /\ c \in Leased /\ c \notin held[t]
    BY <2>1 DEF EntryOK, Working, Busy
  <2>3. Leased' = Leased \ {c} /\ ToSet(available') \subseteq entries'
    BY <2>1, <2>2 DEF Leased
  <2>4. Busy(t)' = Busy(t) \ {c}
    BY <2>1, <2>2 DEF Busy
  <2>5. \A u \in Thread \ {t} : Busy(u)' = Busy(u)
    BY <2>1 DEF Busy
  <2>6. \A u \in Thread : entry'[u] \notin held'[u]
    BY <2>1
  <2>. QED BY <2>1, <2>2, <2>3, <2>4, <2>5, <2>6, OwnersLose
<1>12. ASSUME NEW t \in Thread,
              ReleaseLocked(t)
       PROVE  Owners'
  <2>. DEFINE c == entry[t]
  <2>1. /\ UNCHANGED held /\ pc[t] \in {"return", "discard"}
        /\ pc' = [pc EXCEPT ![t] = "notify"]
        /\ entry' = [entry EXCEPT ![t] = NoConn]
    BY <1>12 DEF ReleaseLocked
  <2>2. c \in Busy(t) /\ c \in Leased /\ c \notin held[t] /\ c \in Conn
    BY <2>1 DEF EntryOK, Working, Busy
  <2>3. /\ Leased' = Leased \ {c} /\ ToSet(available') \subseteq entries'
        /\ IsInjective(available')
    <3>1. CASE entries' = entries \ {c} /\ UNCHANGED available
      BY <3>1, <2>2 DEF Leased
    <3>2. CASE available' = Append(available, c) /\ UNCHANGED entries
      <4>1. /\ IsInjective(available')
            /\ ToSet(available') = ToSet(available) \cup {c}
        BY <3>2, <2>2, AppendFacts DEF Leased
      <4>. QED BY <3>2, <4>1, <2>2 DEF Leased
    <3>. QED BY <1>12, <3>1, <3>2 DEF ReleaseLocked
  <2>4. Busy(t)' = Busy(t) \ {c}
    BY <2>1, <2>2 DEF Busy
  <2>5. \A u \in Thread \ {t} : Busy(u)' = Busy(u)
    BY <2>1 DEF Busy
  <2>6. \A u \in Thread : entry'[u] \notin held'[u]
    BY <2>1
  <2>. QED BY <2>2, <2>3, <2>4, <2>5, <2>6, OwnersLose
<1>13. ASSUME NEW t \in Thread,
              (\E u \in Thread : MoveLease(t, u))
       PROVE  Owners'
  <2>1. PICK u \in Thread : MoveLease(t, u)
    BY <1>13
  <2>2. PICK c \in held[t] :
          held' = [held EXCEPT ![t] = @ \ {c}, ![u] = @ \cup {c}]
    BY <2>1 DEF MoveLease
  <2>3. /\ t # u /\ pc[t] = "idle" /\ pc[u] = "idle"
        /\ UNCHANGED <<entries, available, entry, pc>>
    BY <2>1 DEF MoveLease, poolVars
  <2>4. entry[t] = NoConn /\ entry[u] = NoConn
    BY <2>3 DEF EntryOK, Working
  <2>5. c \in Busy(t) /\ c \notin Busy(u) /\ c \in Conn
    BY <2>2, <2>3 DEF Busy
  <2>6. Busy(t)' = Busy(t) \ {c} /\ Busy(u)' = Busy(u) \cup {c}
    BY <2>2, <2>3, <2>4 DEF Busy
  <2>7. \A v \in Thread \ {t, u} : Busy(v)' = Busy(v)
    BY <2>2, <2>3 DEF Busy
  <2>8. \A v \in Thread : entry'[v] \notin held'[v]
    BY <2>2, <2>3, <2>4, <2>5
  <2>9. Leased' = Leased
    BY <2>3 DEF Leased
  <2>. QED BY <2>3, <2>5, <2>6, <2>7, <2>8, <2>9 DEF Owners
<1>. QED BY <1>1, <1>2, <1>3, <1>4, <1>5, <1>6, <1>7, <1>8, <1>9, <1>10,
       <1>11, <1>12, <1>13 DEF Next, Step, AcquireStep, ReleaseStep,
       CloseStep, Environment

-----------------------------------------------------------------------------
(* Objects that exist go on existing while who knows of them is the same. *)
LEMMA ObjectsSame ==
  ASSUME TypeOK, Objects, UNCHANGED entries,
         \A u \in Thread : Private(u)' = Private(u),
         \A x \in Conn : conn'[x] = "none" => conn[x] = "none",
         \A u \in Thread : Private(u) \subseteq Conn
  PROVE  Objects'
BY DEF Objects, TypeOK

(* An entry leaves the pool for the thread that destroys it. *)
LEMMA ObjectsLeave ==
  ASSUME Objects, UNCHANGED conn, entries' \subseteq entries,
         NEW t \in Thread,
         Private(t)' \subseteq Private(t) \cup (entries \ entries'),
         \A u \in Thread \ {t} : Private(u)' = Private(u)
  PROVE  Objects'
BY DEF Objects

(* Every step keeps track of which objects exist. *)
LEMMA ObjectsStep ==
  ASSUME IInv, [Next]_vars
  PROVE  Objects'
<1>. USE DEF Goto, Return
<1>. /\ TypeOK /\ Objects /\ DyingOK
     /\ pc \in [Thread -> PC]
     /\ entries \subseteq Conn
     /\ entry \in [Thread -> Conn \cup {NoConn}]
     /\ dying \in [Thread -> SUBSET Conn]
     /\ held \in [Thread -> SUBSET Conn]
     /\ conn \in [Conn -> ConnState]
  BY DEF IInv, TypeOK
<1>. \A u \in Thread : Private(u) \subseteq Conn
  BY DEF IInv, EntryOK, Working, Private
<1>. /\ \A c \in entries : conn[c] # "none"
     /\ \A u \in Thread : Private(u) \cap entries = {}
     /\ \A u \in Thread : \A c \in Private(u) : conn[c] # "none"
     /\ \A u, v \in Thread : u # v => Private(u) \cap Private(v) = {}
  BY DEF Objects
<1>1. ASSUME NEW t \in Thread,
             Acquire(t) \/ EvictEnd(t) \/ EvictRelock(t) \/ PingRelock(t) \/
             WakeUp(t) \/ Close(t) \/ Destroy(t) \/ CloseRelock(t) \/
             Reserve(t) \/ GiveUp(t) \/ Wait(t)
      PROVE  Objects'
  <2>1. UNCHANGED <<entries, dying, conn>>
    BY <1>1 DEF Acquire, EvictEnd, EvictRelock, PingRelock, WakeUp, Close,
       Destroy, CloseRelock, Reserve, GiveUp, Wait, vars, poolVars,
       callVars, connVars
  <2>2. \A u \in Thread : Private(u)' = Private(u)
    BY <1>1 DEF Acquire, EvictEnd, EvictRelock, PingRelock, WakeUp, Close,
       Destroy, CloseRelock, Reserve, GiveUp, Wait, vars, callVars, Private
  <2>. QED BY <2>1, <2>2, ObjectsSame
<1>2. ASSUME NEW t \in Thread,
             CloseEnd(t) \/ AcquireRefused(t) \/ DeadlinePasses(t) \/
             Ping(t) \/ ReleaseCheck(t) \/ ResetSession(t) \/
             ReleaseNotify(t) \/ ReleaseEnd(t) \/ ConnectFailed(t) \/
             TimeOut(t) \/ (\E u \in Thread : MoveLease(t, u))
      PROVE  Objects'
  <2>1. UNCHANGED <<entries, dying, conn>>
    BY <1>2 DEF CloseEnd, AcquireRefused, DeadlinePasses, Ping,
       ReleaseCheck, ResetSession, ReleaseNotify, ReleaseEnd, ConnectFailed,
       TimeOut, MoveLease, vars, poolVars, callVars, connVars
  <2>2. \A u \in Thread : Private(u)' = Private(u)
    BY <1>2 DEF CloseEnd, AcquireRefused, DeadlinePasses, Ping,
       ReleaseCheck, ResetSession, ReleaseNotify, ReleaseEnd, ConnectFailed,
       TimeOut, MoveLease, vars, callVars, Private
  <2>. QED BY <2>1, <2>2, ObjectsSame
<1>3. ASSUME IdleTimePasses \/ LifetimePasses \/ Destroyed \/ UNCHANGED vars
      PROVE  Objects'
  <2>1. UNCHANGED <<entries, dying, conn>>
    BY <1>3 DEF IdleTimePasses, LifetimePasses, Destroyed, vars, poolVars,
       callVars, connVars
  <2>2. \A u \in Thread : Private(u)' = Private(u)
    BY <1>3 DEF IdleTimePasses, LifetimePasses, Destroyed, vars, callVars,
       Private
  <2>. QED BY <2>1, <2>2, ObjectsSame
<1>4. ASSUME NEW t \in Thread,
             TakeAvailable(t) \/ PingAccept(t) \/ Release(t)
      PROVE  Objects'
  <2>1. /\ UNCHANGED <<entries, dying, conn>>
        /\ pc[t] \in {"take", "pingOk", "idle"}
        /\ \E p \in {"ping", "idle", "release"} : pc' = [pc EXCEPT ![t] = p]
        /\ \A u \in Thread \ {t} : entry'[u] = entry[u]
    BY <1>4 DEF TakeAvailable, PingAccept, Release, poolVars, connVars
  <2>2. \A u \in Thread : Private(u)' = Private(u)
    BY <2>1 DEF Private
  <2>. QED BY <2>1, <2>2, ObjectsSame
<1>5. ASSUME NEW t \in Thread,
             HolderDisconnects(t)
      PROVE  Objects'
  <2>1. UNCHANGED <<entries, dying, entry, pc>>
    BY <1>5 DEF HolderDisconnects, poolVars, callVars
  <2>2. PICK c \in Conn : conn[c] = "good" /\ conn' = [conn EXCEPT ![c] =
     "closed"]
    BY <1>5 DEF HolderDisconnects
  <2>3. \A x \in Conn : conn'[x] = "none" => conn[x] = "none"
    BY <2>2
  <2>. QED BY <2>1, <2>3, ObjectsSame DEF Private
<1>6. ASSUME Break
      PROVE  Objects'
  <2>1. UNCHANGED <<entries, dying, entry, pc>>
    BY <1>6 DEF Break, poolVars, callVars
  <2>2. PICK c \in Conn : conn[c] = "good" /\ conn' = [conn EXCEPT ![c] =
     "broken"]
    BY <1>6 DEF Break
  <2>3. \A x \in Conn : conn'[x] = "none" => conn[x] = "none"
    BY <2>2
  <2>. QED BY <2>1, <2>3, ObjectsSame DEF Private
<1>7. ASSUME NEW t \in Thread,
             EvictScan(t)
      PROVE  Objects'
  <2>1. UNCHANGED <<conn, pc, entry>>
    BY <1>7 DEF EvictScan, connVars
  <2>2. CASE UNCHANGED <<entries, dying>>
    BY <2>1, <2>2, ObjectsSame DEF Private
  <2>3. ASSUME NEW c \in entries, entries' = entries \ {c},
               dying' = [dying EXCEPT ![t] = @ \cup {c}]
        PROVE  Objects'
    <3>1. Private(t)' \subseteq Private(t) \cup (entries \ entries')
      BY <2>1, <2>3 DEF Private
    <3>2. \A u \in Thread \ {t} : Private(u)' = Private(u)
      BY <2>1, <2>3 DEF Private
    <3>. QED BY <2>1, <2>3, <3>1, <3>2, ObjectsLeave
  <2>4. scan[t] \in 1..Len(available)
    BY <1>7, LenProperties DEF EvictScan, IInv, TypeOK
  <2>5. available[scan[t]] \in entries
    BY <2>4, DequeFacts DEF IInv, Owners
  <2>. QED BY <1>7, <2>2, <2>3, <2>5 DEF EvictScan
<1>8. ASSUME NEW t \in Thread,
             CloseOne(t)
      PROVE  Objects'
  <2>. DEFINE c == Head(available)
  <2>1. /\ UNCHANGED <<conn, entry>> /\ entries' = entries \ {c}
        /\ pc[t] = "closing" /\ pc' = [pc EXCEPT ![t] = "drained"]
        /\ dying' = [dying EXCEPT ![t] = {c}] /\ available # <<>>
    BY <1>8 DEF CloseOne, connVars
  <2>2. c \in entries
    BY <2>1, DequeFacts DEF IInv, Owners
  <2>3. Private(t)' \subseteq Private(t) \cup (entries \ entries')
    BY <2>1, <2>2 DEF Private
  <2>4. \A u \in Thread \ {t} : Private(u)' = Private(u)
    BY <2>1 DEF Private
  <2>. QED BY <2>1, <2>3, <2>4, ObjectsLeave
<1>9. ASSUME NEW t \in Thread,
             PingReject(t)
      PROVE  Objects'
  <2>. DEFINE c == entry[t]
  <2>1. /\ UNCHANGED conn /\ entries' = entries \ {c}
        /\ pc[t] = "pingBad" /\ pc' = [pc EXCEPT ![t] = "rejected"]
        /\ dying' = [dying EXCEPT ![t] = {c}]
        /\ entry' = [entry EXCEPT ![t] = NoConn]
    BY <1>9 DEF PingReject, connVars
  <2>2. c \in entries
    BY <2>1, PositiveCounters DEF Working, Leased
  <2>3. Private(t)' \subseteq Private(t) \cup (entries \ entries')
    BY <2>1, <2>2 DEF Private
  <2>4. \A u \in Thread \ {t} : Private(u)' = Private(u)
    BY <2>1 DEF Private
  <2>. QED BY <2>1, <2>3, <2>4, ObjectsLeave
<1>10. ASSUME NEW t \in Thread,
              ReleaseLocked(t)
       PROVE  Objects'
  <2>. DEFINE c == entry[t]
  <2>1. /\ UNCHANGED conn /\ pc[t] \in {"return", "discard"}
        /\ pc' = [pc EXCEPT ![t] = "notify"]
        /\ entry' = [entry EXCEPT ![t] = NoConn]
    BY <1>10 DEF ReleaseLocked, connVars
  <2>2. c \in entries
    BY <2>1, PositiveCounters DEF Working, Leased
  <2>3. \/ UNCHANGED <<entries, dying>>
        \/ entries' = entries \ {c} /\ dying' = [dying EXCEPT ![t] = {c}]
    BY <1>10 DEF ReleaseLocked
  <2>4. Private(t)' \subseteq Private(t) \cup (entries \ entries')
    BY <2>1, <2>2, <2>3 DEF Private
  <2>5. \A u \in Thread \ {t} : Private(u)' = Private(u)
    BY <2>1, <2>3 DEF Private
  <2>6. entries' \subseteq entries
    BY <2>3
  <2>. QED BY <2>1, <2>4, <2>5, <2>6, ObjectsLeave
<1>11. ASSUME NEW t \in Thread,
              Connect(t)
       PROVE  Objects'
  <2>1. UNCHANGED <<entries, dying>> /\ pc[t] = "connect"
    BY <1>11 DEF Connect, poolVars
  <2>2. CASE pc' = [pc EXCEPT ![t] = "refused"] /\ UNCHANGED <<conn, entry>>
    <3>1. \A u \in Thread : Private(u)' = Private(u)
      BY <2>1, <2>2 DEF Private
    <3>. QED BY <2>1, <2>2, <3>1, ObjectsSame
  <2>3. ASSUME NEW c \in Conn, conn[c] = "none",
               conn' = [conn EXCEPT ![c] = "good"],
               entry' = [entry EXCEPT ![t] = c],
               pc' = [pc EXCEPT ![t] = "connected"]
        PROVE  Objects'
    <3>1. c \notin entries /\ \A u \in Thread : c \notin Private(u)
      BY <2>3
    <3>2. Private(t)' = Private(t) \cup {c}
      BY <2>1, <2>3 DEF Private
    <3>3. \A u \in Thread \ {t} : Private(u)' = Private(u)
      BY <2>1, <2>3 DEF Private
    <3>4. \A x \in Conn : conn'[x] = "none" => conn[x] = "none" /\ x # c
      BY <2>3
    <3>. QED BY <2>1, <3>1, <3>2, <3>3, <3>4 DEF Objects
  <2>. QED BY <1>11, <2>2, <2>3 DEF Connect
<1>12. ASSUME NEW t \in Thread,
              AddEntry(t)
       PROVE  Objects'
  <2>. DEFINE c == entry[t]
  <2>1. /\ UNCHANGED <<conn, dying>> /\ entries' = entries \cup {c}
        /\ pc[t] = "connected" /\ pc' = [pc EXCEPT ![t] = "idle"]
        /\ entry' = [entry EXCEPT ![t] = NoConn]
    BY <1>12 DEF AddEntry
  <2>2. c \in Private(t) /\ dying[t] = {}
    BY <2>1 DEF Private, DyingOK
  <2>3. Private(t)' = {}
    BY <2>1, <2>2 DEF Private
  <2>4. \A u \in Thread \ {t} : Private(u)' = Private(u) /\ c \notin
     Private(u)
    BY <2>1, <2>2 DEF Private
  <2>. QED BY <2>1, <2>2, <2>3, <2>4 DEF Objects
<1>13. ASSUME NEW t \in Thread,
              Disconnect(t)
       PROVE  Objects'
  <2>1. UNCHANGED <<entries, pc, entry>>
    BY <1>13 DEF Disconnect, poolVars
  <2>2. pc[t] # "connected"
    BY <1>13 DEF Disconnect
  <2>3. PICK c \in dying[t] :
          /\ dying' = [dying EXCEPT ![t] = @ \ {c}]
          /\ conn' = [conn EXCEPT ![c] = "none"]
    BY <1>13 DEF Disconnect, Forget
  <2>4. c \in Private(t) /\ Private(t)' = Private(t) \ {c}
    BY <2>1, <2>2, <2>3 DEF Private
  <2>5. \A u \in Thread \ {t} : Private(u)' = Private(u) /\ c \notin
     Private(u)
    BY <2>1, <2>3, <2>4 DEF Private
  <2>6. \A x \in Conn : x # c => conn'[x] = conn[x]
    BY <2>3
  <2>. QED BY <2>1, <2>4, <2>5, <2>6 DEF Objects
<1>. QED BY <1>1, <1>2, <1>3, <1>4, <1>5, <1>6, <1>7, <1>8, <1>9, <1>10,
       <1>11, <1>12, <1>13 DEF Next, Step, AcquireStep, ReleaseStep,
       CloseStep, Environment

-----------------------------------------------------------------------------
(* Every step keeps inUse the number of entries that are not available. *)
LEMMA InUseStep ==
  ASSUME IInv, [Next]_vars
  PROVE  (inUse = Cardinality(Leased))'
<1>. USE DEF Goto, Return
<1>. /\ inUse = Cardinality(Leased) /\ inUse \in Nat
     /\ IsFiniteSet(Leased) /\ Cardinality(Leased) \in Nat
  BY FiniteCounts DEF IInv, TypeOK, Counters
<1>1. ASSUME NEW t \in Thread,
             Acquire(t) \/ EvictEnd(t) \/ EvictRelock(t) \/ PingRelock(t) \/
             WakeUp(t) \/ Close(t) \/ Destroy(t) \/ CloseRelock(t) \/
             GiveUp(t) \/ Wait(t) \/ Reserve(t)
      PROVE  (inUse = Cardinality(Leased))'
  <2>1. UNCHANGED <<entries, available, inUse>>
    BY <1>1 DEF Acquire, EvictEnd, EvictRelock, PingRelock, WakeUp, Close,
       Destroy, CloseRelock, GiveUp, Wait, Reserve, vars, poolVars
  <2>. QED BY <2>1 DEF Leased
<1>2. ASSUME NEW t \in Thread,
             CloseEnd(t) \/ AcquireRefused(t) \/ DeadlinePasses(t) \/
             Ping(t) \/ ReleaseCheck(t) \/ ResetSession(t) \/
             ReleaseNotify(t) \/ ReleaseEnd(t) \/ TimeOut(t) \/ (\E u \in
             Thread : MoveLease(t, u)) \/ Disconnect(t) \/
             HolderDisconnects(t)
      PROVE  (inUse = Cardinality(Leased))'
  <2>1. UNCHANGED <<entries, available, inUse>>
    BY <1>2 DEF CloseEnd, AcquireRefused, DeadlinePasses, Ping,
       ReleaseCheck, ResetSession, ReleaseNotify, ReleaseEnd, TimeOut,
       MoveLease, Disconnect, HolderDisconnects, vars, poolVars
  <2>. QED BY <2>1 DEF Leased
<1>3. ASSUME NEW t \in Thread,
             PingAccept(t) \/ Connect(t) \/ ConnectFailed(t) \/ Release(t)
      PROVE  (inUse = Cardinality(Leased))'
  <2>1. UNCHANGED <<entries, available, inUse>>
    BY <1>3 DEF PingAccept, Connect, ConnectFailed, Release, vars, poolVars
  <2>. QED BY <2>1 DEF Leased
<1>4. ASSUME Break \/ IdleTimePasses \/ LifetimePasses \/ Destroyed \/
             UNCHANGED vars
      PROVE  (inUse = Cardinality(Leased))'
  <2>1. UNCHANGED <<entries, available, inUse>>
    BY <1>4 DEF Break, IdleTimePasses, LifetimePasses, Destroyed, vars,
       poolVars
  <2>. QED BY <2>1 DEF Leased
<1>5. ASSUME NEW t \in Thread,
             EvictScan(t)
      PROVE  (inUse = Cardinality(Leased))'
  <2>1. UNCHANGED inUse
    BY <1>5 DEF EvictScan
  <2>2. CASE UNCHANGED <<entries, available>>
    BY <2>1, <2>2 DEF Leased
  <2>3. CASE ~UNCHANGED <<entries, available>>
    <3>1. scan[t] \in 1..Len(available)
      BY <1>5, LenProperties DEF EvictScan, IInv, TypeOK
    <3>2. PICK k \in 1..Len(available) :
            /\ available' = RemoveAt(available, k)
            /\ entries' = entries \ {available[k]}
      BY <1>5, <2>3, <3>1 DEF EvictScan
    <3>3. /\ ToSet(available') = ToSet(available) \ {available[k]}
          /\ available[k] \in ToSet(available)
      BY <3>2, DequeFacts
    <3>4. Leased' = Leased
      BY <3>2, <3>3 DEF Leased
    <3>. QED BY <2>1, <3>4
  <2>. QED BY <2>2, <2>3
<1>6. ASSUME NEW t \in Thread,
             CloseOne(t)
      PROVE  (inUse = Cardinality(Leased))'
  <2>1. /\ available # <<>> /\ available' = Tail(available)
        /\ entries' = entries \ {Head(available)} /\ inUse' = inUse
    BY <1>6 DEF CloseOne
  <2>2. /\ ToSet(available') = ToSet(available) \ {Head(available)}
        /\ Head(available) \in ToSet(available)
    BY <2>1, DequeFacts
  <2>3. Leased' = Leased
    BY <2>1, <2>2 DEF Leased
  <2>. QED BY <2>1, <2>3
<1>7. ASSUME NEW t \in Thread,
             TakeAvailable(t)
      PROVE  (inUse = Cardinality(Leased))'
  <2>. DEFINE c == Head(available)
  <2>1. /\ available # <<>> /\ available' = Tail(available)
        /\ UNCHANGED entries /\ inUse' = inUse + 1
    BY <1>7 DEF TakeAvailable
  <2>2. /\ ToSet(available') = ToSet(available) \ {c}
        /\ c \in ToSet(available) /\ c \in entries
    BY <2>1, DequeFacts DEF IInv, Owners
  <2>3. Leased' = Leased \cup {c} /\ c \notin Leased
    BY <2>1, <2>2 DEF Leased
  <2>. QED BY <2>1, <2>3, FS_AddElement
<1>8. ASSUME NEW t \in Thread,
             AddEntry(t)
      PROVE  (inUse = Cardinality(Leased))'
  <2>. DEFINE c == entry[t]
  <2>1. /\ UNCHANGED available /\ entries' = entries \cup {c}
        /\ inUse' = inUse + 1 /\ pc[t] = "connected"
    BY <1>8 DEF AddEntry
  <2>2. c \notin entries /\ ToSet(available) \subseteq entries
    BY <2>1 DEF IInv, Objects, Private, Owners
  <2>3. Leased' = Leased \cup {c} /\ c \notin Leased
    BY <2>1, <2>2 DEF Leased
  <2>. QED BY <2>1, <2>3, FS_AddElement
<1>9. ASSUME NEW t \in Thread,
             PingReject(t)
      PROVE  (inUse = Cardinality(Leased))'
  <2>. DEFINE c == entry[t]
  <2>1. /\ UNCHANGED available /\ entries' = entries \ {c}
        /\ inUse' = inUse - 1 /\ pc[t] = "pingBad"
    BY <1>9 DEF PingReject
  <2>2. c \in Leased
    BY <2>1, PositiveCounters DEF Working
  <2>3. Leased' = Leased \ {c}
    BY <2>1, <2>2 DEF Leased
  <2>. QED BY <2>1, <2>2, <2>3, FS_RemoveElement
<1>10. ASSUME NEW t \in Thread,
              ReleaseLocked(t)
       PROVE  (inUse = Cardinality(Leased))'
  <2>. DEFINE c == entry[t]
  <2>1. inUse' = inUse - 1 /\ pc[t] \in {"return", "discard"}
    BY <1>10 DEF ReleaseLocked
  <2>2. c \in Leased /\ c \in Conn
    BY <2>1, PositiveCounters DEF Working
  <2>3. Leased' = Leased \ {c}
    <3>1. CASE entries' = entries \ {c} /\ UNCHANGED available
      BY <3>1, <2>2 DEF Leased
    <3>2. CASE available' = Append(available, c) /\ UNCHANGED entries
      <4>1. ToSet(available') = ToSet(available) \cup {c}
        BY <3>2, <2>2, AppendFacts DEF Leased, IInv, TypeOK, Owners
      <4>. QED BY <3>2, <4>1 DEF Leased
    <3>. QED BY <1>10, <3>1, <3>2 DEF ReleaseLocked
  <2>. QED BY <2>1, <2>2, <2>3, FS_RemoveElement
<1>. QED BY <1>1, <1>2, <1>3, <1>4, <1>5, <1>6, <1>7, <1>8, <1>9, <1>10 DEF
       Next, Step, AcquireStep, ReleaseStep, CloseStep, Environment

Creators == {t \in Thread : pc[t] \in Creating}

LEMMA CreatorsSame ==
  ASSUME pending = Cardinality(Creators), UNCHANGED pending,
         \A u \in Thread : pc'[u] \in Creating <=> pc[u] \in Creating
  PROVE  (pending = Cardinality(Creators))'
<1>1. Creators' = Creators
  BY DEF Creators
<1>. QED BY <1>1

(* Every step keeps pending the number of threads creating a connection. *)
LEMMA PendingStep ==
  ASSUME IInv, [Next]_vars
  PROVE  (pending = Cardinality(Creators))'
<1>. USE DEF Goto, Return
<1>. /\ pending = Cardinality(Creators) /\ pending \in Nat
     /\ IsFiniteSet(Creators) /\ Cardinality(Creators) \in Nat
     /\ pc \in [Thread -> PC]
  BY FiniteCounts DEF IInv, TypeOK, Counters, Creators
<1>1. ASSUME NEW t \in Thread,
             Acquire(t) \/ EvictEnd(t) \/ EvictRelock(t) \/ PingRelock(t) \/
             WakeUp(t) \/ Close(t) \/ Destroy(t) \/ CloseRelock(t) \/
             GiveUp(t) \/ Wait(t)
      PROVE  (pending = Cardinality(Creators))'
  <2>1. UNCHANGED pending
    BY <1>1 DEF Acquire, EvictEnd, EvictRelock, PingRelock, WakeUp, Close,
       Destroy, CloseRelock, GiveUp, Wait, vars, poolVars
  <2>2. \A u \in Thread : pc'[u] \in Creating <=> pc[u] \in Creating
    BY <1>1 DEF Acquire, EvictEnd, EvictRelock, PingRelock, WakeUp, Close,
       Destroy, CloseRelock, GiveUp, Wait, vars, callVars, Creating
  <2>. QED BY <2>1, <2>2, CreatorsSame
<1>2. ASSUME NEW t \in Thread,
             CloseEnd(t) \/ AcquireRefused(t) \/ DeadlinePasses(t) \/
             Ping(t) \/ ReleaseCheck(t) \/ ResetSession(t) \/
             ReleaseNotify(t) \/ ReleaseEnd(t) \/ TimeOut(t) \/ (\E u \in
             Thread : MoveLease(t, u)) \/ Disconnect(t) \/
             HolderDisconnects(t)
      PROVE  (pending = Cardinality(Creators))'
  <2>1. UNCHANGED pending
    BY <1>2 DEF CloseEnd, AcquireRefused, DeadlinePasses, Ping,
       ReleaseCheck, ResetSession, ReleaseNotify, ReleaseEnd, TimeOut,
       MoveLease, Disconnect, HolderDisconnects, vars, poolVars
  <2>2. \A u \in Thread : pc'[u] \in Creating <=> pc[u] \in Creating
    BY <1>2 DEF CloseEnd, AcquireRefused, DeadlinePasses, Ping,
       ReleaseCheck, ResetSession, ReleaseNotify, ReleaseEnd, TimeOut,
       MoveLease, Disconnect, HolderDisconnects, vars, callVars, Creating
  <2>. QED BY <2>1, <2>2, CreatorsSame
<1>3. ASSUME Break \/ IdleTimePasses \/ LifetimePasses \/ Destroyed \/
             UNCHANGED vars
      PROVE  (pending = Cardinality(Creators))'
  <2>1. UNCHANGED pending
    BY <1>3 DEF Break, IdleTimePasses, LifetimePasses, Destroyed, vars,
       poolVars
  <2>2. \A u \in Thread : pc'[u] \in Creating <=> pc[u] \in Creating
    BY <1>3 DEF Break, IdleTimePasses, LifetimePasses, Destroyed, vars,
       callVars, Creating
  <2>. QED BY <2>1, <2>2, CreatorsSame
<1>4. ASSUME NEW t \in Thread,
             EvictScan(t) \/ CloseOne(t) \/ TakeAvailable(t) \/
             PingAccept(t) \/ PingReject(t) \/ Connect(t) \/ Release(t) \/
             ReleaseLocked(t)
      PROVE  (pending = Cardinality(Creators))'
  <2>1. UNCHANGED pending
    BY <1>4 DEF EvictScan, CloseOne, TakeAvailable, PingAccept, PingReject,
       Connect, Release, ReleaseLocked, vars, poolVars
  <2>2. \A u \in Thread : pc'[u] \in Creating <=> pc[u] \in Creating
    BY <1>4 DEF EvictScan, CloseOne, TakeAvailable, PingAccept, PingReject,
       Connect, Release, ReleaseLocked, vars, callVars, Creating
  <2>. QED BY <2>1, <2>2, CreatorsSame
<1>5. ASSUME NEW t \in Thread,
             Reserve(t)
      PROVE  (pending = Cardinality(Creators))'
  <2>1. /\ pc[t] = "take" /\ pc' = [pc EXCEPT ![t] = "connect"]
        /\ pending' = pending + 1
    BY <1>5 DEF Reserve
  <2>2. Creators' = Creators \cup {t} /\ t \notin Creators
    BY <2>1 DEF Creating, Creators
  <2>. QED BY <2>1, <2>2, FS_AddElement
<1>6. ASSUME NEW t \in Thread,
             AddEntry(t)
      PROVE  (pending = Cardinality(Creators))'
  <2>1. /\ pc[t] = "connected" /\ pc' = [pc EXCEPT ![t] = "idle"]
        /\ pending' = pending - 1
    BY <1>6 DEF AddEntry
  <2>2. Creators' = Creators \ {t} /\ t \in Creators
    BY <2>1 DEF Creating, Creators
  <2>. QED BY <2>1, <2>2, FS_RemoveElement
<1>7. ASSUME NEW t \in Thread,
             ConnectFailed(t)
      PROVE  (pending = Cardinality(Creators))'
  <2>1. /\ pc[t] = "refused" /\ pc' = [pc EXCEPT ![t] = "idle"]
        /\ pending' = pending - 1
    BY <1>7 DEF ConnectFailed
  <2>2. Creators' = Creators \ {t} /\ t \in Creators
    BY <2>1 DEF Creating, Creators
  <2>. QED BY <2>1, <2>2, FS_RemoveElement
<1>. QED BY <1>1, <1>2, <1>3, <1>4, <1>5, <1>6, <1>7 DEF Next, Step,
       AcquireStep, ReleaseStep, CloseStep, Environment

(* A connection is reserved only while there is room for it. *)
LEMMA CapacityStep ==
  ASSUME IInv, [Next]_vars
  PROVE  Capacity'
<1>. USE DEF Capacity
<1>. /\ Capacity /\ MaxSize \in Nat /\ pending \in Nat
     /\ IsFiniteSet(entries) /\ Cardinality(entries) \in Nat
  BY FiniteCounts, SizesAssumption DEF IInv, TypeOK
<1>1. ASSUME NEW t \in Thread,
             Acquire(t) \/ EvictEnd(t) \/ EvictRelock(t) \/ PingRelock(t) \/
             WakeUp(t) \/ Close(t) \/ Destroy(t) \/ CloseRelock(t) \/
             GiveUp(t) \/ Wait(t)
      PROVE  Capacity'
  <2>1. UNCHANGED pending /\ entries' \subseteq entries
    BY <1>1 DEF Acquire, EvictEnd, EvictRelock, PingRelock, WakeUp, Close,
       Destroy, CloseRelock, GiveUp, Wait, vars, poolVars
  <2>2. Cardinality(entries') <= Cardinality(entries) /\
     Cardinality(entries') \in Nat
    BY <2>1, FS_Subset, FS_CardinalityType
  <2>. QED BY <2>1, <2>2
<1>2. ASSUME NEW t \in Thread,
             CloseEnd(t) \/ AcquireRefused(t) \/ DeadlinePasses(t) \/
             Ping(t) \/ ReleaseCheck(t) \/ ResetSession(t) \/
             ReleaseNotify(t) \/ ReleaseEnd(t) \/ TimeOut(t) \/ (\E u \in
             Thread : MoveLease(t, u)) \/ Disconnect(t) \/
             HolderDisconnects(t)
      PROVE  Capacity'
  <2>1. UNCHANGED pending /\ entries' \subseteq entries
    BY <1>2 DEF CloseEnd, AcquireRefused, DeadlinePasses, Ping,
       ReleaseCheck, ResetSession, ReleaseNotify, ReleaseEnd, TimeOut,
       MoveLease, Disconnect, HolderDisconnects, vars, poolVars
  <2>2. Cardinality(entries') <= Cardinality(entries) /\
     Cardinality(entries') \in Nat
    BY <2>1, FS_Subset, FS_CardinalityType
  <2>. QED BY <2>1, <2>2
<1>3. ASSUME Break \/ IdleTimePasses \/ LifetimePasses \/ Destroyed \/
             UNCHANGED vars
      PROVE  Capacity'
  <2>1. UNCHANGED pending /\ entries' \subseteq entries
    BY <1>3 DEF Break, IdleTimePasses, LifetimePasses, Destroyed, vars,
       poolVars
  <2>2. Cardinality(entries') <= Cardinality(entries) /\
     Cardinality(entries') \in Nat
    BY <2>1, FS_Subset, FS_CardinalityType
  <2>. QED BY <2>1, <2>2
<1>4. ASSUME NEW t \in Thread,
             EvictScan(t) \/ CloseOne(t) \/ TakeAvailable(t) \/
             PingAccept(t) \/ PingReject(t) \/ Connect(t) \/ Release(t) \/
             ReleaseLocked(t)
      PROVE  Capacity'
  <2>1. UNCHANGED pending /\ entries' \subseteq entries
    BY <1>4 DEF EvictScan, CloseOne, TakeAvailable, PingAccept, PingReject,
       Connect, Release, ReleaseLocked, vars, poolVars
  <2>2. Cardinality(entries') <= Cardinality(entries) /\
     Cardinality(entries') \in Nat
    BY <2>1, FS_Subset, FS_CardinalityType
  <2>. QED BY <2>1, <2>2
<1>5. ASSUME NEW t \in Thread,
             Reserve(t)
      PROVE  Capacity'
  BY <1>5 DEF Reserve, HasCapacity
<1>6. ASSUME NEW t \in Thread,
             AddEntry(t)
      PROVE  Capacity'
  <2>1. pending' = pending - 1 /\ entries' = entries \cup {entry[t]}
    BY <1>6 DEF AddEntry
  <2>2. /\ Cardinality(entries') <= Cardinality(entries) + 1
        /\ Cardinality(entries') \in Nat
    <3>1. CASE entry[t] \in entries
      <4>1. entries' = entries
        BY <2>1, <3>1
      <4>. QED BY <4>1
    <3>2. CASE entry[t] \notin entries
      BY <2>1, <3>2, FS_AddElement
    <3>. QED BY <3>1, <3>2
  <2>. QED BY <2>1, <2>2
<1>7. ASSUME NEW t \in Thread,
             ConnectFailed(t)
      PROVE  Capacity'
  <2>1. pending' = pending - 1 /\ entries' = entries
    BY <1>7 DEF ConnectFailed
  <2>. QED BY <2>1
<1>. QED BY <1>1, <1>2, <1>3, <1>4, <1>5, <1>6, <1>7 DEF Next, Step,
       AcquireStep, ReleaseStep, CloseStep, Environment

-----------------------------------------------------------------------------
(* The constructor establishes the inductive invariant. *)
LEMMA InitIInv == Init => IInv
<1>. SUFFICES ASSUME Init PROVE IInv
  OBVIOUS
<1>1. /\ MinSize \in Nat /\ MinSize <= MaxSize /\ MaxSize \in Nat
      /\ available \in [1..MinSize -> Conn] /\ IsInjective(available)
  BY SizesAssumption DEF Init
<1>2. available \in Seq(Conn) /\ Len(available) = MinSize
  BY <1>1, SeqDef, LenProperties
<1>3. /\ entries = ToSet(available) /\ entries \subseteq Conn
      /\ IsFiniteSet(entries) /\ Cardinality(entries) = MinSize
  BY <1>1, <1>2, ElementsByPosition, InjectiveLength DEF Init
<1>4. TypeOK
  <2>1. pc \in [Thread -> PC] /\ conn \in [Conn -> ConnState]
    BY DEF Init, PC, Unlocked, ConnState
  <2>2. /\ entry \in [Thread -> Conn \cup {NoConn}]
        /\ scan \in [Thread -> Nat \ {0}]
    BY DEF Init
  <2>3. /\ dying \in [Thread -> SUBSET Conn]
        /\ held \in [Thread -> SUBSET Conn]
        /\ late \in [Thread -> BOOLEAN]
    BY DEF Init
  <2>4. breaks \in 0..MaxBreaks
    <3>1. breaks = 0
      BY DEF Init
    <3>. QED BY <3>1, BoundsAssumption
  <2>5. /\ inUse \in Nat /\ pending \in Nat
        /\ closed \in BOOLEAN /\ alive \in BOOLEAN
        /\ mutex \in Thread \cup {NoThread} /\ waiting \in SUBSET Thread
        /\ idle \in SUBSET Conn /\ aged \in SUBSET Conn
        /\ dirty \in SUBSET Conn
    BY DEF Init
  <2>. QED BY <1>2, <1>3, <2>1, <2>2, <2>3, <2>4, <2>5 DEF TypeOK
<1>5. MutexOK /\ EntryOK /\ DyingOK
  BY ThreadAssumption DEF Init, MutexOK, EntryOK, DyingOK, Locked, Working
<1>6. Leased = {} /\ \A t \in Thread : Busy(t) = {} /\ Private(t) = {}
  BY <1>3 DEF Init, Leased, Busy, Private
<1>7. Owners
  BY <1>1, <1>3, <1>6, ConnAssumption DEF Init, Owners
<1>8. Objects
  BY <1>3, <1>6 DEF Init, Objects
<1>9. Counters
  <2>1. {t \in Thread : pc[t] \in Creating} = {}
    BY DEF Init, Creating
  <2>. QED BY <2>1, <1>6, FS_EmptySet DEF Init, Counters
<1>10. Capacity
  BY <1>1, <1>3 DEF Init, Capacity
<1>. QED BY <1>4, <1>5, <1>7, <1>8, <1>9, <1>10 DEF IInv

(* No step leaves the inductive invariant. *)
LEMMA StepIInv == IInv /\ [Next]_vars => IInv'
<1>. SUFFICES ASSUME IInv, [Next]_vars PROVE IInv'
  OBVIOUS
<1>1. TypeOK' /\ MutexOK' /\ EntryOK' /\ DyingOK'
  BY TypeStep, MutexStep, EntryStep, DyingStep
<1>2. Owners' /\ Objects' /\ Capacity'
  BY OwnersStep, ObjectsStep, CapacityStep
<1>3. Counters'
  BY InUseStep, PendingStep DEF Counters, Creators
<1>. QED BY <1>1, <1>2, <1>3 DEF IInv

(* The inductive invariant holds of every behaviour. *)
THEOREM SpecIInv == Spec => []IInv
BY InitIInv, StepIInv, PTL DEF Spec

(* AttachmentPool's fields and every call's locals keep their types: in    *)
(* particular inUse and pending, unsigned in the code, never wrap.         *)
THEOREM TypeCorrect == Spec => []TypeOK
BY SpecIInv, PTL DEF IInv

(* AttachmentPool never owns, or is about to own, more than getMaxSize()   *)
(* connections: acquireImpl's reservation and its release are balanced.    *)
THEOREM CapacityHolds == Spec => []Capacity
BY SpecIInv, PTL DEF IInv

(* An entry is in the deque, or with one thread, or being destroyed: no    *)
(* lease is shared, and no thread works on an entry the pool has let go.   *)
THEOREM OneOwnerHolds == Spec => []OneOwner
<1>1. IInv => OneOwner
  <2>. SUFFICES ASSUME IInv PROVE OneOwner
    OBVIOUS
  <2>1. entries = ToSet(available) \cup AllBusy
    BY DEF IInv, Owners, Leased, AllBusy
  <2>2. ASSUME NEW t \in Thread
        PROVE  /\ Busy(t) \cap ToSet(available) = {}
               /\ entry[t] \notin held[t]
               /\ dying[t] \cap entries = {}
               /\ pc[t] = "connected" => entry[t] \notin entries
    BY DEF IInv, Owners, Leased, Objects, Private
  <2>3. ASSUME NEW t \in Thread, NEW u \in Thread \ {t}
        PROVE  Busy(t) \cap Busy(u) = {} /\ dying[t] \cap dying[u] = {}
    BY DEF IInv, Owners, Objects, Private
  <2>. QED BY <2>1, <2>2, <2>3 DEF IInv, Owners, OneOwner
<1>. QED BY <1>1, SpecIInv, PTL

(* size() is availableCount() plus inUseCount() whenever the mutex is free *)
(* (and whenever it is not), and both counters count what they should.     *)
THEOREM AccountingHolds == Spec => []Accounting
<1>1. IInv => Accounting
  <2>. SUFFICES ASSUME IInv PROVE Accounting
    OBVIOUS
  <2>1. AllBusy = Leased
    BY DEF IInv, Owners, Leased, AllBusy
  <2>2. inUse = Cardinality(Leased) /\ inUse \in Nat
    BY DEF IInv, Counters, TypeOK
  <2>3. /\ IsFiniteSet(ToSet(available))
        /\ Cardinality(ToSet(available)) = Len(available)
        /\ Len(available) \in Nat
    BY InjectiveLength, LenProperties DEF IInv, TypeOK, Owners
  <2>4. /\ IsFiniteSet(Leased) /\ Leased \cap ToSet(available) = {}
        /\ entries = Leased \cup ToSet(available)
    BY FiniteCounts DEF IInv, Owners, Leased
  <2>5. /\ Cardinality(Leased \cap ToSet(available)) = 0
        /\ Cardinality(Leased) \in Nat
    BY <2>4, FS_EmptySet, FS_CardinalityType
  <2>6. Cardinality(entries)
          = Cardinality(Leased) + Cardinality(ToSet(available))
            - Cardinality(Leased \cap ToSet(available))
    BY <2>3, <2>4, FS_Union
  <2>7. Cardinality(entries) = Len(available) + inUse
    BY <2>2, <2>3, <2>5, <2>6
  <2>. QED BY <2>1, <2>2, <2>7 DEF IInv, Counters, Accounting
<1>. QED BY <1>1, SpecIInv, PTL

InClose == {"closing", "drained"}

(* Every step keeps a closed pool drained, or somebody draining it. *)
LEMMA DrainedStep ==
  ASSUME TypeOK, ClosedStaysDrained, [Next]_vars
  PROVE  ClosedStaysDrained'
<1>. USE DEF Goto, Return, InClose
<1>. /\ available \in Seq(Conn) /\ pc \in [Thread -> PC]
     /\ scan \in [Thread -> Nat \ {0}]
     /\ closed /\ available # <<>> => \E u \in Thread : pc[u] \in InClose
  BY DEF TypeOK, ClosedStaysDrained
<1>1. ASSUME NEW t \in Thread,
             Acquire(t) \/ EvictEnd(t) \/ EvictRelock(t) \/ PingRelock(t) \/
             WakeUp(t) \/ CloseRelock(t) \/ GiveUp(t) \/ Wait(t) \/
             Reserve(t)
      PROVE  ClosedStaysDrained'
  <2>1. UNCHANGED available /\ (closed' => closed)
    BY <1>1 DEF Acquire, EvictEnd, EvictRelock, PingRelock, WakeUp,
       CloseRelock, GiveUp, Wait, Reserve, vars, poolVars
  <2>2. \A u \in Thread : pc[u] \in InClose => pc'[u] \in InClose
    BY <1>1 DEF Acquire, EvictEnd, EvictRelock, PingRelock, WakeUp,
       CloseRelock, GiveUp, Wait, Reserve, vars, callVars
  <2>. QED BY <2>1, <2>2 DEF ClosedStaysDrained
<1>2. ASSUME NEW t \in Thread,
             AcquireRefused(t) \/ DeadlinePasses(t) \/ Ping(t) \/
             ReleaseCheck(t) \/ ResetSession(t) \/ ReleaseNotify(t) \/
             ReleaseEnd(t) \/ TimeOut(t) \/ (\E u \in Thread : MoveLease(t,
             u)) \/ Disconnect(t) \/ HolderDisconnects(t) \/ PingAccept(t)
             \/ PingReject(t) \/ Connect(t) \/ ConnectFailed(t) \/
             AddEntry(t) \/ Release(t)
      PROVE  ClosedStaysDrained'
  <2>1. UNCHANGED available /\ (closed' => closed)
    BY <1>2 DEF AcquireRefused, DeadlinePasses, Ping, ReleaseCheck,
       ResetSession, ReleaseNotify, ReleaseEnd, TimeOut, MoveLease,
       Disconnect, HolderDisconnects, PingAccept, PingReject, Connect,
       ConnectFailed, AddEntry, Release, vars, poolVars
  <2>2. \A u \in Thread : pc[u] \in InClose => pc'[u] \in InClose
    BY <1>2 DEF AcquireRefused, DeadlinePasses, Ping, ReleaseCheck,
       ResetSession, ReleaseNotify, ReleaseEnd, TimeOut, MoveLease,
       Disconnect, HolderDisconnects, PingAccept, PingReject, Connect,
       ConnectFailed, AddEntry, Release, vars, callVars
  <2>. QED BY <2>1, <2>2 DEF ClosedStaysDrained
<1>3. ASSUME Break \/ IdleTimePasses \/ LifetimePasses \/ Destroyed \/
             UNCHANGED vars
      PROVE  ClosedStaysDrained'
  <2>1. UNCHANGED available /\ (closed' => closed)
    BY <1>3 DEF Break, IdleTimePasses, LifetimePasses, Destroyed, vars,
       poolVars
  <2>2. \A u \in Thread : pc[u] \in InClose => pc'[u] \in InClose
    BY <1>3 DEF Break, IdleTimePasses, LifetimePasses, Destroyed, vars,
       callVars
  <2>. QED BY <2>1, <2>2 DEF ClosedStaysDrained
<1>4. ASSUME NEW t \in Thread,
             Close(t) \/ Destroy(t)
      PROVE  ClosedStaysDrained'
  <2>1. pc'[t] = "closing"
    BY <1>4 DEF Close, Destroy
  <2>. QED BY <2>1 DEF ClosedStaysDrained
<1>5. ASSUME NEW t \in Thread,
             CloseOne(t)
      PROVE  ClosedStaysDrained'
  <2>1. pc'[t] = "drained"
    BY <1>5 DEF CloseOne
  <2>. QED BY <2>1 DEF ClosedStaysDrained
<1>6. ASSUME NEW t \in Thread,
             CloseEnd(t)
      PROVE  ClosedStaysDrained'
  <2>1. available' = <<>>
    BY <1>6 DEF CloseEnd, poolVars
  <2>. QED BY <2>1 DEF ClosedStaysDrained
<1>7. ASSUME NEW t \in Thread,
             EvictScan(t) \/ TakeAvailable(t)
      PROVE  ClosedStaysDrained'
  <2>1. closed' = closed /\ available # <<>>
    <3>1. CASE EvictScan(t)
      <4>1. 1 <= Len(available)
        BY <3>1, LenProperties DEF EvictScan
      <4>. QED BY <3>1, <4>1 DEF EvictScan
    <3>2. CASE TakeAvailable(t)
      BY <3>2 DEF TakeAvailable
    <3>. QED BY <1>7, <3>1, <3>2
  <2>2. \A u \in Thread : pc[u] \in InClose => pc'[u] \in InClose
    BY <1>7 DEF EvictScan, TakeAvailable
  <2>. QED BY <2>1, <2>2 DEF ClosedStaysDrained
<1>8. ASSUME NEW t \in Thread,
             ReleaseLocked(t)
      PROVE  ClosedStaysDrained'
  <2>1. closed' = closed /\ (closed => available' = available)
    BY <1>8 DEF ReleaseLocked, MustDiscard
  <2>2. \A u \in Thread : pc[u] \in InClose => pc'[u] \in InClose
    BY <1>8 DEF ReleaseLocked
  <2>. QED BY <2>1, <2>2 DEF ClosedStaysDrained
<1>. QED BY <1>1, <1>2, <1>3, <1>4, <1>5, <1>6, <1>7, <1>8 DEF Next, Step,
       AcquireStep, ReleaseStep, CloseStep, Environment

(* After close() nothing is put back in the deque, whatever was in         *)
(* progress when it ran: the check of `closed' under the lock in release() *)
(* is enough, although the one before it is not protected.                 *)
THEOREM ClosedStaysDrainedHolds == Spec => []ClosedStaysDrained
<1>1. Init => ClosedStaysDrained
  BY DEF Init, ClosedStaysDrained
<1>2. TypeOK /\ ClosedStaysDrained /\ [Next]_vars => ClosedStaysDrained'
  BY DrainedStep
<1>. QED BY <1>1, <1>2, TypeCorrect, PTL DEF Spec

-----------------------------------------------------------------------------
(* What the pool promises its users. *)


Attached == {"good", "broken"}

(* A reset that the code does not skip has cleaned the entry that a        *)
(* release is about to put back.  A reset is skipped only if the release   *)
(* has seen the pool closed, or the attachment is: then it is discarded.   *)
Returnable ==
  \A t \in Thread :
    pc[t] = "return" /\ ~closed /\ conn[entry[t]] # "closed" /\ ResetOnRelease =>
      entry[t] \notin dirty

UsableInv == PooledIsUsable /\ Returnable

(* Steps that put nothing in the deque, and bring no thread to "return".   *)
LEMMA UsableFrame ==
  ASSUME UsableInv, closed => closed',
         \A c \in ToSet(available') :
            /\ c \in ToSet(available)
            /\ conn[c] \in Attached => conn'[c] \in Attached
            /\ c \in dirty' => c \in dirty,
         \A t \in Thread : pc'[t] = "return" =>
            /\ pc[t] = "return" /\ entry'[t] = entry[t]
            /\ conn[entry[t]] = "closed" => conn'[entry[t]] = "closed"
            /\ entry[t] \in dirty' => entry[t] \in dirty
  PROVE  UsableInv'
<1>1. PooledIsUsable'
  BY DEF UsableInv, PooledIsUsable, Attached
<1>2. Returnable'
  BY DEF UsableInv, Returnable
<1> QED BY <1>1, <1>2 DEF UsableInv

(* Where an entry is whose release is under way: not in the deque, with    *)
(* nobody else, and it is neither being destroyed nor created.             *)
LEMMA ReturningEntry ==
  ASSUME IInv, NEW t \in Thread, pc[t] \in Working \ {"connected"}
  PROVE  /\ entry[t] \in Conn /\ entry[t] \in entries \ ToSet(available)
         /\ conn[entry[t]] # "none"
         /\ \A u \in Thread : entry[t] \notin dying[u] /\ entry[t] \notin held[u]
         /\ \A u \in Thread : u # t => entry[t] # entry[u]
<1>1. entry[t] \in Leased /\ entry[t] \in Conn
  BY PositiveCounters
<1>2. entry[t] # NoConn /\ entry[t] \in Busy(t)
  BY <1>1, ConnAssumption DEF Busy, IInv, EntryOK
<1>3. conn[entry[t]] # "none" /\ \A u \in Thread : entry[t] \notin Private(u)
  BY <1>1 DEF IInv, Objects, Leased
<1>4. \A u \in Thread : u # t => entry[t] \notin Busy(u)
  BY <1>2 DEF IInv, Owners
<1>5. \A u \in Thread : entry[t] \notin dying[u] /\ entry[t] \notin held[u]
  BY <1>3, <1>4 DEF Private, Busy, IInv, Owners
<1>6. \A u \in Thread : u # t => entry[t] # entry[u]
  BY <1>2, <1>3, <1>4 DEF Private, Busy
<1> QED BY <1>1, <1>3, <1>5, <1>6 DEF Leased

(* The deque, the handles and the sessions stay as they are.               *)
LEMMA UsableQuiet ==
  ASSUME IInv, UsableInv, NEW t \in Thread,
         \/ AcquireRefused(t) \/ Acquire(t) \/ EvictEnd(t) \/ EvictRelock(t)
         \/ Ping(t) \/ PingReject(t) \/ PingRelock(t) \/ Reserve(t)
         \/ ConnectFailed(t) \/ GiveUp(t) \/ Wait(t) \/ WakeUp(t) \/ TimeOut(t)
         \/ Release(t) \/ ReleaseNotify(t) \/ ReleaseEnd(t) \/ Close(t)
         \/ Destroy(t) \/ CloseRelock(t) \/ CloseEnd(t) \/ DeadlinePasses(t)
         \/ \E u \in Thread : MoveLease(t, u)
  PROVE  UsableInv'
<1>1. available' = available /\ conn' = conn /\ dirty' = dirty /\ (closed => closed')
  BY DEF AcquireRefused, Acquire, EvictEnd, EvictRelock, Ping, PingReject, PingRelock, Reserve,
     ConnectFailed, GiveUp, Wait, WakeUp, TimeOut, Release, ReleaseNotify, ReleaseEnd, Close,
     Destroy, CloseRelock, CloseEnd, DeadlinePasses, MoveLease, vars,
     poolVars, connVars
<1>2. pc \in [Thread -> PC] /\ entry \in [Thread -> Conn \cup {NoConn}]
  BY DEF IInv, TypeOK
<1>3. \A u \in Thread : pc'[u] = "return" => pc[u] = "return" /\ entry'[u] = entry[u]
  BY <1>2 DEF AcquireRefused, Acquire, EvictEnd, EvictRelock, Ping, PingReject, PingRelock, Reserve,
     ConnectFailed, GiveUp, Wait, WakeUp, TimeOut, Release, ReleaseNotify, ReleaseEnd, Close,
     Destroy, CloseRelock, CloseEnd, DeadlinePasses, MoveLease, vars,
     callVars, Goto, Return
<1> QED BY <1>1, <1>3, UsableFrame

(* Entries that leave the deque, to be leased, pinged or destroyed.        *)
LEMMA UsableLeave ==
  ASSUME IInv, UsableInv, NEW t \in Thread, EvictScan(t) \/ CloseOne(t) \/ TakeAvailable(t)
  PROVE  UsableInv'
<1>1. pc \in [Thread -> PC] /\ entry \in [Thread -> Conn \cup {NoConn}] /\ scan \in [Thread -> Nat \ {0}]
  BY DEF IInv, TypeOK
<1>2. CASE EvictScan(t)
  <2>1. scan[t] \in 1 .. Len(available)
    BY <1>1, <1>2, LenProperties DEF EvictScan, IInv, TypeOK
  <2>2. ToSet(available') \subseteq ToSet(available)
    BY <1>2, <2>1, DequeFacts DEF EvictScan
  <2> QED BY <1>2, <2>2, UsableFrame DEF EvictScan, connVars
<1>3. CASE CloseOne(t)
  <2>1. ToSet(available') \subseteq ToSet(available)
    BY <1>3, DequeFacts DEF CloseOne
  <2>2. \A u \in Thread : pc'[u] = "return" => pc[u] = "return"
    BY <1>1, <1>3 DEF CloseOne, Goto
  <2> QED BY <1>3, <2>1, <2>2, UsableFrame DEF CloseOne, connVars
<1>4. CASE TakeAvailable(t)
  <2>1. ToSet(available') = ToSet(available) \ {Head(available)} /\ Head(available) \in ToSet(available)
    BY <1>4, DequeFacts DEF TakeAvailable
  <2>2. dirty' \subseteq dirty \cup {Head(available)}
    BY <1>4 DEF TakeAvailable, Grant
  <2>3. \A u \in Thread : pc'[u] = "return" => pc[u] = "return" /\ entry'[u] = entry[u]
    BY <1>1, <1>4 DEF TakeAvailable, Goto, Return
  <2>4. \A u \in Thread : pc[u] = "return" => entry[u] # Head(available)
    BY <2>1, ReturningEntry DEF Working
  <2>5. conn' = conn /\ closed' = closed
    BY <1>4 DEF TakeAvailable
  <2> QED BY <2>1, <2>2, <2>3, <2>4, <2>5, UsableFrame
<1> QED BY <1>2, <1>3, <1>4

(* A lease on an entry that was pinged, or that is new.                    *)
LEMMA UsableGrant ==
  ASSUME IInv, UsableInv, NEW t \in Thread, PingAccept(t) \/ AddEntry(t)
  PROVE  UsableInv'
<1>1. pc \in [Thread -> PC] /\ entry \in [Thread -> Conn \cup {NoConn}]
  BY DEF IInv, TypeOK
<1>2. /\ dirty' = dirty \cup {entry[t]} /\ conn' = conn /\ available' = available /\ closed' = closed
      /\ pc[t] \in {"pingOk", "connected"}
  BY DEF PingAccept, AddEntry, Grant, Return, Goto, poolVars
<1>3. entry[t] \notin ToSet(available)
  <2>1. CASE pc[t] = "pingOk"
    BY <2>1, ReturningEntry DEF Working
  <2>2. CASE pc[t] = "connected"
    BY <2>2 DEF IInv, Objects, Private, Owners
  <2> QED BY <1>2, <2>1, <2>2
<1>4. \A u \in Thread : pc'[u] = "return" => pc[u] = "return" /\ u # t /\ entry'[u] = entry[u]
  BY <1>1, <1>2 DEF PingAccept, AddEntry, Return, Goto
<1>5. \A u \in Thread : pc[u] = "return" /\ u # t => entry[u] # entry[t]
  BY ReturningEntry DEF Working
<1> QED BY <1>2, <1>3, <1>4, <1>5, UsableFrame

(* Attaching, detaching and losing connections.                            *)
LEMMA UsableConn ==
  ASSUME IInv, UsableInv, NEW t \in Thread,
         Connect(t) \/ Disconnect(t) \/ HolderDisconnects(t)
  PROVE  UsableInv'
<1>1. /\ pc \in [Thread -> PC] /\ entry \in [Thread -> Conn \cup {NoConn}]
      /\ conn \in [Conn -> ConnState] /\ ToSet(available) \subseteq Conn
  BY ElementsByPosition DEF IInv, TypeOK
<1>2. available' = available /\ closed' = closed /\ dirty' \subseteq dirty
  BY DEF Connect, Disconnect, HolderDisconnects, Forget, poolVars
<1>3. \A u \in Thread : pc'[u] = "return" => pc[u] = "return" /\ entry'[u] = entry[u]
  BY <1>1 DEF Connect, Disconnect, HolderDisconnects, callVars, Goto
<1>4. \A c \in ToSet(available) : conn[c] \in Attached => conn'[c] \in Attached
  <2> SUFFICES ASSUME NEW c \in ToSet(available), conn[c] \in Attached PROVE conn'[c] \in Attached
    OBVIOUS
  <2>1. c \in entries /\ c \in Conn /\ \A u \in Thread : c \notin dying[u] /\ c \notin held[u]
    BY <1>1 DEF IInv, Objects, Owners, Leased, Busy, Private
  <2> QED BY <1>1, <2>1 DEF Connect, Disconnect, HolderDisconnects, Forget, Attached
<1>5. \A u \in Thread : pc[u] = "return" /\ conn[entry[u]] = "closed" => conn'[entry[u]] = "closed"
  <2> SUFFICES ASSUME NEW u \in Thread, pc[u] = "return", conn[entry[u]] = "closed"
               PROVE  conn'[entry[u]] = "closed"
    OBVIOUS
  <2>1. entry[u] \in Conn /\ \A w \in Thread : entry[u] \notin dying[w]
    BY ReturningEntry DEF Working
  <2> QED BY <1>1, <2>1 DEF Connect, Disconnect, HolderDisconnects, Forget
<1> QED BY <1>2, <1>3, <1>4, <1>5, UsableFrame

(* The clocks, the server that drops a connection, and a step of nobody.   *)
LEMMA UsableEnvironment ==
  ASSUME IInv, UsableInv,
         Break \/ IdleTimePasses \/ LifetimePasses \/ Destroyed \/ UNCHANGED vars
  PROVE  UsableInv'
<1>1. UNCHANGED <<available, closed, pc, entry, dirty>>
  BY DEF Break, IdleTimePasses, LifetimePasses, Destroyed, vars, poolVars, callVars, connVars
<1>2. conn \in [Conn -> ConnState] /\ ToSet(available) \subseteq Conn
  BY ElementsByPosition DEF IInv, TypeOK
<1>3. /\ \A c \in Conn : conn[c] \in Attached => conn'[c] \in Attached
      /\ \A c \in Conn : conn[c] = "closed" => conn'[c] = "closed"
  BY <1>2 DEF Break, IdleTimePasses, LifetimePasses, Destroyed, vars, connVars, Attached
<1>4. \A u \in Thread : pc[u] = "return" => entry[u] \in Conn
  BY ReturningEntry DEF Working
<1> QED BY <1>1, <1>2, <1>3, <1>4, UsableFrame

(* A release on its way, and the moment it puts its entry back.            *)
LEMMA UsableRelease ==
  ASSUME IInv, UsableInv, NEW t \in Thread, ReleaseCheck(t) \/ ResetSession(t) \/ ReleaseLocked(t)
  PROVE  UsableInv'
<1>1. /\ pc \in [Thread -> PC] /\ entry \in [Thread -> Conn \cup {NoConn}]
      /\ conn \in [Conn -> ConnState] /\ closed \in BOOLEAN
  BY DEF IInv, TypeOK
<1>2. CASE ReleaseCheck(t)
  <2>1. UNCHANGED <<available, closed, conn, dirty, entry>>
    BY <1>2 DEF ReleaseCheck, poolVars, connVars
  <2>2. PooledIsUsable'
    BY <2>1 DEF UsableInv, PooledIsUsable
  <2>3. \A u \in Thread \ {t} : pc'[u] = pc[u]
    BY <1>1, <1>2 DEF ReleaseCheck, Goto
  <2>4. pc'[t] = "return" => closed \/ ~ResetOnRelease \/ conn[entry[t]] = "closed"
    BY <1>1, <1>2 DEF ReleaseCheck, Goto, SeesClosed
  <2>5. Returnable'
    BY <2>1, <2>3, <2>4 DEF UsableInv, Returnable
  <2> QED BY <2>2, <2>5 DEF UsableInv
<1>3. CASE ResetSession(t)
  <2>1. UNCHANGED <<available, closed, conn, entry>> /\ dirty' \subseteq dirty
    BY <1>3 DEF ResetSession, poolVars
  <2>2. PooledIsUsable'
    BY <2>1 DEF UsableInv, PooledIsUsable
  <2>3. \A u \in Thread \ {t} : pc'[u] = pc[u]
    BY <1>1, <1>3 DEF ResetSession, Goto
  <2>4. pc'[t] = "return" => entry[t] \notin dirty'
    BY <1>1, <1>3 DEF ResetSession, Goto
  <2>5. Returnable'
    BY <2>1, <2>3, <2>4 DEF UsableInv, Returnable
  <2> QED BY <2>2, <2>5 DEF UsableInv
<1>4. CASE ReleaseLocked(t)
  <2>1. closed' = closed /\ UNCHANGED <<conn, dirty>> /\ pc[t] \in {"return", "discard"}
    BY <1>4 DEF ReleaseLocked, connVars
  <2>2. \A u \in Thread : pc'[u] = "return" => u # t /\ pc[u] = "return" /\ entry'[u] = entry[u]
    BY <1>1, <1>4 DEF ReleaseLocked
  <2>3. Returnable'
    BY <2>1, <2>2 DEF UsableInv, Returnable
  <2>4. CASE available' = available
    BY <2>1, <2>3, <2>4 DEF UsableInv, PooledIsUsable
  <2>5. CASE available' = Append(available, entry[t]) /\ ~MustDiscard(t)
    <3>1. entry[t] \in Conn /\ entry[t] \notin ToSet(available) /\ conn[entry[t]] # "none"
      BY <2>1, ReturningEntry DEF Working
    <3>2. ToSet(available') = ToSet(available) \cup {entry[t]}
      BY <2>5, <3>1, AppendFacts DEF IInv, TypeOK, Owners
    <3>3. conn[entry[t]] \in {"good", "broken"} /\ pc[t] = "return" /\ ~closed
      BY <1>1, <2>1, <2>5, <3>1 DEF MustDiscard, ConnState
    <3>4. ResetOnRelease => entry[t] \notin dirty
      BY <3>3 DEF UsableInv, Returnable
    <3> QED BY <2>1, <2>3, <3>2, <3>3, <3>4 DEF UsableInv, PooledIsUsable
  <2> QED BY <1>4, <2>3, <2>4, <2>5 DEF ReleaseLocked, UsableInv
<1> QED BY <1>2, <1>3, <1>4

(* An entry in the deque has a handle, and with reset on release nothing   *)
(* of a previous holder's session is left in it: although release() reads  *)
(* `closed' and the handle outside the lock, a reset that was skipped or   *)
(* refused never leads back to the deque.                                  *)
THEOREM PooledIsUsableHolds == Spec => []PooledIsUsable
<1>1. Init => UsableInv
  <2> SUFFICES ASSUME Init PROVE UsableInv
    OBVIOUS
  <2>1. entries = ToSet(available) /\ entries \subseteq Conn
    BY InitIInv DEF Init, IInv, TypeOK
  <2>2. PooledIsUsable
    BY <2>1 DEF Init, PooledIsUsable
  <2>3. Returnable
    BY DEF Init, Returnable
  <2> QED BY <2>2, <2>3 DEF UsableInv
<1>2. IInv /\ UsableInv /\ [Next]_vars => UsableInv'
  <2> SUFFICES ASSUME IInv, UsableInv, [Next]_vars PROVE UsableInv'
    OBVIOUS
  <2>1. CASE Break \/ IdleTimePasses \/ LifetimePasses \/ Destroyed \/ UNCHANGED vars
    BY <2>1, UsableEnvironment
  <2>2. ASSUME NEW t \in Thread,
               \/ DeadlinePasses(t) \/ HolderDisconnects(t)
               \/ \E u \in Thread : MoveLease(t, u)
        PROVE  UsableInv'
    BY <2>2, UsableQuiet, UsableConn
  <2>3. ASSUME NEW t \in Thread,
               \/ AcquireRefused(t) \/ Acquire(t) \/ Release(t)
               \/ Close(t) \/ Destroy(t) \/ WakeUp(t) \/ Step(t)
        PROVE  UsableInv'
    BY <2>3, UsableQuiet, UsableLeave, UsableGrant, UsableConn, UsableRelease
       DEF Step, AcquireStep, ReleaseStep, CloseStep
  <2> QED BY <2>1, <2>2, <2>3 DEF Next, Environment
<1>3. UsableInv => PooledIsUsable
  BY DEF UsableInv
<1> QED BY <1>1, <1>2, <1>3, SpecIInv, PTL DEF Spec

-----------------------------------------------------------------------------
(* Only evictLocked's scan takes an entry from the pool while some thread  *)
(* is in the scan: every other removal needs the mutex.                    *)
LEMMA OnlyTheScanRemoves ==
  ASSUME IInv, Next, NEW t \in Thread, pc[t] = "evict", ~(entries \subseteq entries')
  PROVE  EvictScan(t)
<1>1. mutex = t /\ \A u \in Thread \ {t} : mutex # u /\ pc[u] \notin Locked
  BY DEF IInv, MutexOK, Locked
<1>2. t # NoThread
  BY ThreadAssumption
<1>3. PICK u \in Thread : EvictScan(u) \/ PingReject(u) \/ ReleaseLocked(u) \/ CloseOne(u)
  BY DEF Next, Environment, Step, AcquireStep, ReleaseStep, CloseStep, AcquireRefused, Acquire,
     EvictEnd, EvictRelock, TakeAvailable, Ping, PingAccept, PingRelock, Reserve, Connect,
     AddEntry, ConnectFailed, GiveUp, Wait, WakeUp, TimeOut, Release, ReleaseCheck, ResetSession,
     ReleaseNotify, ReleaseEnd, Close, Destroy, CloseRelock, CloseEnd, Disconnect, Break,
     IdleTimePasses, LifetimePasses, DeadlinePasses, HolderDisconnects, MoveLease, Destroyed,
     vars, poolVars
<1>4. ~PingReject(u) /\ ~ReleaseLocked(u)
  BY <1>1, <1>2 DEF PingReject, ReleaseLocked, LockUnlock
<1>5. ~CloseOne(u)
  BY <1>1 DEF CloseOne, Goto, Unlock
<1>6. EvictScan(u) => u = t
  BY <1>1 DEF EvictScan, Locked
<1> QED BY <1>3, <1>4, <1>5, <1>6

(* evictLocked tests the size again for every entry it removes: idleness   *)
(* alone never takes the pool below its minimum.                           *)
THEOREM IdleEvictionKeepsMinHolds == Spec => IdleEvictionKeepsMin
<1>1. IInv /\ [Next]_vars =>
        [\A t \in Thread :
           pc[t] = "evict" /\ Cardinality(entries') < Cardinality(entries) =>
             Cardinality(entries') >= MinSize \/ entries \ entries' \subseteq aged]_vars
  <2> SUFFICES ASSUME IInv, Next, NEW t \in Thread, pc[t] = "evict",
                      Cardinality(entries') < Cardinality(entries)
               PROVE  Cardinality(entries') >= MinSize \/ entries \ entries' \subseteq aged
    OBVIOUS
  <2>1. IInv' /\ IsFiniteSet(entries) /\ Cardinality(entries) \in Nat
    BY StepIInv, FiniteCounts DEF IInv
  <2>2. IsFiniteSet(entries') /\ Cardinality(entries') \in Nat
    <3>1. entries' \subseteq Conn
      BY <2>1 DEF IInv, TypeOK
    <3> QED BY <3>1, ConnAssumption, FS_Subset, FS_CardinalityType
  <2>3. ~(entries \subseteq entries')
    BY <2>1, <2>2, FS_Subset
  <2>4. EvictScan(t)
    BY <2>3, OnlyTheScanRemoves
  <2>5. PICK c \in entries : ShouldEvict(c) /\ entries' = entries \ {c}
    BY <2>3, <2>4 DEF EvictScan
  <2>6. Cardinality(entries') = Cardinality(entries) - 1
    BY <2>1, <2>5, FS_RemoveElement
  <2>7. CASE c \in aged
    BY <2>5, <2>7
  <2>8. CASE Cardinality(entries) > MinSize
    BY <2>1, <2>6, <2>8, SizesAssumption
  <2> QED BY <2>5, <2>7, <2>8 DEF ShouldEvict
<1> QED BY <1>1, SpecIInv, PTL DEF Spec, IdleEvictionKeepsMin
-----------------------------------------------------------------------------
(* No wakeup is lost. *)
(* The threads that will look at the pool, or will wake one that does,     *)
(* before they leave it or take a connection for themselves.               *)
Helping ==
  {t \in Thread :
     \/ pc[t] \in {"evict", "evicted", "take", "rejected", "notify"}
     \/ pc[t] = "wait" /\ t \notin waiting}

(* While threads sleep, every connection that could be lent or opened has  *)
(* a helper of its own.                                                    *)
EnoughHelp == waiting # {} => MaxSize <= inUse + pending + Cardinality(Helping)

WakeInv ==
  /\ \A t \in waiting : pc[t] = "wait"
  /\ \A t \in Thread : ~late[t]
  /\ EnoughHelp

LEMMA HelpersCount ==
  /\ IsFiniteSet(Helping) /\ Cardinality(Helping) \in Nat
  /\ IsFiniteSet(Helping') /\ Cardinality(Helping') \in Nat
<1>1. Helping \subseteq Thread /\ Helping' \subseteq Thread
  BY DEF Helping
<1> QED BY <1>1, ThreadAssumption, FS_Subset, FS_CardinalityType

(* What is free, counted by those who have it.                             *)
LEMMA FreeIsUnused ==
  ASSUME IInv
  PROVE  Exhausted <=> MaxSize <= inUse + pending
<1>1. /\ IsFiniteSet(entries) /\ Cardinality(entries) \in Nat
      /\ inUse \in Nat /\ pending \in Nat /\ MaxSize \in Nat /\ available \in Seq(Conn)
  BY FiniteCounts, SizesAssumption DEF IInv, TypeOK
<1>2. Cardinality(ToSet(available)) = Len(available) /\ IsFiniteSet(ToSet(available))
  BY <1>1, InjectiveLength DEF IInv, Owners
<1>3. inUse = Cardinality(entries) - Len(available)
  <2>1. inUse = Cardinality(entries \ ToSet(available)) /\ ToSet(available) \subseteq entries
    BY DEF IInv, Counters, Leased, Owners
  <2>2. Cardinality(entries \ ToSet(available))
          = Cardinality(entries) - Cardinality(entries \cap ToSet(available))
    BY <1>1, <1>2, FS_Difference
  <2>3. entries \cap ToSet(available) = ToSet(available)
    BY <2>1
  <2> QED BY <1>2, <2>1, <2>2, <2>3
<1>4. Len(available) \in Nat /\ (available = <<>> <=> Len(available) = 0)
  BY <1>1, LenProperties, EmptySeq
<1>5. Cardinality(entries) + pending <= MaxSize
  BY DEF IInv, Capacity
<1> QED BY <1>1, <1>3, <1>4, <1>5 DEF Exhausted, HasCapacity

(* Steps that take no help away and free nothing.                          *)
LEMMA HelpStays ==
  ASSUME IInv, IInv', WakeInv, waiting' = waiting, Helping' = Helping,
         inUse' + pending' = inUse + pending
  PROVE  EnoughHelp'
<1>1. /\ inUse \in Nat /\ pending \in Nat /\ inUse' \in Nat /\ pending' \in Nat
      /\ MaxSize \in Nat /\ Cardinality(Helping) \in Nat /\ Cardinality(Helping') \in Nat
  BY SizesAssumption, HelpersCount DEF IInv, TypeOK
<1> SUFFICES ASSUME waiting' # {}
             PROVE  MaxSize <= inUse' + pending' + Cardinality(Helping')
  BY DEF EnoughHelp
<1>2. MaxSize <= inUse + pending + Cardinality(Helping)
  BY DEF WakeInv, EnoughHelp
<1> QED BY <1>1, <1>2

LEMMA CountWithout ==
  ASSUME NEW S, IsFiniteSet(S), NEW x \in S, NEW k \in Nat
  PROVE  k + Cardinality(S) <= (k + 1) + Cardinality(S \ {x})
<1>1. Cardinality(S) \in Nat /\ Cardinality(S \ {x}) = Cardinality(S) - 1
  BY FS_RemoveElement, FS_CardinalityType
<1> QED BY <1>1

LEMMA CountWith ==
  ASSUME NEW S, IsFiniteSet(S), NEW x, x \notin S, NEW k \in Nat, NEW l \in Nat,
         l = k \/ l + 1 = k
  PROVE  k + Cardinality(S) <= l + Cardinality(S \cup {x})
<1>1. Cardinality(S) \in Nat /\ Cardinality(S \cup {x}) = Cardinality(S) + 1
  BY FS_AddElement, FS_CardinalityType
<1> QED BY <1>1

(* Steps after which no more is free than there are helpers.               *)
LEMMA Balance ==
  ASSUME IInv, IInv', WakeInv, waiting' # {} => waiting # {},
         inUse + pending + Cardinality(Helping) <= inUse' + pending' + Cardinality(Helping')
  PROVE  EnoughHelp'
<1>1. /\ inUse \in Nat /\ pending \in Nat /\ inUse' \in Nat /\ pending' \in Nat
      /\ MaxSize \in Nat /\ Cardinality(Helping) \in Nat /\ Cardinality(Helping') \in Nat
  BY SizesAssumption, HelpersCount DEF IInv, TypeOK
<1> SUFFICES ASSUME waiting' # {}
             PROVE  MaxSize <= inUse' + pending' + Cardinality(Helping')
  BY DEF EnoughHelp
<1>2. MaxSize <= inUse + pending + Cardinality(Helping)
  BY DEF WakeInv, EnoughHelp
<1> QED BY <1>1, <1>2

(* A helper takes what it found.                                           *)
LEMMA HelpLess ==
  ASSUME IInv, IInv', WakeInv, waiting' = waiting, NEW t \in Helping, Helping' = Helping \ {t},
         inUse' + pending' = inUse + pending + 1
  PROVE  EnoughHelp'
<1>1. inUse + pending \in Nat
  BY DEF IInv, TypeOK
<1>2. inUse + pending + Cardinality(Helping) <= inUse' + pending' + Cardinality(Helping')
  BY <1>1, CountWithout, HelpersCount
<1> QED BY <1>2, Balance

(* A thread starts to help, and has freed one connection at most.          *)
LEMMA HelpMore ==
  ASSUME IInv, IInv', WakeInv, waiting' \subseteq waiting,
         NEW t, t \notin Helping, Helping' = Helping \cup {t},
         inUse' + pending' = inUse + pending \/ inUse' + pending' + 1 = inUse + pending
  PROVE  EnoughHelp'
<1>1. inUse + pending \in Nat /\ inUse' + pending' \in Nat
  <2>1. (inUse \in Nat /\ pending \in Nat) /\ (inUse \in Nat /\ pending \in Nat)'
    BY DEF IInv, TypeOK
  <2>2. \A m, n \in Nat : m + n \in Nat
    OBVIOUS
  <2> QED BY <2>1, <2>2, Zenon
<1>2. inUse + pending + Cardinality(Helping) <= inUse' + pending' + Cardinality(Helping')
  BY <1>1, CountWith, HelpersCount
<1> QED BY <1>2, Balance

-----------------------------------------------------------------------------
(* Steps in which nobody starts or stops helping.                          *)
LEMMA WakeQuiet ==
  ASSUME IInv, IInv', WakeInv, NEW t \in Thread,
         \/ AcquireRefused(t) \/ EvictScan(t) \/ EvictEnd(t) \/ EvictRelock(t)
         \/ Ping(t) \/ PingAccept(t) \/ PingRelock(t) \/ Connect(t)
         \/ AddEntry(t) \/ Release(t) \/ ReleaseCheck(t) \/ ResetSession(t)
         \/ ReleaseEnd(t) \/ Close(t) \/ Destroy(t) \/ CloseOne(t)
         \/ CloseRelock(t) \/ CloseEnd(t) \/ Disconnect(t)
         \/ HolderDisconnects(t) \/ \E u \in Thread : MoveLease(t, u)
  PROVE  WakeInv'
<1>1. pc \in [Thread -> PC] /\ late \in [Thread -> BOOLEAN] /\ waiting \subseteq Thread
  BY DEF IInv, TypeOK
<1>2. waiting' = waiting /\ \A u \in Thread : ~late'[u]
  BY <1>1 DEF WakeInv, AcquireRefused, EvictScan, EvictEnd, EvictRelock, Ping, PingAccept,
     PingRelock, Connect, AddEntry, Release, ReleaseCheck, ResetSession, ReleaseEnd, Close,
     Destroy, CloseOne, CloseRelock, CloseEnd, Disconnect, HolderDisconnects, MoveLease,
     vars, callVars, syncVars, Return
<1>3. inUse' + pending' = inUse + pending
  <2>1. CASE AddEntry(t)
    <3>1. inUse \in Nat /\ pending \in Nat /\ inUse' = inUse + 1 /\ pending' = pending - 1
      BY <2>1 DEF IInv, TypeOK, AddEntry
    <3> QED BY <3>1
  <2>2. CASE ~AddEntry(t)
    BY <2>2 DEF AcquireRefused, EvictScan, EvictEnd, EvictRelock, Ping, PingAccept, PingRelock,
       Connect, Release, ReleaseCheck, ResetSession, ReleaseEnd, Close, Destroy, CloseOne,
       CloseRelock, CloseEnd, Disconnect, HolderDisconnects, MoveLease, vars, poolVars
  <2> QED BY <2>1, <2>2
<1>4. \A u \in Thread : u # t => pc'[u] = pc[u]
  BY <1>1 DEF AcquireRefused, EvictScan, EvictEnd, EvictRelock, Ping, PingAccept, PingRelock,
     Connect, AddEntry, Release, ReleaseCheck, ResetSession, ReleaseEnd, Close, Destroy, CloseOne,
     CloseRelock, CloseEnd, Disconnect, HolderDisconnects, MoveLease, vars, callVars, Goto, Return
<1>5. \/ pc'[t] = pc[t]
      \/ {pc[t], pc'[t]} \subseteq {"evict", "evicted", "take", "rejected"}
      \/ {pc[t], pc'[t]} \cap {"evict", "evicted", "take", "rejected", "notify", "wait"} = {}
  BY <1>1 DEF AcquireRefused, EvictScan, EvictEnd, EvictRelock, Ping, PingAccept, PingRelock,
     Connect, AddEntry, Release, ReleaseCheck, ResetSession, ReleaseEnd, Close, Destroy, CloseOne,
     CloseRelock, CloseEnd, Disconnect, HolderDisconnects, MoveLease, vars, callVars, Goto, Return
<1>6. Helping' = Helping
  BY <1>2, <1>4, <1>5 DEF Helping
<1>7. EnoughHelp'
  BY <1>2, <1>3, <1>6, HelpStays
<1>8. \A u \in waiting' : pc'[u] = "wait"
  BY <1>1, <1>2, <1>4, <1>5 DEF WakeInv
<1> QED BY <1>2, <1>7, <1>8 DEF WakeInv

(* acquireImpl takes a connection, or the right to open one.               *)
LEMMA WakeTake ==
  ASSUME IInv, IInv', WakeInv, NEW t \in Thread, TakeAvailable(t) \/ Reserve(t)
  PROVE  WakeInv'
<1>1. /\ pc \in [Thread -> PC] /\ late \in [Thread -> BOOLEAN] /\ waiting \subseteq Thread
      /\ inUse \in Nat /\ pending \in Nat
  BY DEF IInv, TypeOK
<1>2. /\ waiting' = waiting /\ pc[t] = "take"
      /\ \A u \in Thread : u # t => pc'[u] = pc[u]
      /\ pc'[t] \in {"ping", "idle", "connect"}
      /\ \A u \in Thread : ~late'[u]
  BY <1>1 DEF WakeInv, TakeAvailable, Reserve, Goto, Return
<1>3. inUse' + pending' = inUse + pending + 1
  BY <1>1 DEF TakeAvailable, Reserve
<1>4. t \in Helping /\ Helping' = Helping \ {t}
  BY <1>2 DEF Helping
<1>5. EnoughHelp'
  BY <1>2, <1>3, <1>4, HelpLess
<1>6. \A u \in waiting' : pc'[u] = "wait"
  BY <1>1, <1>2 DEF WakeInv
<1> QED BY <1>2, <1>5, <1>6 DEF WakeInv

(* A call begins, a ping fails, a release gives its connection up: each    *)
(* frees one connection at most, and will look at the pool or wake one     *)
(* that does.                                                              *)
LEMMA WakeFree ==
  ASSUME IInv, IInv', WakeInv, NEW t \in Thread,
         Acquire(t) \/ PingReject(t) \/ ReleaseLocked(t)
  PROVE  WakeInv'
<1>1. /\ pc \in [Thread -> PC] /\ late \in [Thread -> BOOLEAN] /\ waiting \subseteq Thread
      /\ inUse \in Nat /\ pending \in Nat
  BY DEF IInv, TypeOK
<1>2. /\ waiting' = waiting /\ pc[t] \in {"idle", "pingBad", "return", "discard"}
      /\ \A u \in Thread : u # t => pc'[u] = pc[u]
      /\ pc'[t] \in {"evict", "rejected", "notify"}
      /\ \A u \in Thread : ~late'[u]
  BY <1>1 DEF WakeInv, Acquire, PingReject, ReleaseLocked, Goto, poolVars
<1>3. inUse' + pending' = inUse + pending \/ inUse' + pending' + 1 = inUse + pending
  BY <1>1 DEF Acquire, PingReject, ReleaseLocked, poolVars
<1>4. t \notin Helping /\ Helping' = Helping \cup {t}
  BY <1>2 DEF Helping
<1>5. EnoughHelp'
  BY <1>2, <1>3, <1>4, HelpMore
<1>6. \A u \in waiting' : pc'[u] = "wait"
  BY <1>1, <1>2 DEF WakeInv
<1> QED BY <1>2, <1>5, <1>6 DEF WakeInv

(* A connection that was refused frees its reservation: the notification   *)
(* makes a sleeper a helper, if there is one.                              *)
LEMMA WakeRefused ==
  ASSUME IInv, IInv', WakeInv, NEW t \in Thread, ConnectFailed(t)
  PROVE  WakeInv'
<1>1. /\ pc \in [Thread -> PC] /\ late \in [Thread -> BOOLEAN] /\ waiting \subseteq Thread
      /\ inUse \in Nat /\ pending \in Nat
  BY DEF IInv, TypeOK
<1>2. /\ pc[t] = "refused" /\ pc'[t] = "idle"
      /\ \A u \in Thread : u # t => pc'[u] = pc[u]
      /\ \A u \in Thread : ~late'[u]
  BY <1>1 DEF WakeInv, ConnectFailed, Return, Goto
<1>3. inUse' + pending' + 1 = inUse + pending
  BY <1>1 DEF ConnectFailed
<1>4. CASE waiting = {} /\ waiting' = waiting
  BY <1>2, <1>4 DEF WakeInv, EnoughHelp
<1>5. ASSUME NEW w \in waiting, waiting' = waiting \ {w} PROVE WakeInv'
  <2>1. w \in Thread /\ w # t /\ pc[w] = "wait"
    BY <1>1, <1>2, <1>5 DEF WakeInv
  <2>2. w \notin Helping /\ Helping' = Helping \cup {w}
    BY <1>2, <1>5, <2>1 DEF Helping
  <2>3. EnoughHelp'
    BY <1>3, <1>5, <2>2, HelpMore
  <2>4. \A u \in waiting' : pc'[u] = "wait"
    BY <1>1, <1>2, <1>5 DEF WakeInv
  <2> QED BY <1>2, <2>3, <2>4 DEF WakeInv
<1> QED BY <1>4, <1>5 DEF ConnectFailed, NotifyOne

(* release() hands its part over to the thread it wakes.                   *)
LEMMA WakeNotify ==
  ASSUME IInv, IInv', WakeInv, NEW t \in Thread, ReleaseNotify(t)
  PROVE  WakeInv'
<1>1. /\ pc \in [Thread -> PC] /\ late' = late /\ waiting \subseteq Thread
      /\ inUse' = inUse /\ pending' = pending /\ inUse + pending \in Nat
  BY DEF IInv, TypeOK, ReleaseNotify, poolVars
<1>2. /\ pc[t] = "notify" /\ pc'[t] = "returned"
      /\ \A u \in Thread : u # t => pc'[u] = pc[u]
  BY <1>1 DEF ReleaseNotify, Goto
<1>3. CASE waiting = {} /\ waiting' = waiting
  BY <1>1, <1>2, <1>3 DEF WakeInv, EnoughHelp
<1>4. ASSUME NEW w \in waiting, waiting' = waiting \ {w} PROVE WakeInv'
  <2>1. w \in Thread /\ w # t /\ pc[w] = "wait"
    BY <1>1, <1>2, <1>4 DEF WakeInv
  <2>2. w \notin Helping /\ t \in Helping /\ Helping' = (Helping \ {t}) \cup {w}
    BY <1>2, <1>4, <2>1 DEF Helping
  <2>3. Cardinality(Helping') = Cardinality(Helping)
    <3>1. IsFiniteSet(Helping \ {t}) /\ Cardinality(Helping \ {t}) = Cardinality(Helping) - 1
      BY <2>2, HelpersCount, FS_RemoveElement
    <3>2. Cardinality((Helping \ {t}) \cup {w}) = Cardinality(Helping \ {t}) + 1
      BY <2>2, <3>1, FS_AddElement
    <3> QED BY <2>2, <3>1, <3>2, HelpersCount
  <2>4. EnoughHelp'
    BY <1>1, <1>4, <2>3 DEF WakeInv, EnoughHelp
  <2>5. \A u \in waiting' : pc'[u] = "wait"
    BY <1>1, <1>2, <1>4 DEF WakeInv
  <2> QED BY <1>1, <2>4, <2>5 DEF WakeInv
<1> QED BY <1>3, <1>4 DEF ReleaseNotify, NotifyOne

(* A thread goes to sleep when nothing is free.                            *)
LEMMA WakeSleep ==
  ASSUME IInv, IInv', WakeInv, NEW t \in Thread, Wait(t)
  PROVE  WakeInv'
<1>1. /\ pc \in [Thread -> PC] /\ late' = late /\ waiting \subseteq Thread
      /\ inUse' = inUse /\ pending' = pending /\ inUse + pending \in Nat /\ MaxSize \in Nat
  BY SizesAssumption DEF IInv, TypeOK, Wait, poolVars
<1>2. pc' = [pc EXCEPT ![t] = "wait"] /\ waiting' = waiting \cup {t}
  BY DEF Wait, Goto
<1>3. MaxSize <= inUse + pending
  BY FreeIsUnused DEF Wait
<1>4. MaxSize <= inUse' + pending' + Cardinality(Helping')
  BY <1>1, <1>3, HelpersCount
<1> QED BY <1>1, <1>2, <1>4 DEF WakeInv, EnoughHelp

(* A sleeper wakes, because it was notified or for no reason.              *)
LEMMA WakeWakeUp ==
  ASSUME IInv, IInv', WakeInv, NEW t \in Thread, WakeUp(t)
  PROVE  WakeInv'
<1>1. /\ pc \in [Thread -> PC] /\ late' = late /\ waiting \subseteq Thread
      /\ inUse' = inUse /\ pending' = pending
  BY DEF IInv, TypeOK, WakeUp, poolVars
<1>2. /\ pc[t] = "wait" /\ pc' = [pc EXCEPT ![t] = "evict"] /\ waiting' = waiting \ {t}
  BY DEF WakeUp, Goto
<1>3. EnoughHelp'
  <2>1. CASE t \in waiting
    <3>1. t \notin Helping /\ Helping' = Helping \cup {t}
      BY <1>1, <1>2, <2>1 DEF Helping
    <3> QED BY <1>1, <1>2, <3>1, HelpMore
  <2>2. CASE t \notin waiting
    <3>1. waiting' = waiting /\ Helping' = Helping
      BY <1>1, <1>2, <2>2 DEF Helping
    <3> QED BY <1>1, <3>1, HelpStays
  <2> QED BY <2>1, <2>2
<1>4. \A u \in waiting' : pc'[u] = "wait"
  BY <1>1, <1>2 DEF WakeInv
<1> QED BY <1>1, <1>3, <1>4 DEF WakeInv

(* The clocks, the server and a step of nobody.                            *)
LEMMA WakeEnvironment ==
  ASSUME IInv, IInv', WakeInv,
         Break \/ IdleTimePasses \/ LifetimePasses \/ Destroyed \/ UNCHANGED vars
  PROVE  WakeInv'
<1>1. UNCHANGED <<pc, waiting, late, inUse, pending>>
  BY DEF Break, IdleTimePasses, LifetimePasses, Destroyed, vars, poolVars, syncVars, callVars
<1>2. Helping' = Helping
  BY <1>1 DEF Helping
<1>3. EnoughHelp'
  BY <1>1, <1>2, HelpStays
<1> QED BY <1>1, <1>3 DEF WakeInv

LEMMA WakeStep ==
  ASSUME Timeouts = FALSE, IInv, IInv', WakeInv, [Next]_vars
  PROVE  WakeInv'
<1>1. CASE Break \/ IdleTimePasses \/ LifetimePasses \/ Destroyed \/ UNCHANGED vars
  BY <1>1, WakeEnvironment
<1>2. ASSUME NEW t \in Thread,
             \/ DeadlinePasses(t) \/ HolderDisconnects(t)
             \/ \E u \in Thread : MoveLease(t, u)
      PROVE  WakeInv'
  <2>1. ~DeadlinePasses(t)
    BY DEF DeadlinePasses
  <2> QED BY <1>2, <2>1, WakeQuiet
<1>3. ASSUME NEW t \in Thread,
             \/ AcquireRefused(t) \/ Acquire(t) \/ Release(t)
             \/ Close(t) \/ Destroy(t) \/ WakeUp(t) \/ Step(t)
      PROVE  WakeInv'
  <2>1. ~GiveUp(t) /\ ~TimeOut(t)
    BY DEF WakeInv, GiveUp, TimeOut
  <2> QED BY <1>3, <2>1, WakeQuiet, WakeTake, WakeFree, WakeRefused, WakeNotify, WakeSleep,
             WakeWakeUp
          DEF Step, AcquireStep, ReleaseStep, CloseStep
<1> QED BY <1>1, <1>2, <1>3 DEF Next, Environment

(* While no deadline passes, no thread sleeps in acquire() beside a        *)
(* connection it could have: whoever frees one notifies, and each of the   *)
(* notifications reaches a thread that has not been woken already.         *)
THEOREM NoLostWakeupHolds == Timeouts = FALSE => (Spec => []NoLostWakeup)
<1> SUFFICES ASSUME Timeouts = FALSE PROVE Spec => []NoLostWakeup
  OBVIOUS
<1>1. Init => WakeInv
  BY DEF Init, WakeInv, EnoughHelp
<1>2. IInv /\ IInv' /\ WakeInv /\ [Next]_vars => WakeInv'
  BY WakeStep
<1>3. IInv /\ WakeInv => NoLostWakeup
  <2> SUFFICES ASSUME IInv, WakeInv, waiting # {}, ~Exhausted
               PROVE  \E t \in Thread : Awake(t) \/ pc[t] = "notify"
    BY DEF NoLostWakeup
  <2>1. /\ MaxSize <= inUse + pending + Cardinality(Helping) /\ ~(MaxSize <= inUse + pending)
        /\ inUse + pending \in Nat
    BY FreeIsUnused DEF WakeInv, EnoughHelp, IInv, TypeOK
  <2>2. Helping # {}
    BY <2>1, FS_EmptySet
  <2>3. PICK t \in Thread : t \in Helping
    BY <2>2 DEF Helping
  <2> QED BY <2>3 DEF Helping, WakeInv, Awake, Acquiring
<1> QED BY <1>1, <1>2, <1>3, SpecIInv, PTL DEF Spec
-----------------------------------------------------------------------------
(* AttachmentPool implements LeasePool. *)
(* Where the pool has a connection, told from its deque and its threads.   *)
Placed ==
  /\ \A c \in ToSet(available) : Place[c] = "available"
  /\ \A t \in Thread : \A c \in Busy(t) : Place[c] = t
  /\ \A c \in Conn \ entries : Place[c] = "absent"

LEMMA IInvPlaced == IInv => Placed
<1> SUFFICES ASSUME IInv PROVE Placed
  OBVIOUS
<1>1. entries \subseteq Conn /\ ToSet(available) \subseteq entries
  BY DEF IInv, TypeOK, Owners
<1>2. \A t \in Thread : Busy(t) \subseteq entries \ ToSet(available)
  BY DEF IInv, Owners, Leased
<1>3. \A c \in ToSet(available) : Place[c] = "available"
  BY <1>1 DEF Place
<1>4. ASSUME NEW t \in Thread, NEW c \in Busy(t) PROVE Place[c] = t
  <2>1. c \in Conn /\ c \notin ToSet(available) /\ c \in AllBusy
    BY <1>1, <1>2 DEF AllBusy
  <2>2. \A u \in Thread : c \in Busy(u) => u = t
    BY DEF IInv, Owners
  <2> QED BY <2>1, <2>2 DEF Place
<1>5. \A c \in Conn \ entries : Place[c] = "absent"
  BY <1>1, <1>2 DEF Place, AllBusy
<1> QED BY <1>3, <1>4, <1>5 DEF Placed

LEMMA PlacedAlways == IInv /\ IInv' => Placed /\ Placed'
BY IInvPlaced, PTL

(* A connection stays where it is if the deque and the threads keep it.    *)
LEMMA StaysPut ==
  ASSUME IInv, IInv', NEW c \in Conn,
         c \in ToSet(available') <=> c \in ToSet(available),
         \A t \in Thread : c \in Busy(t)' <=> c \in Busy(t)
  PROVE  Place'[c] = Place[c]
<1>1. Placed /\ Placed'
  BY PlacedAlways
<1>2. /\ c \in entries => c \in ToSet(available) \/ \E t \in Thread : c \in Busy(t)
      /\ c \in entries' => c \in ToSet(available') \/ \E t \in Thread : c \in Busy(t)'
  BY DEF IInv, Owners, Leased
<1>3. CASE c \in ToSet(available)
  BY <1>1, <1>3 DEF Placed
<1>4. CASE \E t \in Thread : c \in Busy(t)
  BY <1>1, <1>4 DEF Placed
<1>5. CASE c \notin ToSet(available) /\ ~ \E t \in Thread : c \in Busy(t)
  BY <1>1, <1>2, <1>5 DEF Placed
<1> QED BY <1>3, <1>4, <1>5

(* A step that leaves every connection but c where it was.                 *)
LEMMA PlaceMoves ==
  ASSUME IInv, IInv', NEW c \in Conn,
         ToSet(available') \ {c} = ToSet(available) \ {c},
         \A t \in Thread : Busy(t)' \ {c} = Busy(t) \ {c}
  PROVE  Place' = [Place EXCEPT ![c] = Place'[c]]
<1>1. \A d \in Conn \ {c} : Place'[d] = Place[d]
  BY StaysPut
<1>2. Place = [d \in Conn |-> Place[d]] /\ Place' = [d \in Conn |-> Place'[d]]
  BY DEF Place
<1> QED BY <1>1, <1>2

LEMMA PlaceStays ==
  ASSUME IInv, IInv', ToSet(available') = ToSet(available),
         \A t \in Thread : Busy(t)' = Busy(t)
  PROVE  Place' = Place
<1>1. \A d \in Conn : Place'[d] = Place[d]
  BY StaysPut
<1>2. Place = [d \in Conn |-> Place[d]] /\ Place' = [d \in Conn |-> Place'[d]]
  BY DEF Place
<1> QED BY <1>1, <1>2

(* The steps of which a caller sees nothing.                               *)
LEMMA Unseen ==
  ASSUME IInv, IInv', NEW t \in Thread,
         \/ AcquireRefused(t) \/ Acquire(t) \/ EvictEnd(t) \/ Disconnect(t)
         \/ EvictRelock(t) \/ Ping(t) \/ PingAccept(t) \/ PingRelock(t)
         \/ Reserve(t) \/ Connect(t) \/ ConnectFailed(t) \/ GiveUp(t)
         \/ Wait(t) \/ WakeUp(t) \/ TimeOut(t) \/ Release(t)
         \/ ReleaseCheck(t) \/ ResetSession(t) \/ ReleaseNotify(t)
         \/ ReleaseEnd(t) \/ CloseRelock(t) \/ CloseEnd(t)
         \/ HolderDisconnects(t) \/ DeadlinePasses(t)
  PROVE  UNCHANGED <<Place, closed>>
<1>1. /\ pc \in [Thread -> PC] /\ entry \in [Thread -> Conn \cup {NoConn}]
      /\ held \in [Thread -> SUBSET Conn]
  BY DEF IInv, TypeOK
<1>2. available' = available /\ closed' = closed
  BY DEF AcquireRefused, Acquire, EvictEnd, Disconnect, EvictRelock, Ping, PingAccept, PingRelock,
     Reserve, Connect, ConnectFailed, GiveUp, Wait, WakeUp, TimeOut, Release, ReleaseCheck,
     ResetSession, ReleaseNotify, ReleaseEnd, CloseRelock, CloseEnd, HolderDisconnects,
     DeadlinePasses, vars, poolVars
<1>3. CASE PingAccept(t)
  <2>1. \A u \in Thread : Busy(u)' = Busy(u)
    <3>1. entry[t] \in Conn /\ entry[t] # NoConn
      BY <1>1, <1>3, PositiveCounters, ConnAssumption DEF PingAccept, Return, Goto, Working
    <3>2. /\ held' = [held EXCEPT ![t] = @ \cup {entry[t]}]
          /\ entry' = [entry EXCEPT ![t] = NoConn]
          /\ pc[t] = "pingOk" /\ pc' = [pc EXCEPT ![t] = "idle"]
      BY <1>3 DEF PingAccept, Grant, Return, Goto
    <3> QED BY <1>1, <3>1, <3>2 DEF Busy
  <2> QED BY <1>2, <2>1, PlaceStays
<1>4. CASE Release(t)
  <2>1. entry[t] = NoConn
    BY <1>4 DEF IInv, EntryOK, Working, Release, Goto
  <2>2. \A u \in Thread : Busy(u)' = Busy(u)
    <3>1. PICK c \in held[t] :
            held' = [held EXCEPT ![t] = @ \ {c}] /\ entry' = [entry EXCEPT ![t] = c]
      BY <1>4 DEF Release
    <3>2. pc[t] = "idle" /\ pc' = [pc EXCEPT ![t] = "release"] /\ c # NoConn
      BY <1>1, <1>4, ConnAssumption DEF Release, Goto
    <3> QED BY <1>1, <2>1, <3>1, <3>2 DEF Busy
  <2> QED BY <1>2, <2>2, PlaceStays
<1>5. CASE Connect(t)
  <2>1. entry[t] = NoConn /\ held' = held
    BY <1>5 DEF IInv, EntryOK, Working, Connect, Goto
  <2>2. \A u \in Thread : u # t => pc'[u] = pc[u] /\ entry'[u] = entry[u]
    BY <1>1, <1>5 DEF Connect, Goto
  <2>3. pc[t] = "connect" /\ (pc'[t] = "connected" \/ (pc'[t] = "refused" /\ entry' = entry))
    BY <1>1, <1>5 DEF Connect, Goto
  <2>4. \A u \in Thread : Busy(u)' = Busy(u)
    BY <2>1, <2>2, <2>3 DEF Busy
  <2> QED BY <1>2, <2>4, PlaceStays
<1>6. CASE ~(PingAccept(t) \/ Release(t) \/ Connect(t))
  <2>1. entry' = entry /\ held' = held
    BY <1>6 DEF AcquireRefused, Acquire, EvictEnd, Disconnect, EvictRelock, Ping, PingRelock,
       Reserve, ConnectFailed, GiveUp, Wait, WakeUp, TimeOut, ReleaseCheck, ResetSession,
       ReleaseNotify, ReleaseEnd, CloseRelock, CloseEnd, HolderDisconnects, DeadlinePasses,
       vars, callVars
  <2>2. \A u \in Thread : pc'[u] = "connected" <=> pc[u] = "connected"
    BY <1>1, <1>6 DEF AcquireRefused, Acquire, EvictEnd, Disconnect, EvictRelock, Ping,
       PingRelock, Reserve, ConnectFailed, GiveUp, Wait, WakeUp, TimeOut, ReleaseCheck,
       ResetSession, ReleaseNotify, ReleaseEnd, CloseRelock, CloseEnd, HolderDisconnects,
       DeadlinePasses, vars, callVars, Goto, Return
  <2>3. \A u \in Thread : Busy(u)' = Busy(u)
    BY <2>1, <2>2 DEF Busy
  <2> QED BY <1>2, <2>3, PlaceStays
<1> QED BY <1>2, <1>3, <1>4, <1>5, <1>6

(* What a caller sees of a step: one of the things a LeasePool does, or    *)
(* nothing.                                                                *)
Promised == Promise!LPNext \/ UNCHANGED <<Place, closed>>

(* A connection leaves the pool, from the deque or from a thread.          *)
LEMMA Leaves ==
  ASSUME IInv, IInv', NEW c \in Conn, c \notin entries', closed' = closed,
         ToSet(available') \ {c} = ToSet(available) \ {c},
         \A t \in Thread : Busy(t)' \ {c} = Busy(t) \ {c}
  PROVE  Promised
<1>1. Place'[c] = "absent"
  BY PlacedAlways DEF Placed
<1>2. Place' = [Place EXCEPT ![c] = "absent"]
  BY <1>1, PlaceMoves
<1>3. CASE Place[c] = "absent"
  <2>1. Place = [d \in Conn |-> Place[d]]
    BY DEF Place
  <2>2. Place' = Place
    BY <1>2, <1>3, <2>1
  <2> QED BY <2>2 DEF Promised
<1>4. CASE Place[c] # "absent"
  <2>1. Promise!Drop(c)
    BY <1>2, <1>4 DEF Promise!Drop
  <2> QED BY <2>1 DEF Promised, Promise!LPNext
<1> QED BY <1>3, <1>4

(* evictLocked drops the entry under its iterator, or keeps it.            *)
LEMMA ScanPromised ==
  ASSUME IInv, IInv', NEW t \in Thread, EvictScan(t)
  PROVE  Promised
<1>1. closed' = closed /\ \A u \in Thread : Busy(u)' = Busy(u)
  BY DEF EvictScan, Busy
<1>2. CASE UNCHANGED available
  BY <1>1, <1>2, PlaceStays DEF Promised
<1>3. CASE entries' = entries \ {available[scan[t]]} /\ available' = RemoveAt(available, scan[t])
  <2>1. scan[t] \in 1 .. Len(available)
    BY LenProperties DEF EvictScan, IInv, TypeOK
  <2>2. available[scan[t]] \in Conn /\ ToSet(available') = ToSet(available) \ {available[scan[t]]}
    BY <1>3, <2>1, DequeFacts
  <2> QED BY <1>1, <1>3, <2>2, Leaves
<1> QED BY <1>2, <1>3 DEF EvictScan

(* close() drops the entry at the front.                                   *)
LEMMA ClosePromised ==
  ASSUME IInv, IInv', NEW t \in Thread, CloseOne(t)
  PROVE  Promised
<1>1. pc \in [Thread -> PC]
  BY DEF IInv, TypeOK
<1>2. closed' = closed /\ \A u \in Thread : Busy(u)' = Busy(u)
  BY <1>1 DEF CloseOne, Busy, Goto
<1>3. /\ Head(available) \in Conn /\ Head(available) \notin entries'
      /\ ToSet(available') = ToSet(available) \ {Head(available)}
  BY DequeFacts DEF CloseOne
<1> QED BY <1>2, <1>3, Leaves

(* acquireImpl drops an entry that fails its ping.                         *)
LEMMA RejectPromised ==
  ASSUME IInv, IInv', NEW t \in Thread, PingReject(t)
  PROVE  Promised
<1>1. /\ pc \in [Thread -> PC] /\ entry \in [Thread -> Conn \cup {NoConn}]
  BY DEF IInv, TypeOK
<1>2. pc[t] = "pingBad" /\ pc' = [pc EXCEPT ![t] = "rejected"]
  BY DEF PingReject, Goto
<1>3. entry[t] \in Conn
  BY <1>2, PositiveCounters DEF Working
<1>4. UNCHANGED <<available, closed, held>> /\ entry[t] \notin entries'
  BY DEF PingReject
<1>5. \A u \in Thread : Busy(u)' \ {entry[t]} = Busy(u) \ {entry[t]}
  BY <1>1, <1>2, <1>4 DEF PingReject, Busy
<1> QED BY <1>3, <1>4, <1>5, Leaves

(* acquireImpl claims the entry at the front.                              *)
LEMMA TakePromised ==
  ASSUME IInv, IInv', NEW t \in Thread, TakeAvailable(t)
  PROVE  Promised
<1> DEFINE c == Head(available)
<1>1. /\ pc \in [Thread -> PC] /\ entry \in [Thread -> Conn \cup {NoConn}]
      /\ held \in [Thread -> SUBSET Conn]
  BY DEF IInv, TypeOK
<1>2. c \in Conn /\ c \in ToSet(available) /\ ToSet(available') = ToSet(available) \ {c}
  BY DequeFacts DEF TakeAvailable
<1>3. entry[t] = NoConn /\ c # NoConn
  BY <1>2, ConnAssumption DEF IInv, EntryOK, Working, TakeAvailable
<1>4. /\ \A u \in Thread : pc'[u] # "connected" <=> pc[u] # "connected"
      /\ pc'[t] # "connected"
  BY <1>1 DEF TakeAvailable, Goto, Return
<1>5. /\ \A u \in Thread : Busy(u)' \ {c} = Busy(u) \ {c}
      /\ c \in Busy(t)'
  <2>1. CASE entry' = [entry EXCEPT ![t] = c] /\ held' = held
    BY <1>1, <1>3, <1>4, <2>1 DEF Busy
  <2>2. CASE entry' = entry /\ held' = [held EXCEPT ![t] = @ \cup {c}]
    BY <1>1, <1>3, <1>4, <2>2 DEF Busy
  <2> QED BY <2>1, <2>2 DEF TakeAvailable, Grant
<1>6. Place[c] = "available" /\ Place' = [Place EXCEPT ![c] = t] /\ closed' = closed
  <2>1. Place[c] = "available" /\ Place'[c] = t
    BY <1>2, <1>5, PlacedAlways DEF Placed
  <2>2. Place' = [Place EXCEPT ![c] = Place'[c]]
    BY <1>2, <1>5, PlaceMoves
  <2> QED BY <2>1, <2>2 DEF TakeAvailable
<1>7. Promise!Claim(t, c)
  BY <1>6 DEF Promise!Claim, Promise!Move
<1> QED BY <1>2, <1>7 DEF Promised, Promise!LPNext

(* LeasePool counts as the pool does.                                      *)
LEMMA SameCardinality ==
  ASSUME NEW S
  PROVE  Promise!Cardinality(S) = Cardinality(S)
BY DEF Promise!Cardinality, Cardinality

(* acquireImpl opens a connection it has reserved.                         *)
LEMMA AddPromised ==
  ASSUME IInv, IInv', NEW t \in Thread, AddEntry(t)
  PROVE  Promised
<1> DEFINE c == entry[t]
<1>1. /\ pc \in [Thread -> PC] /\ entry \in [Thread -> Conn \cup {NoConn}]
      /\ held \in [Thread -> SUBSET Conn] /\ pc[t] = "connected"
  BY DEF IInv, TypeOK, AddEntry, Return, Goto
<1>2. c \in Conn /\ c \notin entries
  BY <1>1 DEF IInv, EntryOK, Working, Objects, Private
<1>3. /\ \A u \in Thread : Busy(u)' \ {c} = Busy(u) \ {c}
      /\ c \in Busy(t)'
  BY <1>1 DEF AddEntry, Return, Goto, Grant, Busy
<1>4. Place[c] = "absent" /\ Place' = [Place EXCEPT ![c] = t] /\ closed' = closed
  <2>1. Place[c] = "absent" /\ Place'[c] = t
    BY <1>2, <1>3, PlacedAlways DEF Placed
  <2>2. Place' = [Place EXCEPT ![c] = Place'[c]]
    BY <1>2, <1>3, PlaceMoves DEF AddEntry
  <2> QED BY <2>1, <2>2 DEF AddEntry
<1>5. Cardinality(Promise!Present) < MaxSize
  <2>1. Promise!Present \subseteq entries
    BY PlacedAlways DEF Placed, Promise!Present
  <2>2. IsFiniteSet(entries) /\ Cardinality(entries) \in Nat
    BY FiniteCounts DEF IInv
  <2>3. Cardinality(Promise!Present) <= Cardinality(entries) /\ Cardinality(Promise!Present) \in Nat
    BY <2>1, <2>2, FS_Subset, FS_CardinalityType
  <2>4. pending - 1 \in Nat /\ pending \in Nat /\ MaxSize \in Nat
    BY <1>1, PositiveCounters, SizesAssumption DEF Creating, IInv, TypeOK
  <2> QED BY <2>2, <2>3, <2>4 DEF IInv, Capacity
<1>6. Promise!Open(t, c)
  BY <1>4, <1>5, SameCardinality DEF Promise!Open, Promise!Move
<1> QED BY <1>2, <1>6 DEF Promised, Promise!LPNext

(* release() discards the entry, or gives it back to a pool that is open.  *)
LEMMA ReleasePromised ==
  ASSUME IInv, IInv', NEW t \in Thread, ReleaseLocked(t)
  PROVE  Promised
<1> DEFINE c == entry[t]
<1>1. /\ pc \in [Thread -> PC] /\ entry \in [Thread -> Conn \cup {NoConn}]
      /\ available \in Seq(Conn) /\ IsInjective(available)
  BY DEF IInv, TypeOK, Owners
<1>2. pc[t] \in {"return", "discard"} /\ pc' = [pc EXCEPT ![t] = "notify"] /\ closed' = closed
  BY DEF ReleaseLocked
<1>3. c \in Conn /\ c \notin ToSet(available) /\ c # NoConn /\ c \in Busy(t)
  BY <1>2, PositiveCounters, ConnAssumption DEF Working, Leased, Busy
<1>4. \A u \in Thread : Busy(u)' \ {c} = Busy(u) \ {c}
  BY <1>1, <1>2 DEF ReleaseLocked, Busy
<1>5. CASE entries' = entries \ {c} /\ available' = available
  BY <1>2, <1>3, <1>4, <1>5, Leaves
<1>6. CASE ~MustDiscard(t) /\ available' = Append(available, c)
  <2>1. ToSet(available') = ToSet(available) \cup {c}
    BY <1>1, <1>3, <1>6, AppendFacts
  <2>2. Place[c] = t /\ Place'[c] = "available"
    BY <1>3, <2>1, PlacedAlways DEF Placed
  <2>3. Place' = [Place EXCEPT ![c] = Place'[c]]
    BY <1>3, <1>4, <2>1, PlaceMoves
  <2>4. Promise!GiveBack(t, c)
    BY <1>2, <1>6, <2>2, <2>3 DEF MustDiscard, Promise!GiveBack, Promise!Move
  <2> QED BY <1>3, <2>4 DEF Promised, Promise!LPNext
<1> QED BY <1>5, <1>6 DEF ReleaseLocked

(* A lease changes hands.                                                  *)
LEMMA MovePromised ==
  ASSUME IInv, IInv', NEW t \in Thread, NEW u \in Thread, MoveLease(t, u)
  PROVE  Promised
<1>1. held \in [Thread -> SUBSET Conn] /\ entry' = entry /\ pc' = pc /\ t # u
  BY DEF IInv, TypeOK, MoveLease
<1>2. PICK c \in held[t] : held' = [held EXCEPT ![t] = @ \ {c}, ![u] = @ \cup {c}]
  BY DEF MoveLease
<1>3. c \in Conn /\ c \in Busy(t) /\ c \in Busy(u)'
  BY <1>1, <1>2 DEF Busy
<1>4. \A w \in Thread : Busy(w)' \ {c} = Busy(w) \ {c}
  BY <1>1, <1>2 DEF Busy
<1>5. UNCHANGED <<available, closed>>
  BY DEF MoveLease, poolVars
<1>6. Place[c] = t /\ Place' = [Place EXCEPT ![c] = u]
  <2>1. Place[c] = t /\ Place'[c] = u
    BY <1>3, PlacedAlways DEF Placed
  <2> QED BY <1>3, <1>4, <1>5, <2>1, PlaceMoves
<1>7. Promise!HandOver(t, u, c)
  BY <1>1, <1>5, <1>6 DEF Promise!HandOver, Promise!Move
<1> QED BY <1>3, <1>7 DEF Promised, Promise!LPNext

(* close() and the destructor shut the pool.                               *)
LEMMA ShutPromised ==
  ASSUME IInv, IInv', NEW t \in Thread, Close(t) \/ Destroy(t)
  PROVE  Promised
<1>1. pc \in [Thread -> PC]
  BY DEF IInv, TypeOK
<1>2. closed' = TRUE /\ available' = available /\ \A u \in Thread : Busy(u)' = Busy(u)
  BY <1>1 DEF Close, Destroy, Goto, Busy
<1>3. Promise!Shut
  BY <1>2, PlaceStays DEF Promise!Shut
<1> QED BY <1>3 DEF Promised, Promise!LPNext

(* What the server and the clocks do concerns no caller.                   *)
LEMMA EnvironmentUnseen ==
  ASSUME IInv, IInv',
         Break \/ IdleTimePasses \/ LifetimePasses \/ Destroyed \/ UNCHANGED vars
  PROVE  UNCHANGED <<Place, closed>>
<1>1. UNCHANGED <<available, closed, pc, held, entry>>
  BY DEF Break, IdleTimePasses, LifetimePasses, Destroyed, vars, poolVars, callVars
<1>2. \A u \in Thread : Busy(u)' = Busy(u)
  BY <1>1 DEF Busy
<1> QED BY <1>1, <1>2, PlaceStays

-----------------------------------------------------------------------------
(* Whatever the interleaving, a caller of the pool sees a LeasePool: at    *)
(* most getMaxSize() connections, each in one place, lent and given back   *)
(* one at a time, none given back once the pool is closed.                 *)
THEOREM ImplementsLeasePoolHolds == Spec => ImplementsLeasePool
<1>1. Init => Promise!LPInit
  <2> SUFFICES ASSUME Init PROVE Promise!LPInit
    OBVIOUS
  <2>1. IInv
    BY InitIInv
  <2>2. entries = ToSet(available) /\ closed = FALSE /\ \A t \in Thread : Busy(t) = {}
    BY DEF Init, Busy
  <2>3. /\ \A c \in entries : Place[c] = "available"
        /\ \A c \in Conn \ entries : Place[c] = "absent"
    BY <2>1, <2>2, IInvPlaced DEF Placed
  <2>4. Place \in [Conn -> {"available", "absent"}]
    <3>1. Place = [c \in Conn |-> Place[c]]
      BY DEF Place
    <3> QED BY <2>3, <3>1
  <2>5. Promise!Present \subseteq entries
    BY <2>3 DEF Promise!Present
  <2>6. Cardinality(Promise!Present) <= MaxSize
    <3>1. IsFiniteSet(entries) /\ Cardinality(entries) \in Nat
      BY <2>1, FiniteCounts DEF IInv
    <3>2. Cardinality(Promise!Present) <= Cardinality(entries) /\ Cardinality(Promise!Present) \in Nat
      BY <2>5, <3>1, FS_Subset, FS_CardinalityType
    <3>3. Cardinality(entries) <= MaxSize
      BY <2>1, <3>1, SizesAssumption DEF IInv, Capacity, TypeOK
    <3> QED BY <3>1, <3>2, <3>3, SizesAssumption
  <2> QED BY <2>2, <2>4, <2>6, SameCardinality DEF Promise!LPInit
<1>2. IInv /\ IInv' /\ [Next]_vars => [Promise!LPNext]_(Promise!lpVars)
  <2> SUFFICES ASSUME IInv, IInv', [Next]_vars PROVE Promised
    BY DEF Promised, Promise!lpVars
  <2>1. CASE Break \/ IdleTimePasses \/ LifetimePasses \/ Destroyed \/ UNCHANGED vars
    BY <2>1, EnvironmentUnseen DEF Promised
  <2>2. ASSUME NEW t \in Thread,
               \/ DeadlinePasses(t) \/ HolderDisconnects(t)
               \/ \E u \in Thread : MoveLease(t, u)
        PROVE  Promised
    BY <2>2, Unseen, MovePromised DEF Promised
  <2>3. ASSUME NEW t \in Thread,
               \/ AcquireRefused(t) \/ Acquire(t) \/ Release(t)
               \/ Close(t) \/ Destroy(t) \/ WakeUp(t) \/ Step(t)
        PROVE  Promised
    BY <2>3, Unseen, ScanPromised, TakePromised, RejectPromised, AddPromised, ReleasePromised,
       ClosePromised, ShutPromised
       DEF Step, AcquireStep, ReleaseStep, CloseStep, Promised
  <2> QED BY <2>1, <2>2, <2>3 DEF Next, Environment
<1> QED BY <1>1, <1>2, SpecIInv, PTL DEF Spec, ImplementsLeasePool, Promise!LPSpec
=============================================================================

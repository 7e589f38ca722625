----------------------------- MODULE LeasePool ------------------------------
(***************************************************************************)
(* What a connection pool promises its callers: a bounded set of           *)
(* connections, each idle or with one thread; none becomes idle again once *)
(* the pool is shut.  AttachmentPool implements it.                        *)
(***************************************************************************)
EXTENDS Naturals, FiniteSets

CONSTANTS Thread, Conn, Limit, Idle, Absent

VARIABLES
  place,  \* the thread each connection is with, or Idle, or Absent
  shut    \* the pool has been closed

lpVars == <<place, shut>>

Present == {c \in Conn : place[c] # Absent}

LPTypeOK ==
  place \in [Conn -> Thread \cup {Idle, Absent}] /\ shut \in BOOLEAN

LPInit ==
  /\ place \in [Conn -> {Idle, Absent}]
  /\ Cardinality(Present) <= Limit
  /\ shut = FALSE

Move(c, from, to) == place[c] = from /\ place' = [place EXCEPT ![c] = to]

(* A new connection, only below the limit. *)
Open(t, c) ==
  Cardinality(Present) < Limit /\ Move(c, Absent, t) /\ UNCHANGED shut

(* An idle connection goes to one thread. *)
Claim(t, c) == Move(c, Idle, t) /\ UNCHANGED shut

(* A thread gives a connection back to a pool that still lends. *)
GiveBack(t, c) == ~shut /\ Move(c, t, Idle) /\ UNCHANGED shut

(* A connection leaves the pool, idle or taken. *)
Drop(c) ==
  /\ place[c] # Absent /\ place' = [place EXCEPT ![c] = Absent]
  /\ UNCHANGED shut

(* A lease passes from one thread to another. *)
HandOver(t, u, c) == t # u /\ Move(c, t, u) /\ UNCHANGED shut

Shut == shut' = TRUE /\ UNCHANGED place

LPNext ==
  \/ \E t \in Thread, c \in Conn :
       Open(t, c) \/ Claim(t, c) \/ GiveBack(t, c)
  \/ \E t, u \in Thread, c \in Conn : HandOver(t, u, c)
  \/ \E c \in Conn : Drop(c)
  \/ Shut

LPSpec == LPInit /\ [][LPNext]_lpVars
=============================================================================

----------------------------- MODULE Transaction -----------------------------
(***************************************************************************)
(* One transaction over one or several databases, the C++ objects that own *)
(* it in turn, and its branch in each database.                            *)
(*                                                                         *)
(* The server is external: it takes a request branch by branch, in an      *)
(* order of its own, and may refuse it at any of them; the connection to a *)
(* database may be lost at any time, which rolls an active branch back,    *)
(* unknown to the client, and leaves a prepared one in limbo.  The build   *)
(* is one without assertions; callers keep the preconditions that the      *)
(* assertions state.                                                       *)
(***************************************************************************)
EXTENDS Integers, FiniteSets

CONSTANTS Database, Object

VARIABLES
    tx,         \* the Transaction objects
    branch,     \* the server's side, in each database
    cut,        \* the databases whose connection was lost
    call,       \* the call that has not returned yet
    undone,     \* the program has called rollback()
    everPrepared,   \* prepare() has returned
    refused     \* some request was refused

txVars == <<tx, branch, cut, call, undone, everPrepared, refused>>

NoCall == [op |-> "none"]
States == {"ACTIVE", "PREPARED", "COMMITTED", "ROLLED_BACK"}
Ops == {"commit", "rollback", "prepare", "commitRetaining", "rollbackRetaining", "destroy"}
BranchStates == {"none", "active", "prepared", "committed", "rolledback", "lost"}

Absent == [exists |-> FALSE, handle |-> FALSE, state |-> "ACTIVE"]
Quiet == call = NoCall
isValid(o) == tx[o].exists /\ tx[o].handle
Undecided == {d \in Database : branch[d] \in {"active", "prepared", "lost"}}

TxInit ==
    /\ tx = [o \in Object |-> Absent]
    /\ branch = [d \in Database |-> "none"]
    /\ cut = {} /\ call = NoCall
    /\ undone = FALSE /\ everPrepared = FALSE /\ refused = FALSE

(* The three constructors; one that throws leaves no object. *)
Construct(o) ==
    /\ Quiet /\ ~tx[o].exists
    /\ \A d \in Database : branch[d] = "none"
    /\ \E ds \in SUBSET Database :
          /\ ds # {}
          /\ branch' = [d \in Database |-> IF d \in ds THEN "active" ELSE "none"]
    /\ tx' = [tx EXCEPT ![o] = [exists |-> TRUE, handle |-> TRUE, state |-> "ACTIVE"]]
    /\ UNCHANGED <<cut, call, undone, everPrepared, refused>>

(* Mistaken: the state stays behind. *)
MoveForgetsState(o, p) ==
    /\ Quiet /\ tx[o].exists /\ ~tx[p].exists
    /\ tx' = [tx EXCEPT ![p] = [tx[o] EXCEPT !.state = "ACTIVE"],
                        ![o] = [exists |-> TRUE, handle |-> FALSE, state |-> "ROLLED_BACK"]]
    /\ UNCHANGED <<branch, cut, call, undone, everPrepared, refused>>

(* The move constructor: p takes over from o. *)
Move(o, p) ==
    /\ Quiet /\ tx[o].exists /\ ~tx[p].exists
    /\ tx' = [tx EXCEPT ![p] = tx[o],
                        ![o] = [exists |-> TRUE, handle |-> FALSE, state |-> "ROLLED_BACK"]]
    /\ UNCHANGED <<branch, cut, call, undone, everPrepared, refused>>

Ask(o, op) ==
    /\ call' = [op |-> op, object |-> o, left |-> Undecided]
    /\ undone' = (undone \/ op = "rollback")
    /\ UNCHANGED <<tx, branch, cut, everPrepared, refused>>

commit(o) == Quiet /\ isValid(o) /\ tx[o].state \in {"ACTIVE", "PREPARED"} /\ Ask(o, "commit")
rollback(o) == Quiet /\ isValid(o) /\ tx[o].state \in {"ACTIVE", "PREPARED"} /\ Ask(o, "rollback")
prepare(o) == Quiet /\ isValid(o) /\ tx[o].state = "ACTIVE" /\ Ask(o, "prepare")
commitRetaining(o) == Quiet /\ isValid(o) /\ tx[o].state = "ACTIVE" /\ Ask(o, "commitRetaining")
rollbackRetaining(o) == Quiet /\ isValid(o) /\ tx[o].state = "ACTIVE" /\ Ask(o, "rollbackRetaining")

(* Mistaken: a transaction that is not committed is left to the handle. *)
DestroyWithoutRollback(o) ==
    /\ Quiet /\ tx[o].exists
    /\ tx' = [tx EXCEPT ![o] = Absent]
    /\ UNCHANGED <<branch, cut, call, undone, everPrepared, refused>>

(* The destructor: rolls back if the transaction is active. *)
Destroy(o) ==
    /\ Quiet /\ tx[o].exists
    /\ IF isValid(o) /\ tx[o].state = "ACTIVE"
       THEN Ask(o, "destroy")
       ELSE /\ tx' = [tx EXCEPT ![o] = Absent]
            /\ UNCHANGED <<branch, cut, call, undone, everPrepared, refused>>

(* What a request makes of a branch. *)
BranchAfter(op, old) ==
    CASE op = "commit" -> "committed"
      [] op \in {"rollback", "destroy"} -> "rolledback"
      [] op = "prepare" -> "prepared"
      [] OTHER -> old

(* External: the server grants the request in one database. *)
Grant(d) ==
    /\ ~Quiet /\ d \in call.left \ cut
    /\ branch' = [branch EXCEPT ![d] = BranchAfter(call.op, @)]
    /\ call' = [call EXCEPT !.left = @ \ {d}]
    /\ UNCHANGED <<tx, cut, undone, everPrepared, refused>>

(* The server refuses, and the method throws: nothing is assigned.  The    *)
(* destructor swallows the exception and drops the handle.                 *)
Refuse ==
    /\ ~Quiet /\ call.left # {}
    /\ tx' = IF call.op = "destroy" THEN [tx EXCEPT ![call.object] = Absent] ELSE tx
    /\ call' = NoCall /\ refused' = TRUE
    /\ UNCHANGED <<branch, cut, undone, everPrepared>>

(* Mistaken: the handle is kept. *)
ReturnKeepsHandle ==
    /\ ~Quiet /\ call.left = {}
    /\ LET o == call.object
       IN  tx' = CASE call.op = "commit" -> [tx EXCEPT ![o].state = "COMMITTED"]
                   [] call.op = "rollback" -> [tx EXCEPT ![o].state = "ROLLED_BACK"]
                   [] call.op = "prepare" -> [tx EXCEPT ![o].state = "PREPARED"]
                   [] call.op = "destroy" -> [tx EXCEPT ![o] = Absent]
                   [] OTHER -> tx
    /\ call' = NoCall
    /\ everPrepared' = (everPrepared \/ call.op = "prepare")
    /\ UNCHANGED <<branch, cut, undone, refused>>

(* The server has granted the request everywhere, and the method returns. *)
Return ==
    /\ ~Quiet /\ call.left = {}
    /\ LET o == call.object
           ended(s) == [exists |-> TRUE, handle |-> FALSE, state |-> s]
       IN  tx' = CASE call.op = "commit" -> [tx EXCEPT ![o] = ended("COMMITTED")]
                   [] call.op = "rollback" -> [tx EXCEPT ![o] = ended("ROLLED_BACK")]
                   [] call.op = "prepare" -> [tx EXCEPT ![o].state = "PREPARED"]
                   [] call.op = "destroy" -> [tx EXCEPT ![o] = Absent]
                   [] OTHER -> tx
    /\ call' = NoCall
    /\ everPrepared' = (everPrepared \/ call.op = "prepare")
    /\ UNCHANGED <<branch, cut, undone, refused>>

(* External: the connection to a database of the transaction is lost. *)
LoseConnection(d) ==
    /\ d \notin cut /\ branch[d] # "none"
    /\ cut' = cut \union {d}
    /\ branch' = [branch EXCEPT ![d] = IF @ = "active" THEN "lost" ELSE @]
    /\ UNCHANGED <<tx, call, undone, everPrepared, refused>>

TxNext ==
    \/ \E o \in Object : \/ Construct(o) \/ commit(o) \/ rollback(o) \/ prepare(o)
                         \/ commitRetaining(o) \/ rollbackRetaining(o) \/ Destroy(o)
                         \/ \E p \in Object : Move(o, p)
    \/ \E d \in Database : Grant(d) \/ LoseConnection(d)
    \/ Refuse \/ Return
-----------------------------------------------------------------------------
TxTypeOK ==
    /\ tx \in [Object -> [exists : BOOLEAN, handle : BOOLEAN, state : States]]
    /\ branch \in [Database -> BranchStates]
    /\ cut \subseteq Database
    /\ call = NoCall \/ call \in [op : Ops, object : Object, left : SUBSET Database]
    /\ undone \in BOOLEAN /\ everPrepared \in BOOLEAN /\ refused \in BOOLEAN

(* An object that owns the transaction has not ended it, and one at most   *)
(* owns it: commit and rollback give the handle away, moving passes it on. *)
HandleMeansOpen ==
    /\ \A o \in Object : tx[o].handle => tx[o].exists /\ tx[o].state \in {"ACTIVE", "PREPARED"}
    /\ \A o, p \in Object : tx[o].handle /\ tx[p].handle => o = p

Split == \E d, e \in Database : branch[d] = "committed" /\ branch[e] \in {"rolledback", "lost"}

(* Two-phase commit: once prepare() has returned, no failure of a later    *)
(* call, no move, no destructor and no lost connection leaves the          *)
(* transaction committed in one database and rolled back in another; only  *)
(* a program that asks for both does.  Without prepare() a commit refused  *)
(* halfway does, for the destructor rolls back what is left.               *)
PreparedIsAtomic ==
    (Split /\ everPrepared) => undone

(* A transaction that no object owns any more is not left active in any    *)
(* database, unless the server refused to end it; it is left prepared only *)
(* if prepare() was called.                                                *)
NoneLeftActive ==
    (Quiet /\ ~refused /\ \A o \in Object : ~tx[o].handle) =>
        \A d \in Database : /\ branch[d] # "active"
                            /\ branch[d] = "prepared" => everPrepared

(* The inductive invariant behind the two.  Who owns the transaction, and  *)
(* what a call in progress has been granted so far:                        *)
NotStarted == \A d \in Database : branch[d] = "none"
Unowned == \A o \in Object : ~tx[o].handle
CallOK ==
    ~Quiet =>
        /\ tx[call.object].handle
        /\ call.left \subseteq Undecided
        /\ call.op \notin {"commit", "rollback"} => tx[call.object].state = "ACTIVE"
        /\ call.op = "rollback" => undone
        /\ call.op \in {"commit", "rollback", "destroy"} => Undecided \subseteq call.left
        /\ call.op = "prepare" => \A d \in Undecided \ call.left : branch[d] = "prepared"

(* A branch is rolled back by rollback(), by the destructor, or not at all.*)
RolledBackOnPurpose ==
    (\E d \in Database : branch[d] = "rolledback") => undone \/ Unowned \/ call.op = "destroy"

(* Once prepare() has returned, the owner knows it, and no branch is left  *)
(* that a lost connection or a destructor could roll back.                 *)
PreparedForGood ==
    /\ \A o \in Object : tx[o].handle /\ tx[o].state = "PREPARED" => everPrepared
    /\ everPrepared =>
          /\ \A d \in Database : branch[d] \notin {"active", "lost"}
          /\ \A o \in Object : tx[o].handle => tx[o].state = "PREPARED"
          /\ (\E d \in Database : branch[d] = "rolledback") => undone

EndedEverywhere ==
    (Unowned /\ ~refused) =>
        \A d \in Database : branch[d] # "active" /\ (branch[d] = "prepared" => everPrepared)

TxInv ==
    /\ TxTypeOK /\ HandleMeansOpen
    /\ NotStarted => Quiet /\ Unowned /\ ~everPrepared
    /\ CallOK /\ RolledBackOnPurpose /\ PreparedForGood /\ EndedEverywhere
=============================================================================

------------------------------- MODULE Session -------------------------------
(***************************************************************************)
(* A program at work in one database, Main, of a transaction: a Statement  *)
(* or a Blob is made under the transaction, while the transaction goes     *)
(* through its own calls, some of which end cursor and blob on the server  *)
(* though the C++ objects stay.                                            *)
(*                                                                         *)
(* One thread: a Statement or Blob makes no call while the Transaction is  *)
(* in one.  Bounds: one transaction, one Statement or Blob at a time, and  *)
(* those only in a transaction of Main alone, for what the other databases *)
(* do reaches neither.                                                     *)
(***************************************************************************)
EXTENDS Transaction, Cursor, Blob

CONSTANT Main

ASSUME MainAssumption == Main \in Database

vars == <<txVars, cursorVars, blobVars>>

Init == TxInit /\ CursorInit /\ BlobInit

(* A call that passes the transaction on needs one that is valid; with a   *)
(* branch that is not active the server refuses it.                        *)
Usable ==
    /\ Quiet /\ \E o \in Object : isValid(o)
    /\ branch[Main] = "active" /\ \A d \in Database \ {Main} : branch[d] = "none"

(* External: what the end of a transaction means to what depends on it. *)
Dependants ==
    IF branch[Main] \in {"active", "prepared"} /\ branch'[Main] \notin {"active", "prepared"}
    THEN ServerClosesCursor /\ ServerClosesBlob
    ELSE UNCHANGED <<cursorVars, blobVars>>

(* The object must exist as long as a Statement or Blob uses it. *)
TransactionStep ==
    /\ TxNext /\ Dependants
    /\ \A o \in Object : tx'[o].exists # tx[o].exists => ~stmt.exists /\ ~blob.exists

StatementStep ==
    /\ Quiet /\ ~blob.exists
    /\ \/ Usable /\ (PrepareStatement \/ Execute \/ queryPreparedRowSet)
       \/ ExecuteNotClosed \/ fetchNext \/ FetchRefused \/ fetchElsewhere \/ NewRowSet
       \/ free \/ FreeRefused \/ DestroyStatement
    /\ UNCHANGED <<txVars, blobVars>>

BlobStep ==
    /\ Quiet /\ ~stmt.exists
    /\ \/ Usable /\ (CreateBlob \/ OpenBlob)
       \/ write \/ WriteRefused \/ writeSegment \/ read \/ readSegment \/ ReadRefused
       \/ seek \/ closeBlob \/ cancelBlob \/ DestroyBlob
    /\ UNCHANGED <<txVars, cursorVars>>

Next == TransactionStep \/ StatementStep \/ BlobStep

Spec == Init /\ [][Next]_vars
-----------------------------------------------------------------------------
(* The types and the transaction's inductive invariant: it is owned by one *)
(* object at most, which has not ended it; a cursor belongs to a prepared  *)
(* query; an open blob has a handle.                                       *)
TypeOK == TxInv /\ CursorTypeOK /\ BlobTypeOK
=============================================================================

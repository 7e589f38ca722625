------------------------------ MODULE MCSession ------------------------------
(* A transaction over two databases and two objects that own it in turn;   *)
(* results of up to two rows; chunks of two bytes, blobs of up to four.    *)
EXTENDS Session, TLC

CONSTANTS d1, d2, o1, o2

MCDatabase == {d1, d2}
MCObject == {o1, o2}

(* Nothing tells the two objects apart. *)
MCSymmetry == Permutations(MCObject)

MCRowSetSizes == {0, 1, 3}
MCBufferSizes == {0, 1, 3}

(* Segments of sizes below and above a chunk, and an empty one in the      *)
(* middle.                                                                 *)
MCForeignBlobs == {<< <<1>>, <<2, 3, 4>> >>, << <<1>>, <<>>, <<2>> >>}
=============================================================================

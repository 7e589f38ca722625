-------------------------- MODULE MCAttachmentPool --------------------------
(***************************************************************************)
(* AttachmentPool on small sets of threads and connections.  Threads are   *)
(* interchangeable, and so are connections: no action and no safety        *)
(* property names one.  The runs of liveness properties use no symmetry.   *)
(***************************************************************************)
EXTENDS AttachmentPool

Symmetry == Permutations(Thread) \cup Permutations(Conn)
=============================================================================

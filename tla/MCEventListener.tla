-------------------------- MODULE MCEventListener ---------------------------
(***************************************************************************)
(* EventListener with a few events and registrations.                      *)
(***************************************************************************)
EXTENDS EventListener

=============================================================================

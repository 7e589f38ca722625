--------------------------- MODULE MCServiceManager ---------------------------
(* Services that print up to three lines.  TLC reads the specification's   *)
(* constants from the configuration.                                       *)
EXTENDS ServiceManager
=============================================================================

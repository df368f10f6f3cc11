--------------------------- MODULE MCInitdService ---------------------------
(***************************************************************************)
(* Two values tell what was committed from what was not, and two faults    *)
(* let a daemon be killed while it recovers from what the first one left.  *)
(***************************************************************************)
EXTENDS InitdService

CONSTANTS v0, v1

=============================================================================

------------------------------- MODULE MCVrrp -------------------------------
(***************************************************************************)
(* One VRRP service and two pids: a vrrpd that is being replaced and the   *)
(* one that replaces it.                                                   *)
(***************************************************************************)
EXTENDS Vrrp
=============================================================================

-------------------------- MODULE MCProcessManager --------------------------
(***************************************************************************)
(* Bounds for ProcessManager: two processes and three pids, one more than  *)
(* the children that can exist at a time, because the pid of a child that  *)
(* has just been reaped is not handed out again at once.                   *)
(***************************************************************************)
EXTENDS ProcessManager
=============================================================================

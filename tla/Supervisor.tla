----------------------------- MODULE Supervisor -----------------------------
(***************************************************************************)
(* What the process manager of pymin/procman.py promises to its clients,   *)
(* with the maps, the pids and the signal handler left out.                *)
(*                                                                         *)
(* A service is "down", "up" (wanted, and kept running when it is          *)
(* persistent), "stopping" (a client asked it to stop and it must not come *)
(* back by itself) or "restarting" (stopped so as to be started again).    *)
(* `live' is the set of services that have a running process: being a set, *)
(* it leaves no room for two processes of one service.                     *)
(***************************************************************************)
CONSTANT Name

VARIABLES mode, live

vars == <<mode, live>>

Mode == {"down", "up", "stopping", "restarting"}

TypeOK == /\ mode \in [Name -> Mode]
          /\ live \subseteq Name

Init == /\ mode = [n \in Name |-> "down"]
        /\ live = {}

\* A client starts a service that is down.
Launch(n) == /\ mode[n] = "down"
             /\ n \notin live
             /\ mode' = [mode EXCEPT ![n] = "up"]
             /\ live' = live \cup {n}

\* The process of a service ends, whatever the service's mode.
Exit(n) == /\ n \in live
           /\ live' = live \ {n}
           /\ UNCHANGED mode

\* The supervisor brings back a service nobody asked to stop.
Respawn(n) == /\ mode[n] = "up"
              /\ n \notin live
              /\ live' = live \cup {n}
              /\ UNCHANGED mode

\* The supervisor forgets a service whose process has ended.
Retire(n) == /\ mode[n] \in {"up", "stopping"}
             /\ n \notin live
             /\ mode' = [mode EXCEPT ![n] = "down"]
             /\ UNCHANGED live

Stop(n) == /\ mode[n] \in {"up", "stopping"}
           /\ mode' = [mode EXCEPT ![n] = "stopping"]
           /\ UNCHANGED live

BeginRestart(n) == /\ mode[n] \in {"up", "stopping"}
                   /\ mode' = [mode EXCEPT ![n] = "restarting"]
                   /\ UNCHANGED live

\* The old process is gone before the new one is there; the launch of the
\* new one may fail, and the service is then up with no process.
EndRestart(n) == /\ mode[n] = "restarting"
                 /\ n \notin live
                 /\ mode' = [mode EXCEPT ![n] = "up"]
                 /\ live' \in {live, live \cup {n}}

Next == \E n \in Name : \/ Launch(n)
                        \/ Exit(n)
                        \/ Respawn(n)
                        \/ Retire(n)
                        \/ Stop(n)
                        \/ BeginRestart(n)
                        \/ EndRestart(n)

Spec == Init /\ [][Next]_vars
=============================================================================

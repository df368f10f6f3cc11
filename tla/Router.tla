------------------------------- MODULE Router -------------------------------
(***************************************************************************)
(* The services that share the network devices, ip, ppp and qos, in one    *)
(* daemon.  A connection of ppp makes a device, which ip and qos find at   *)
(* the next tick of the timer; ip configures the devices, those of ppp     *)
(* too; a device that goes takes its configuration with it.                *)
(*                                                                         *)
(* The daemon may end between any two commands, and the next one restores  *)
(* what was dumped.  A connection that cannot be started then is an error  *)
(* that nothing catches: there is no daemon until it can.                  *)
(***************************************************************************)
EXTENDS IpService, PppService, QosService

CONSTANT MaxEdits  \* how many commands may change something in memory alone

ASSUME RouterAssumption == MaxEdits \in Nat

VARIABLES
    alive,       \* is there a daemon?
    rolledback,  \* history: was there a rollback of ip since its last commit?
    edits        \* how many commands have changed something in memory

own == <<alive, rolledback, edits>>
vars == <<network, ipvars, pppvars, qosvars, own>>

RouterTypeOK == /\ NetworkTypeOK
                /\ IpTypeOK
                /\ PppTypeOK
                /\ QosTypeOK
                /\ alive \in BOOLEAN
                /\ rolledback \in BOOLEAN
                /\ edits \in 0..MaxEdits

Init == /\ NetworkInit
        /\ IpInit
        /\ PppInit
        /\ QosInit
        /\ alive = TRUE
        /\ rolledback = FALSE
        /\ edits = 0

Counted == edits < MaxEdits /\ edits' = edits + 1

-----------------------------------------------------------------------------
IpStep == /\ alive
          /\ \/ IpEdit /\ Counted /\ UNCHANGED rolledback
             \/ /\ \E d \in Dev : DeviceUp(d) \/ DeviceDown(d)
                /\ UNCHANGED <<edits, rolledback>>
             \/ IpCommit /\ rolledback' = FALSE /\ UNCHANGED edits
             \/ IpRollback /\ rolledback' = TRUE /\ UNCHANGED edits
          /\ UNCHANGED <<pppvars, qosvars, alive>>

PppEdit == \E n \in Ppp : \/ \E x \in NewData : ConnAdd(n, x)
                          \/ \E x \in Data : ConnUpdate(n, x)
                          \/ ConnDelete(n)
                          \/ ConnClear

PppCommand == \/ \E ns \in SUBSET Ppp : PppStart(ns) \/ PppStop(ns)
              \/ \E ok, bad \in SUBSET Ppp : \/ PppRestart(ok, bad)
                                             \/ PppReload(ok, bad)
                                             \/ PppCommit(ok, bad)
              \/ PppRollback

PppStep == /\ alive
           /\ \/ PppEdit /\ Counted
              \/ PppCommand /\ UNCHANGED edits
           /\ UNCHANGED <<ipvars, qosvars, alive, rolledback>>

QosStep == /\ alive
           /\ \/ \E d \in Dev, cs \in SUBSET Class : ClassesOf(d, cs) /\ Counted
              \/ (\E d \in Dev : ShapeDown(d)) /\ UNCHANGED edits
              \/ (QosCommit \/ QosRollback) /\ UNCHANGED edits
           /\ UNCHANGED <<ipvars, pppvars, alive, rolledback>>

\* Handler.handle_timer of the root calls that of every service.
Tick == /\ alive
        /\ IpTick
        /\ PppTick
        /\ QosTick
        /\ UNCHANGED own

-----------------------------------------------------------------------------
\* The daemon ends.  Nobody looks at its memory again: the next one begins with
\* what was dumped.
Ends == /\ alive
        /\ alive' = FALSE
        /\ devices' = ipsaved.devices /\ hops' = ipsaved.hops
        /\ nodev' = ipsaved.nodev
        /\ conns' = pppsaved
        /\ shaped' = qossaved
        /\ rolledback' = FALSE
        /\ UNCHANGED <<network, ipsaved, pppd, peers, pppsaved, committed,
                       qossaved, edits>>

\* The constructors of the handlers, in no particular order: ip and qos write
\* their configuration before the connections have devices, or after.  The
\* connections in `up' are started; all that were running have to be.  The
\* routes without a device are written, and then forgotten.
Begins(up, early) ==
    /\ ~alive
    /\ up \subseteq Running
    /\ \A n \in up : peers[n] # None /\ pppd[n] = None
    /\ pppd' = [n \in Ppp |-> IF n \in up THEN peers[n] ELSE pppd[n]]
    /\ alive' = (up = Running)
    /\ LET there == Active \cap (IF early THEN Seen ELSE Seen \cup up)
       IN  \E a \in Addr, no \in Refusals(there), unshaped \in NoClasses(shaped) :
              LET Configd(l) == ShapeAll(Configure(l, there, no), shaped, unshaped)
                  Started(l) == [d \in DOMAIN l \cup up |->
                                    IF d \in up THEN Plugged({a}) ELSE l[d]]
              IN  link' = IF early THEN Started(Configd(link))
                          ELSE IF up = Running THEN Configd(Started(link))
                          ELSE Started(link)
    /\ IF early \/ up = Running THEN BringUp(nodev) /\ WriteHops
       ELSE UNCHANGED <<routes, default>>
    /\ nodev' = IF up = Running THEN {} ELSE nodev
    /\ refused' = refused \ up
    /\ UNCHANGED <<events, devices, hops, ipsaved, conns, peers, pppsaved,
                   committed, qosvars, rolledback, edits>>

-----------------------------------------------------------------------------
Outside == /\ \/ /\ \/ \E d \in Eth : LinkComes(d) \/ LinkGoes(d)
                    \/ DefaultAppears
                 /\ UNCHANGED pppvars
              \/ \E n \in Ppp : PppEnds(n)
           /\ UNCHANGED <<ipvars, qosvars, own>>

Next == \/ IpStep
        \/ PppStep
        \/ QosStep
        \/ Tick
        \/ Ends
        \/ \E up \in SUBSET Ppp, early \in BOOLEAN : Begins(up, early)
        \/ Outside

\* The alarm of the daemon goes on (PyminDaemon!TimerTicks).
Spec == Init /\ [][Next]_vars /\ WF_vars(Tick)

-----------------------------------------------------------------------------
InForce(d) == /\ link[d].addrs = devices[d].addrs
              /\ link[d].up => link[d].routes = devices[d].routes

\* What has not been committed is not in force, whatever was typed, and whatever
\* ticks, devices that went and came, rollbacks and new daemons have configured in
\* between: a device has no other classes than those that were saved, and no other
\* addresses, as long as it was not gone for a tick (then a tick configures it with
\* what is in memory) and no rollback has changed what ip takes it for.  Routes are
\* another matter: dev up adds those that are in memory.
OnlyCommitted ==
    /\ \A d \in Seen : \A c \in link[d].classes :
            d \in DOMAIN qossaved /\ c \in qossaved[d]
    /\ alive /\ ~rolledback =>
          \A d \in Eth \cap Seen \cap Active \cap DOMAIN ipsaved.devices :
              link[d].addrs \subseteq ipsaved.devices[d].addrs

\* Rollback of ppp discards what was not committed, and nothing else, unless a
\* start, a stop or a restart has saved it meanwhile.
RollbackDiscards ==
    [][PppRollback => committed \in {None, DataOf(conns')}]_vars

\* A device that went, for as long as a tick at least, and has come back is
\* configured again, but for what the kernel refuses, unless it goes again, the
\* daemon ends, or a rollback makes ip believe that it never went.  One that was
\* away between two ticks is taken for one that never went, and not configured.
ReturnedDeviceIsConfigured ==
    \A d \in Dev : (alive /\ d \in Back) ~>
                        \/ d \notin Seen \/ ~alive \/ rolledback
                        \/ d \in Known \cap Seen /\ (InForce(d) \/ d \in refused)
=============================================================================

----------------------------- MODULE VrrpProofs -----------------------------
(***************************************************************************)
(* Proofs about Vrrp, for any set of pids.  They rest on the lemmas about  *)
(* the process manager: its invariant IInv holds here too, although its    *)
(* methods are called in combinations that the manager itself knows        *)
(* nothing of.                                                             *)
(***************************************************************************)
EXTENDS Vrrp, ProcessManagerProofs

\* The handler of a daemon that is up has saved its flag, and a vrrpd that goes
\* on after stop() is one that is not to come back.
Settled == Up => /\ saved \in Files
                 /\ saved.running = running
                 /\ ~running /\ vrrp \in namemap => dont_run[vrrp]

\* A daemon whose handler is not there yet has done nothing.
Fresh == vrrp \notin services =>
            /\ pc = "idle" /\ namemap = {} /\ ~sigchld
            /\ \A p \in Pid : child[p] = "free"

HandlerTypeOK == /\ running \in BOOLEAN
                 /\ keep \in BOOLEAN
                 /\ saved \in Files \cup {NoFiles}

VInv == IInv /\ HandlerTypeOK /\ Settled /\ Fresh

USE ConstantsAssumption, VrrpAssumption
    DEF Location, ChildState, Zombie, Signal, maps, info, kernel, control, handler

-----------------------------------------------------------------------------
\* What the commands do with the process manager keeps its invariant.
LEMMA FlagsChange ==
    ASSUME IInv, services' \subseteq Name, persist' \in [Name -> BOOLEAN],
           UNCHANGED <<namemap, pidmap, process, dont_run, signal, error_count,
                       kernel, control>>
    PROVE  IInv'
BY DEF IInv, TypeOK, MapsAgree, ChildrenManaged, NoExitIsLost, Hand, Cleared

LEMMA ServiceCalled ==
    ASSUME IInv, pc = "idle", vrrp \notin namemap, Call(vrrp),
           services' \subseteq Name, persist' \in [Name -> BOOLEAN],
           UNCHANGED control
    PROVE  IInv'
  <1> USE DEF IInv, Call, Popen, Launch, Reset
  <1>1. TypeOK'
    BY DEF TypeOK
  <1>2. MapsAgree'
    BY DEF TypeOK, MapsAgree, ChildrenManaged, Hand
  <1>3. ChildrenManaged'
    BY DEF TypeOK, MapsAgree, ChildrenManaged, Hand
  <1>4. NoExitIsLost'
    BY DEF TypeOK, NoExitIsLost, ChildrenManaged, Hand
  <1>5. Hand'
    BY DEF TypeOK, MapsAgree, ChildrenManaged, Hand
  <1>6. Cleared'
    BY DEF TypeOK, Hand, Cleared
  <1>7. QED
    BY <1>1, <1>2, <1>3, <1>4, <1>5, <1>6

LEMMA ServiceStarts ==
    ASSUME IInv, pc = "idle", NEW k \in BOOLEAN, ServiceStart(k),
           services' \subseteq Name, UNCHANGED control
    PROVE  /\ IInv'
           /\ vrrp \in namemap' \/ UNCHANGED <<namemap, child, runs, sigchld>>
  <1>1. persist' \in [Name -> BOOLEAN]
    BY DEF IInv, TypeOK, ServiceStart
  <1>2. CASE vrrp \in namemap
    BY <1>1, <1>2, FlagsChange DEF ServiceStart
  <1>3. CASE vrrp \notin namemap
    <2>1. Call(vrrp)
      BY <1>3 DEF ServiceStart
    <2>2. IInv'
      BY <1>1, <1>3, <2>1, ServiceCalled
    <2>3. vrrp \in namemap' \/ UNCHANGED <<namemap, child, runs, sigchld>>
      BY <2>1 DEF IInv, TypeOK, Call, Launch, Popen
    <2>4. QED
      BY <2>2, <2>3
  <1>4. QED
    BY <1>2, <1>3

LEMMA ServiceStops ==
    ASSUME IInv, pc = "idle", vrrp \in namemap, SendStop(vrrp),
           persist' \in [Name -> BOOLEAN], UNCHANGED <<maps, kernel, control>>
    PROVE  IInv' /\ dont_run'[vrrp]
  <1> USE DEF IInv, SendStop
  <1>1. TypeOK'
    BY DEF TypeOK
  <1>2. MapsAgree'
    BY DEF TypeOK, MapsAgree, ChildrenManaged, Hand
  <1>3. ChildrenManaged'
    BY DEF TypeOK, MapsAgree, ChildrenManaged, Hand
  <1>4. NoExitIsLost'
    BY DEF TypeOK, NoExitIsLost, ChildrenManaged, Hand
  <1>5. Hand'
    BY DEF TypeOK, MapsAgree, ChildrenManaged, Hand
  <1>6. Cleared'
    BY DEF TypeOK, Hand, Cleared
  <1>7. dont_run'[vrrp]
    BY DEF TypeOK
  <1>8. QED
    BY <1>1, <1>2, <1>3, <1>4, <1>5, <1>6, <1>7

\* The manager's own steps keep it, whoever calls.
LEMMA ManagerKeeps == IInv /\ (BeginSigchild \/ SigchildHandler) => IInv'
  <1>1. IInv /\ BeginSigchild => IInv'
    BY BeginSigchildStep
  <1>2. IInv /\ SigchildHandler => IInv'
    BY ReapStep, EndSigchildStep, CallbackReturnsStep, CallbackStartsStep,
       ForgetStep, RespawnStep DEF SigchildHandler
  <1>3. QED
    BY <1>1, <1>2

-----------------------------------------------------------------------------
LEMMA InitVInv == VrrpInit => VInv
  <1> SUFFICES ASSUME VrrpInit PROVE VInv
    OBVIOUS
  <1>1. IInv
    BY InitIInv DEF VrrpInit
  <1>2. HandlerTypeOK /\ Settled /\ Fresh
    BY DEF VrrpInit, Init, HandlerTypeOK, Settled, Fresh, Up
  <1>3. QED
    BY <1>1, <1>2 DEF VInv

\* What the commands find.
LEMMA IdleFinds ==
    ASSUME VInv, Idle
    PROVE  /\ IInv /\ pc = "idle" /\ vrrp \in services /\ services \subseteq Name
           /\ running \in BOOLEAN /\ keep \in BOOLEAN
           /\ saved \in Files /\ saved.running = running
           /\ saved.persist \in BOOLEAN
           /\ ~running /\ vrrp \in namemap => dont_run[vrrp]
           /\ persist \in [Name -> BOOLEAN]
BY DEF VInv, IInv, TypeOK, HandlerTypeOK, Settled, Up, Idle, Files

\* The end of a command: the invariant of the manager holds, and the flag that
\* was saved is right.
LEMMA CommandEnds ==
    ASSUME IInv', vrrp \in services', running' \in BOOLEAN, keep' \in BOOLEAN,
           saved' \in Files, saved'.running = running',
           ~running' /\ vrrp \in namemap' => dont_run'[vrrp]
    PROVE  VInv'
BY DEF VInv, HandlerTypeOK, Settled, Fresh

\* start() with `files' on disk.
LEMMA StartEnds ==
    ASSUME VInv, Idle, ServiceStart(keep), NEW files \in Files,
           StartedIfThere(files), UNCHANGED <<services, control, keep>>
    PROVE  VInv'
  <1>1. IInv'
    BY IdleFinds, ServiceStarts
  <1>2. running' = (vrrp \in namemap') /\ saved' = [files EXCEPT !.running = running']
    BY DEF StartedIfThere
  <1>3. running' \in BOOLEAN
    BY <1>2
  <1>4. saved' \in Files /\ saved'.running = running'
    BY <1>2, <1>3 DEF Files
  <1>5. QED
    BY <1>1, <1>2, <1>3, <1>4, IdleFinds, CommandEnds

LEMMA StopAndStartKeeps ==
    ASSUME VInv, Idle, NEW files \in Files, files.running = running,
           StopAndStart(files)
    PROVE  VInv'
  <1>1. CASE running /\ vrrp \in namemap
    <2>1. /\ SendStop(vrrp) /\ saved' = files
          /\ persist' = [persist EXCEPT ![vrrp] = keep]
          /\ UNCHANGED <<maps, kernel, control, running, keep>>
      BY <1>1 DEF StopAndStart
    <2>2. persist' \in [Name -> BOOLEAN]
      BY <2>1, IdleFinds
    <2>3. IInv'
      BY <1>1, <2>1, <2>2, IdleFinds, ServiceStops
    <2>4. vrrp \in services' /\ running' = running /\ keep' = keep
      BY <2>1, IdleFinds
    <2>5. QED
      BY <1>1, <2>1, <2>3, <2>4, IdleFinds, CommandEnds
  <1>2. CASE ~(running /\ vrrp \in namemap)
    BY <1>2, StartEnds DEF StopAndStart
  <1>3. QED
    BY <1>1, <1>2

LEMMA CommandKeeps ==
    ASSUME VInv,
           \/ StartService \/ StopService \/ RestartService \/ Commit \/ Rollback
           \/ \E k \in BOOLEAN : SetPersist(k)
    PROVE  VInv'
  <1>1. Idle
    BY DEF StartService, StopService, RestartService, Commit, Rollback, SetPersist
  <1>2. CASE StartService
    BY <1>1, <1>2, IdleFinds, StartEnds DEF StartService
  <1>3. CASE StopService
    <2>1. /\ running' = FALSE /\ saved' = [saved EXCEPT !.running = FALSE]
          /\ UNCHANGED <<maps, persist, kernel, control, keep>>
      BY <1>3 DEF StopService
    <2>2. saved' \in Files /\ saved'.running = FALSE
      BY <1>1, <2>1, IdleFinds DEF Files
    <2>3. IInv' /\ (vrrp \in namemap' => dont_run'[vrrp])
      <3>1. CASE vrrp \in namemap
        BY <1>1, <1>3, <2>1, <3>1, IdleFinds, ServiceStops DEF StopService
      <3>2. CASE vrrp \notin namemap
        BY <1>1, <1>3, <2>1, <3>2, IdleFinds, FlagsChange DEF StopService
      <3>3. QED
        BY <3>1, <3>2
    <2>4. QED
      BY <1>1, <2>1, <2>2, <2>3, IdleFinds, CommandEnds
  <1>4. CASE RestartService
    BY <1>1, <1>4, IdleFinds, StopAndStartKeeps DEF RestartService
  <1>5. CASE Commit
    <2> DEFINE files == [persist |-> keep, running |-> running]
    <2>1. files \in Files /\ files.running = running
      BY <1>1, IdleFinds DEF Files
    <2>2. CASE StopAndStart(files)
      BY <1>1, <2>1, <2>2, StopAndStartKeeps
    <2>3. CASE saved' = files /\ UNCHANGED <<vars, running, keep>>
      <3>1. UNCHANGED <<maps, info, kernel, control, running, keep>>
        BY <2>3 DEF vars
      <3>2. IInv'
        BY <1>1, <3>1, IdleFinds, FlagsChange
      <3>3. QED
        BY <1>1, <2>1, <2>3, <3>1, <3>2, IdleFinds, CommandEnds
    <2>4. QED
      BY <1>5, <2>2, <2>3 DEF Commit
  <1>6. CASE Rollback
    <2>1. UNCHANGED <<maps, info, kernel, control, running, saved>>
      BY <1>1, <1>6, IdleFinds DEF Rollback, vars
    <2>2. IInv' /\ keep' \in BOOLEAN
      BY <1>1, <1>6, <2>1, IdleFinds, FlagsChange DEF Rollback
    <2>3. QED
      BY <1>1, <2>1, <2>2, IdleFinds, CommandEnds
  <1>7. CASE \E k \in BOOLEAN : SetPersist(k)
    <2>1. UNCHANGED <<maps, info, kernel, control, running, saved>>
          /\ keep' \in BOOLEAN
      BY <1>7 DEF SetPersist, vars
    <2>2. IInv'
      BY <1>1, <2>1, IdleFinds, FlagsChange
    <2>3. QED
      BY <1>1, <2>1, <2>2, IdleFinds, CommandEnds
  <1>8. QED
    BY <1>2, <1>3, <1>4, <1>5, <1>6, <1>7

-----------------------------------------------------------------------------
LEMMA BootKeeps == ASSUME VInv, Boot PROVE VInv'
  <1>1. /\ IInv /\ pc = "idle" /\ vrrp \notin services /\ namemap = {}
        /\ saved \in Files \cup {NoFiles} /\ persist \in [Name -> BOOLEAN]
        /\ UNCHANGED control
    BY DEF VInv, IInv, TypeOK, HandlerTypeOK, Fresh, Boot
  <1>2. CASE RestoreDefaults
    <2>1. /\ keep' = TRUE /\ running' = FALSE /\ services' = {vrrp}
          /\ saved' = [persist |-> TRUE, running |-> FALSE]
          /\ UNCHANGED <<namemap, pidmap, info, kernel>>
      BY <1>2 DEF RestoreDefaults
    <2>2. saved' \in Files /\ saved'.running = running'
      BY <2>1 DEF Files
    <2>3. IInv'
      BY <1>1, <2>1, FlagsChange
    <2>4. QED
      BY <1>1, <2>1, <2>2, <2>3, CommandEnds
  <1>3. CASE saved # NoFiles /\ Restore
    <2>1. /\ saved \in Files /\ saved.running \in BOOLEAN /\ saved.persist \in BOOLEAN
          /\ keep' = saved.persist /\ running' = saved.running
          /\ services' = {vrrp} /\ saved' = saved
      BY <1>1, <1>3 DEF Restore, Files
    <2>2. CASE saved.running /\ ServiceStart(saved.persist)
      <3>1. IInv'
        BY <1>1, <2>1, <2>2, ServiceStarts
      <3>2. QED
        BY <2>1, <2>2, <3>1, CommandEnds
    <2>3. CASE ~saved.running /\ UNCHANGED <<namemap, pidmap, info, kernel>>
      <3>1. IInv'
        BY <1>1, <2>1, <2>3, FlagsChange
      <3>2. QED
        BY <1>1, <2>1, <2>3, <3>1, CommandEnds
    <2>4. QED
      BY <1>3, <2>2, <2>3 DEF Restore
  <1>4. QED
    BY <1>2, <1>3 DEF Boot

\* The next daemon knows nothing of what there was.
LEMMA ExitKeeps == ASSUME VInv, Exit PROVE VInv'
  <1> USE DEF Exit, Reset, Leave
  <1>1. TypeOK'
    BY DEF VInv, IInv, TypeOK
  <1>2. dont_run' = [n \in Name |-> FALSE] /\ process' = [n \in Name |-> NoPid]
    BY DEF VInv, IInv, TypeOK
  <1>3. MapsAgree' /\ ChildrenManaged' /\ NoExitIsLost'
    BY <1>2 DEF MapsAgree, ChildrenManaged, NoExitIsLost
  <1>4. Hand' /\ Cleared'
    BY <1>2 DEF Hand, Cleared
  <1>5. HandlerTypeOK' /\ Settled' /\ Fresh'
    BY DEF VInv, HandlerTypeOK, Settled, Fresh, Up
  <1>6. QED
    BY <1>1, <1>3, <1>4, <1>5 DEF VInv, IInv

\* A SIGCHLD is handled: a vrrpd comes back only if its service is running.
LEMMA SigchildKeeps == ASSUME VInv, ManagerStep PROVE VInv'
  <1>1. IInv' /\ UNCHANGED handler
    BY ManagerKeeps DEF VInv, ManagerStep
  <1>2. UNCHANGED services
    BY DEF ManagerStep, BeginSigchild, SigchildHandler, Reap, EndSigchild,
           CallbackReturns, CallbackStarts, Forget, Respawn
  <1>3. vrrp \in services /\ pc # "down"
    <2>1. pc \in {"waitpid", "callback", "settle"} \/ sigchld
      BY DEF ManagerStep, BeginSigchild, SigchildHandler, Reap, EndSigchild,
             CallbackReturns, CallbackStarts, Forget, Respawn
    <2>2. pc # "down"
      BY DEF ManagerStep, BeginSigchild, SigchildHandler, Reap, EndSigchild,
             CallbackReturns, CallbackStarts, Forget, Respawn
    <2>3. QED
      BY <2>1, <2>2 DEF VInv, Fresh
  <1>4. Settled'
    <2>1. /\ saved' \in Files /\ saved'.running = running'
          /\ ~running /\ vrrp \in namemap => dont_run[vrrp]
      BY <1>1, <1>3 DEF VInv, Settled, Up
    <2>2. ~running' /\ vrrp \in namemap' /\ pc' # "down" => dont_run'[vrrp]
      <3>1. CASE UNCHANGED <<namemap, dont_run>>
        BY <1>1, <2>1, <3>1
      <3>2. ASSUME NEW n \in Name, CallbackStarts(n) PROVE FALSE
        BY <3>2 DEF CallbackStarts, VInv, IInv, Hand, MapsAgree, TypeOK
      <3>3. CASE Forget
        BY <3>3 DEF Forget, VInv, IInv, Hand
      <3>4. CASE Respawn
        <4>1. who = vrrp /\ who \in namemap /\ ~dont_run[who]
          BY <3>4 DEF Respawn, GivenUp, VInv, IInv, Hand, MapsAgree, TypeOK
        <4>2. running
          BY <2>1, <4>1
        <4>3. QED
          BY <1>1, <4>2
      <3>5. QED
        BY <3>1, <3>2, <3>3, <3>4 DEF ManagerStep, BeginSigchild, SigchildHandler,
           Reap, EndSigchild, CallbackReturns
    <2>3. QED
      BY <2>1, <2>2 DEF Settled, Up
  <1>5. QED
    BY <1>1, <1>2, <1>3, <1>4 DEF VInv, HandlerTypeOK, Fresh

LEMMA ExitsKeep == ASSUME VInv, NEW p \in Pid, VrrpdExits(p) PROVE VInv'
  <1>1. PICK how \in Zombie : ChildExits(p, how)
    BY DEF VrrpdExits
  <1>2. IInv'
    BY <1>1, ChildExitsStep DEF VInv
  <1>3. vrrp \in services
    BY <1>1 DEF VInv, Fresh, ChildExits
  <1>4. UNCHANGED <<services, namemap, dont_run, pc, running, keep, saved>>
    BY <1>1 DEF ChildExits, VrrpdExits
  <1>5. QED
    BY <1>2, <1>3, <1>4 DEF VInv, HandlerTypeOK, Settled, Fresh, Up

\* The invariant of the VRRP service and of the process manager below it.
THEOREM VrrpInductive == VrrpSpec => []VInv
  <1>1. VInv /\ [VrrpNext]_vrrpvars => VInv'
    <2> SUFFICES ASSUME VInv, [VrrpNext]_vrrpvars PROVE VInv'
      OBVIOUS
    <2>1. CASE UNCHANGED vrrpvars
      <3>1. UNCHANGED <<maps, info, kernel, control, handler>>
        BY <2>1 DEF vrrpvars, vars
      <3>2. IInv'
        BY <3>1, FlagsChange DEF VInv, IInv, TypeOK
      <3>3. QED
        BY <3>1, <3>2 DEF VInv, HandlerTypeOK, Settled, Fresh, Up
    <2>2. QED
      BY <2>1, CommandKeeps, BootKeeps, ExitKeeps, SigchildKeeps, ExitsKeep
         DEF VrrpNext
  <1>2. QED
    BY <1>1, InitVInv, PTL DEF VrrpSpec

\* Types, and that a handler that is up has dumped its defaults.
THEOREM VrrpTypeCorrect == VrrpSpec => []VrrpTypeOK
  <1>1. VInv => VrrpTypeOK
    BY DEF VInv, IInv, HandlerTypeOK, Settled, VrrpTypeOK
  <1>2. QED
    BY <1>1, VrrpInductive, PTL

\* A rollback may load the flag from the pickle file at any time and will not
\* change it (util.py:549-586, 722).
THEOREM FlagIsAlwaysSaved == VrrpSpec => []FlagIsSaved
  <1>1. VInv => FlagIsSaved
    BY IdleFinds DEF FlagIsSaved
  <1>2. QED
    BY <1>1, VrrpInductive, PTL

-----------------------------------------------------------------------------
\* No vrrpd appears when no pid becomes alive.
LEMMA NobodyNew ==
    ASSUME \A p \in Pid : child'[p] = "alive" => child[p] = "alive" /\ runs'[p] = runs[p]
    PROVE  SupervisorLive' \subseteq SupervisorLive
BY DEF SupervisorLive

\* A stopped service stays stopped: the persistence of vrrpd does not bring it
\* back behind stop(), however the exit, the signal and the commands fall.
THEOREM StoppedStaysStopped == VrrpSpec => NothingStartsWhileStopped
  <1>1. VInv /\ [VrrpNext]_vrrpvars =>
           [~running /\ ~running' => SupervisorLive' \subseteq SupervisorLive]_vrrpvars
    <2> SUFFICES ASSUME VInv, VrrpNext, ~running, ~running'
                 PROVE  SupervisorLive' \subseteq SupervisorLive
      OBVIOUS
    <2>1. ASSUME Idle, ServiceStart(keep), NEW files, StartedIfThere(files),
                 UNCHANGED <<services, control>>
          PROVE  SupervisorLive' \subseteq SupervisorLive
      <3>1. vrrp \notin namemap'
        BY <2>1 DEF StartedIfThere
      <3>2. UNCHANGED <<child, runs>>
        BY <2>1, <3>1, IdleFinds, ServiceStarts
      <3>3. QED
        BY <3>2, NobodyNew
    <2>2. CASE StartService
      BY <2>1, <2>2 DEF StartService
    <2>3. CASE RestartService
      BY <2>1, <2>3 DEF RestartService, StopAndStart
    <2>4. CASE UNCHANGED <<child, runs>>
      BY <2>4, NobodyNew
    <2>5. CASE Boot
      BY <2>4, <2>5 DEF Boot, RestoreDefaults, Restore
    <2>6. CASE Exit
      BY <2>6, NobodyNew DEF Exit
    <2>7. CASE ManagerStep
      <3>1. CASE \E p \in Pid : Reap(p)
        <4>1. PICK p \in Pid : Reap(p)
          BY <3>1
        <4>2. \A r \in Pid : child'[r] = "alive" =>
                 child[r] = "alive" /\ runs'[r] = runs[r]
          BY <4>1 DEF Reap, VInv, IInv, TypeOK
        <4>3. QED
          BY <4>2, NobodyNew
      <3>2. CASE \E n \in Name : CallbackStarts(n)
        BY <3>2 DEF CallbackStarts, VInv, IInv, Hand, MapsAgree, TypeOK
      <3>3. CASE Respawn
        <4>1. who = vrrp /\ who \in namemap /\ ~dont_run[who] /\ pc = "settle"
          BY <3>3 DEF Respawn, GivenUp, VInv, IInv, Hand, MapsAgree, TypeOK
        <4>2. running
          BY <4>1 DEF VInv, Settled, Up, Fresh
        <4>3. QED
          BY <4>2
      <3>4. QED
        BY <2>4, <2>7, <3>1, <3>2, <3>3 DEF ManagerStep, BeginSigchild,
           SigchildHandler, EndSigchild, CallbackReturns, Forget
    <2>8. CASE \E p \in Pid : VrrpdExits(p)
      <3>1. PICK p \in Pid, how \in Zombie : ChildExits(p, how)
        BY <2>8 DEF VrrpdExits
      <3>2. \A r \in Pid : child'[r] = "alive" =>
               child[r] = "alive" /\ runs'[r] = runs[r]
        BY <3>1 DEF ChildExits, VInv, IInv, TypeOK
      <3>3. QED
        BY <3>2, NobodyNew
    <2>9. QED
      BY <2>2, <2>3, <2>4, <2>5, <2>6, <2>7, <2>8
         DEF VrrpNext, StopService, Commit, Rollback, SetPersist, vars
  <1>2. QED
    BY <1>1, VrrpInductive, PTL DEF VrrpSpec, NothingStartsWhileStopped

\* The next daemon starts the service that was running (util.py:546-549).
THEOREM BootAlwaysStarts == VrrpSpec => BootStarts
  <1>1. VInv /\ [VrrpNext]_vrrpvars =>
           [vrrp \notin services /\ vrrp \in services' /\ running'
              => vrrp \in SupervisorLive']_vrrpvars
    <2> SUFFICES ASSUME VInv, VrrpNext, vrrp \notin services, vrrp \in services',
                        running'
                 PROVE  vrrp \in SupervisorLive'
      OBVIOUS
    <2>1. Boot
      <3>1. ~Idle
        BY DEF Idle
      <3>2. ~ManagerStep
        BY DEF ManagerStep, BeginSigchild, SigchildHandler, Reap, EndSigchild,
               CallbackReturns, CallbackStarts, Forget, Respawn
      <3>3. QED
        BY <3>1, <3>2 DEF VrrpNext, StartService, StopService, RestartService,
           Commit, Rollback, SetPersist, Exit, VrrpdExits, ChildExits
    <2>2. namemap = {} /\ Restore
      BY <2>1 DEF VInv, Fresh, Boot, RestoreDefaults
    <2>3. Call(vrrp) /\ vrrp \in namemap'
      BY <2>2 DEF Restore, ServiceStart
    <2>4. PICK q \in Pid : child'[q] = "alive" /\ runs'[q] = vrrp
      BY <2>2, <2>3 DEF Call, Popen, Launch
    <2>5. QED
      BY <2>4 DEF SupervisorLive
  <1>2. QED
    BY <1>1, VrrpInductive, PTL DEF VrrpSpec, BootStarts
=============================================================================

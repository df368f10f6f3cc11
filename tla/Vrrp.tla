-------------------------------- MODULE Vrrp --------------------------------
(***************************************************************************)
(* services/vrrp/handler.py over pymin/procman.py: the VRRP service, whose *)
(* vrrpd is a child of the daemon.                                         *)
(*                                                                         *)
(* VrrpHandler gets its commands from the helper classes of                *)
(* pymin/service/util.py: start and stop from ServiceHandler, restart from *)
(* RestartHandler, reload from ReloadHandler, commit and rollback from     *)
(* TransactionalHandler, set from ParametersHandler.  A command is one     *)
(* action: it runs in the daemon's only thread, and a SIGCHLD of its       *)
(* middle is handled after its end.                                        *)
(*                                                                         *)
(* Of the parameters only `persist' matters here; the others make up the   *)
(* command line.  The daemon may end and be started again; a vrrpd that it *)
(* leaves behind is nobody's child.                                        *)
(***************************************************************************)
EXTENDS ProcessManager

CONSTANTS vrrp,    \* the name VrrpHandler registers
          NoFiles  \* what there is before the first dump

Files == [persist : BOOLEAN, running : BOOLEAN]

ASSUME VrrpAssumption == /\ Name = {vrrp}
                         /\ NoFiles \notin Files

VARIABLES
    running,  \* _service_running
    keep,     \* is params['persist'] true?
    saved     \* the pickle files of params and _service_running

handler == <<running, keep, saved>>
vrrpvars == <<vars, handler>>

\* The handler is there, and the daemon goes on.
Up == vrrp \in services /\ pc # "down"

VrrpTypeOK == /\ TypeOK
              /\ running \in BOOLEAN
              /\ keep \in BOOLEAN
              /\ saved \in Files \cup {NoFiles}
              /\ Up => saved # NoFiles

\* The first daemon has been started; it has no handler yet.
VrrpInit == /\ Init
            /\ running = FALSE
            /\ keep = TRUE
            /\ saved = NoFiles

Idle == pc = "idle" /\ vrrp \in services

-----------------------------------------------------------------------------
\* _service_start(): procman.start() does nothing for a name in namemap.
ServiceStart(k) ==
    /\ persist' = [persist EXCEPT ![vrrp] = k]
    /\ IF vrrp \in namemap
       THEN UNCHANGED <<namemap, pidmap, process, dont_run, signal, error_count,
                        kernel>>
       ELSE Call(vrrp)

\* The end of start(): the flag is set and dumped, unless Popen has raised.
StartedIfThere(files) == /\ running' = (vrrp \in namemap')
                         /\ saved' = [files EXCEPT !.running = running']

\* A bug: the flag is set first, whatever comes of Popen.
StartServiceEarly == /\ Idle
                     /\ ~running
                     /\ ServiceStart(keep)
                     /\ running' = TRUE
                     /\ saved' = [saved EXCEPT !.running = vrrp \in namemap']
                     /\ UNCHANGED <<services, control, keep>>

StartService == /\ Idle
                /\ ~running
                /\ ServiceStart(keep)
                /\ StartedIfThere(saved)
                /\ UNCHANGED <<services, control, keep>>

\* A bug: the process is forgotten, not stopped.
StopServiceLeaves == /\ Idle
                     /\ running
                     /\ running' = FALSE
                     /\ saved' = [saved EXCEPT !.running = FALSE]
                     /\ UNCHANGED <<vars, keep>>

StopService == /\ Idle
               /\ running
               /\ IF vrrp \in namemap
                  THEN SendStop(vrrp)
                  ELSE UNCHANGED <<process, dont_run, signal, error_count>>
               /\ running' = FALSE
               /\ saved' = [saved EXCEPT !.running = FALSE]
               /\ UNCHANGED <<maps, persist, kernel, control, keep>>

\* stop() and then start(), with `files' on disk.  The exit of the stopped
\* process cannot have been seen in between: its name is still in namemap, and
\* start() starts nothing but says that the service is running.
StopAndStart(files) ==
    /\ \/ /\ running
          /\ vrrp \in namemap
          /\ SendStop(vrrp)
          /\ persist' = [persist EXCEPT ![vrrp] = keep]
          /\ UNCHANGED <<namemap, pidmap, kernel, running>>
          /\ saved' = files
       \/ /\ ~(running /\ vrrp \in namemap)
          /\ ServiceStart(keep)
          /\ StartedIfThere(files)
    /\ UNCHANGED <<services, control, keep>>

\* restart; reload of a running service does the same, of any other nothing.
RestartService == Idle /\ StopAndStart(saved)

\* commit: dump everything, and reload().
Commit == /\ Idle
          /\ LET files == [persist |-> keep, running |-> running]
             IN \/ running /\ StopAndStart(files)
                \/ ~running /\ saved' = files /\ UNCHANGED <<vars, running, keep>>

\* rollback loads all the attributes, _service_running among them.
Rollback == /\ Idle
            /\ keep' = saved.persist
            /\ running' = saved.running
            /\ UNCHANGED <<vars, saved>>

\* set persist: any text that is not empty is true.
SetPersist(k) == /\ Idle
                 /\ keep' = k
                 /\ UNCHANGED <<vars, running, saved>>

-----------------------------------------------------------------------------
\* A bug: the flag that was restored keeps start() from starting anything.
RestoreKeepsFlag == /\ keep' = saved.persist
                    /\ running' = saved.running
                    /\ services' = {vrrp}
                    /\ UNCHANGED <<namemap, pidmap, info, kernel, saved>>

\* What was dumped is loaded, and a service that was running is started.  When
\* Popen raises, pymind ends and its memory is gone: nothing has changed.
Restore == /\ keep' = saved.persist
           /\ running' = saved.running
           /\ \/ saved.running /\ ServiceStart(saved.persist) /\ vrrp \in namemap'
              \/ ~saved.running /\ UNCHANGED <<namemap, pidmap, info, kernel>>
           /\ services' = {vrrp}
           /\ UNCHANGED saved

\* A bug: the defaults are not dumped.
RestoreDefaultsOnly == /\ keep' = TRUE
                       /\ running' = FALSE
                       /\ services' = {vrrp}
                       /\ UNCHANGED <<namemap, pidmap, info, kernel, saved>>

\* Nothing to load: the defaults are taken and committed.
RestoreDefaults == /\ keep' = TRUE
                   /\ running' = FALSE
                   /\ saved' = [persist |-> TRUE, running |-> FALSE]
                   /\ services' = {vrrp}
                   /\ UNCHANGED <<namemap, pidmap, info, kernel>>

\* VrrpHandler.__init__ in a new daemon.
Boot == /\ pc = "idle"
        /\ vrrp \notin services
        /\ \/ saved = NoFiles /\ RestoreDefaults
           \/ saved # NoFiles /\ Restore
        /\ UNCHANGED control

\* The daemon ends, by stop() or by an exception, and another one is started:
\* all that was in memory is gone, and so are the children.
Exit == /\ Idle \/ pc = "down"
        /\ services' = {} /\ namemap' = {}
        /\ pidmap' = [p \in Pid |-> NoName]
        /\ Reset(vrrp, NoPid)
        /\ persist' = [n \in Name |-> FALSE]
        /\ child' = [p \in Pid |-> "free"]
        /\ runs' = [p \in Pid |-> NoName]
        /\ sigchld' = FALSE
        /\ Leave("idle")
        /\ running' = FALSE /\ keep' = TRUE
        /\ UNCHANGED saved

ManagerStep == /\ BeginSigchild \/ SigchildHandler
               /\ UNCHANGED handler

VrrpdExits(p) == /\ \E how \in Zombie : ChildExits(p, how)
                 /\ UNCHANGED handler

VrrpNext == \/ StartService
            \/ StopService
            \/ RestartService
            \/ Commit
            \/ Rollback
            \/ \E k \in BOOLEAN : SetPersist(k)
            \/ Boot
            \/ Exit
            \/ ManagerStep
            \/ \E p \in Pid : VrrpdExits(p)

VrrpSpec == VrrpInit /\ [][VrrpNext]_vrrpvars

\* The daemon handles its signals before it serves a request, and a vrrpd
\* that was signalled ends.
VrrpFairness ==
    /\ WF_vrrpvars(SigchildHandler /\ UNCHANGED handler)
    /\ SF_vrrpvars(BeginSigchild /\ UNCHANGED handler)
    /\ \A p \in Pid : WF_vrrpvars(signal[vrrp] # "none" /\ process[vrrp] = p
                                     /\ VrrpdExits(p))

VrrpFairSpec == VrrpSpec /\ VrrpFairness

-----------------------------------------------------------------------------
\* Between commands the pickle file knows whether the service is running: a
\* rollback, which loads it, starts and stops nothing (util.py:549-586, 722).
FlagIsSaved == Idle => saved.running = running

\* A service that is stopped stays stopped: while _service_running is false no
\* vrrpd appears, although a persistent one is brought back whenever it ends,
\* and although stop() returns before its vrrpd has ended.
NothingStartsWhileStopped ==
    [][~running /\ ~running' => SupervisorLive' \subseteq SupervisorLive]_vrrpvars

\* A service that was running when the daemon ended is started by the next one
\* (util.py:546-549): the restored flag is not taken for a running vrrpd.
BootStarts ==
    [][vrrp \notin services /\ vrrp \in services' /\ running'
          => vrrp \in SupervisorLive']_vrrpvars

\* After stop() the vrrpd goes, and the process manager notices.
StoppedGoesAway == (Up /\ ~running) ~> (vrrp \notin namemap \/ running \/ ~Up)

\* util.py:616, the help of restart: "Restart the service (alias to stop +
\* start)".  So a running service has a vrrpd in the end that nobody stopped.
RunningServiceRuns ==
    (Up /\ running /\ persist[vrrp])
        ~> \/ vrrp \in SupervisorLive /\ ~dont_run[vrrp]
           \/ ~(Up /\ running /\ persist[vrrp])
=============================================================================

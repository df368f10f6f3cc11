--------------------------- MODULE ProcessManager ---------------------------
(***************************************************************************)
(* pymin/procman.py: the manager of the daemon's child processes.          *)
(*                                                                         *)
(* The daemon has one thread, so a method of ProcessManager runs without   *)
(* interruption by another; what runs beside it are the children, which    *)
(* exit whenever they like and leave a zombie and a SIGCHLD behind.  A     *)
(* method is one action, except where it lets children exit in its middle  *)
(* in a way somebody can tell: restart() blocks in process.wait(), and     *)
(* sigchild_handler() collects one child per turn of its loop.             *)
(*                                                                         *)
(* A ProcessInfo is known by its name: register() and once() refuse a name *)
(* that is in services or in namemap, so at most one object is in use per  *)
(* name.  Its attributes are functions on names.  A child is known by its  *)
(* pid; the kernel side (child, runs, sigchld) is what os.waitpid, os.kill *)
(* and subprocess.Popen act on.                                            *)
(***************************************************************************)
EXTENDS Naturals

CONSTANTS Name,       \* names of the processes
          Pid,        \* process identifiers
          NoName, NoPid,
          MaxErrors,  \* ProcessInfo.max_errors
          CanFail     \* may subprocess.Popen raise OSError?

ASSUME ConstantsAssumption == /\ NoName \notin Name
                              /\ NoPid \notin Pid
                              /\ MaxErrors \in Nat
                              /\ CanFail \in BOOLEAN

VARIABLES
    services,     \* ProcessManager.services: the registered names
    namemap,      \* ProcessManager.namemap: the names it believes running
    pidmap,       \* ProcessManager.pidmap: the name behind a pid, or NoName
    process,      \* ProcessInfo._process: the pid of the Popen object, or NoPid
    dont_run,     \* ProcessInfo._dont_run
    signal,       \* ProcessInfo._signal
    error_count,  \* ProcessInfo._error_count
    persist,      \* ProcessInfo.persist
    child,        \* state of every pid, as the kernel has it
    runs,         \* the name whose command the child runs, or NoName
    sigchld,      \* is a SIGCHLD waiting to be handled?
    pc, cur, who, \* where the daemon is, with which pid, for which process
    status        \* how the child in the handler's hands ended, or "none"

maps == <<services, namemap, pidmap>>
info == <<process, dont_run, signal, error_count, persist>>
kernel == <<child, runs, sigchld>>
control == <<pc, cur, who, status>>
vars == <<maps, info, kernel, control>>

Signal == {"none", "TERM", "KILL"}
Zombie == {"ok", "failed"}  \* exited with status 0, exited with any other
ChildState == {"free", "alive"} \cup Zombie
Location == {"idle",      \* in the event loop: a method may be called
             "wait",      \* restart(): in process.wait() for cur
             "waitpid",   \* sigchild_handler(): before os.waitpid
             "callback",  \* sigchild_handler(): cur is reaped, who is its process
             "settle",    \* sigchild_handler(): the callback has returned
             "down"}      \* an exception left sigchild_handler: the daemon is gone

TypeOK == /\ services \subseteq Name
          /\ namemap \subseteq Name
          /\ pidmap \in [Pid -> Name \cup {NoName}]
          /\ process \in [Name -> Pid \cup {NoPid}]
          /\ dont_run \in [Name -> BOOLEAN]
          /\ signal \in [Name -> Signal]
          /\ error_count \in [Name -> Nat]
          /\ persist \in [Name -> BOOLEAN]
          /\ child \in [Pid -> ChildState]
          /\ runs \in [Pid -> Name \cup {NoName}]
          /\ sigchld \in BOOLEAN
          /\ pc \in Location
          /\ cur \in Pid \cup {NoPid}
          /\ who \in Name \cup {NoName}
          /\ status \in Zombie \cup {"none"}

Init == /\ services = {}
        /\ namemap = {}
        /\ pidmap = [p \in Pid |-> NoName]
        /\ process = [n \in Name |-> NoPid]
        /\ dont_run = [n \in Name |-> FALSE]
        /\ signal = [n \in Name |-> "none"]
        /\ error_count = [n \in Name |-> 0]
        /\ persist = [n \in Name |-> FALSE]
        /\ child = [p \in Pid |-> "free"]
        /\ runs = [p \in Pid |-> NoName]
        /\ sigchld = FALSE
        /\ pc = "idle"
        /\ cur = NoPid
        /\ who = NoName
        /\ status = "none"

Goto(l, p, n) == pc' = l /\ cur' = p /\ who' = n /\ UNCHANGED status
Leave(l) == pc' = l /\ cur' = NoPid /\ who' = NoName /\ status' = "none"

-----------------------------------------------------------------------------
\* A bug: the process that takes over is still marked as stopped.
ResetKeepsDontRun(n, p) == /\ process' = [process EXCEPT ![n] = p]
                           /\ signal' = [signal EXCEPT ![n] = "none"]
                           /\ error_count' = [error_count EXCEPT ![n] = 0]
                           /\ UNCHANGED dont_run

\* A bug: a run that is cleared pays one error back instead of all.
ResetForgivesOne(n, p) == /\ process' = [process EXCEPT ![n] = p]
                          /\ dont_run' = [dont_run EXCEPT ![n] = FALSE]
                          /\ signal' = [signal EXCEPT ![n] = "none"]
                          /\ error_count' = [error_count EXCEPT ![n] = @ - 1]

\* ProcessInfo.clear(), and then self._process = p.
Reset(n, p) == /\ process' = [process EXCEPT ![n] = p]
               /\ dont_run' = [dont_run EXCEPT ![n] = FALSE]
               /\ signal' = [signal EXCEPT ![n] = "none"]
               /\ error_count' = [error_count EXCEPT ![n] = 0]

\* ProcessInfo.stop(): SIGTERM the first time, SIGKILL once it was signalled.
\* os.kill succeeds on a child that is alive and on a zombie alike.
SendStop(n) == /\ process[n] # NoPid
               /\ dont_run' = [dont_run EXCEPT ![n] = TRUE]
               /\ signal' = [signal EXCEPT
                               ![n] = IF @ = "none" THEN "TERM" ELSE "KILL"]
               /\ UNCHANGED <<process, error_count>>

\* What Popen may come to: the pid of a new child, or NoPid for an OSError.
\* Pids are handed out in turn: the one just reaped is not among them.
Popen == {p \in Pid : child[p] = "free" /\ p # cur}
            \cup (IF CanFail THEN {NoPid} ELSE {})

\* ProcessInfo.restart() for n: Popen came to q.  The pid `gone', if any, was
\* reaped before and leaves pidmap; q enters it.
Launch(n, q, gone) ==
    /\ Reset(n, q)
    /\ child' = [p \in Pid |-> IF p = q THEN "alive"
                               ELSE IF p = gone THEN "free" ELSE child[p]]
    /\ runs' = [p \in Pid |-> IF p = q THEN n
                              ELSE IF p = gone THEN NoName ELSE runs[p]]
    /\ pidmap' = [p \in Pid |-> IF p = q THEN n
                                ELSE IF p = gone THEN NoName ELSE pidmap[p]]
    /\ UNCHANGED sigchld

\* ProcessManager._call(): when Popen raises, the maps are as they were.
Call(n) == \E q \in Popen :
              /\ Launch(n, q, NoPid)
              /\ namemap' = IF q = NoPid THEN namemap ELSE namemap \cup {n}

\* A child ends, by itself or by a signal, with status 0 or another.  SIGCHLD
\* is not queued: one that comes before the last was handled adds nothing.
ChildExits(p, how) == /\ child[p] = "alive"
                      /\ child' = [child EXCEPT ![p] = how]
                      /\ sigchld' = TRUE
                      /\ UNCHANGED <<maps, info, runs, control>>

-----------------------------------------------------------------------------
\* What the clients of ProcessManager call.

\* register(name, ...): a new ProcessInfo; an assertion keeps names unique.
Register(n, keep) == /\ pc = "idle"
                     /\ n \notin services \cup namemap
                     /\ services' = services \cup {n}
                     /\ persist' = [persist EXCEPT ![n] = keep]
                     /\ Reset(n, NoPid)
                     /\ UNCHANGED <<namemap, pidmap, kernel, control>>

\* unregister(name): the process, when there is one, goes on under namemap.
Unregister(n) == /\ pc = "idle"
                 /\ n \in services
                 /\ services' = services \ {n}
                 /\ UNCHANGED <<namemap, pidmap, info, kernel, control>>

\* once(name, ...): run a process that is not registered.
Once(n, keep) == /\ pc = "idle"
                 /\ n \notin services \cup namemap
                 /\ persist' = [persist EXCEPT ![n] = keep]
                 /\ Call(n)
                 /\ UNCHANGED <<services, control>>

\* A bug: a name that is running is started again.
StartUnguarded(n) == /\ pc = "idle"
                     /\ n \in services
                     /\ Call(n)
                     /\ UNCHANGED <<services, persist, control>>

\* start(name), and restart(name) of a name not in namemap.  Nothing happens
\* to a name in namemap, even if its process was told to stop or has ended.
Start(n) == /\ pc = "idle"
            /\ n \in services \ namemap
            /\ Call(n)
            /\ UNCHANGED <<services, persist, control>>

\* stop(name).  A name left without a process trips ProcessInfo's assertion.
Stop(n) == /\ pc = "idle"
           /\ n \in namemap
           /\ SendStop(n)
           /\ UNCHANGED <<maps, persist, kernel, control>>

\* restart(name) of a name in namemap, up to the blocking process.wait().
BeginRestart(n) == /\ pc = "idle"
                   /\ n \in namemap
                   /\ SendStop(n)
                   /\ pidmap' = [pidmap EXCEPT ![process[n]] = NoName]
                   /\ Goto("wait", process[n], n)
                   /\ UNCHANGED <<services, namemap, persist, kernel>>

\* A bug: the restart takes the pending SIGCHLD for that of its own process.
EndRestartEatsSignal == /\ pc = "wait"
                        /\ child[cur] \in Zombie
                        /\ child' = [child EXCEPT ![cur] = "free"]
                        /\ runs' = [runs EXCEPT ![cur] = NoName]
                        /\ sigchld' = FALSE
                        /\ Reset(who, NoPid)
                        /\ Leave("idle")
                        /\ UNCHANGED <<maps, persist>>

\* wait() reaps cur, whose SIGCHLD stays pending and will find nothing.  When
\* Popen raises, the name stays in namemap without a process, and the client
\* gets an error.
EndRestart == /\ pc = "wait"
              /\ child[cur] \in Zombie
              /\ \E q \in Popen : Launch(who, q, cur)
              /\ Leave("idle")
              /\ UNCHANGED <<services, namemap, persist>>

\* Calls with no effect: start() of a name in namemap and stop() of any other
\* return False, a name that is nowhere is a KeyError, one left without a
\* process fails an assertion or has no pid to delete, and kill() is always a
\* TypeError: it calls ProcessInfo.kill(name, stop) with an argument too many.
NoEffect == pc = "idle" /\ UNCHANGED vars

Client(n) == \/ \E keep \in BOOLEAN : Register(n, keep) \/ Once(n, keep)
             \/ Unregister(n)
             \/ Start(n)
             \/ Stop(n)
             \/ BeginRestart(n)

-----------------------------------------------------------------------------
\* ProcessManager.sigchild_handler

BeginSigchild == /\ pc = "idle"
                 /\ sigchld
                 /\ sigchld' = FALSE
                 /\ Goto("waitpid", NoPid, NoName)
                 /\ UNCHANGED <<maps, info, child, runs>>

\* waitpid returned p.  When pidmap knows it, its ProcessInfo is in hand.
Reap(p) == /\ pc = "waitpid"
           /\ child[p] \in Zombie
           /\ child' = [child EXCEPT ![p] = "free"]
           /\ runs' = [runs EXCEPT ![p] = NoName]
           /\ \/ /\ pidmap[p] # NoName
                 /\ pc' = "callback" /\ cur' = p /\ who' = pidmap[p]
                 /\ status' = child[p]
              \/ pidmap[p] = NoName /\ UNCHANGED control
           /\ UNCHANGED <<maps, info, sigchld>>

\* A bug: one child per SIGCHLD, as if the signals were counted.
EndSigchildAfterOne == /\ pc = "waitpid"
                       /\ Leave("idle")
                       /\ UNCHANGED <<maps, info, kernel>>

\* waitpid returned pid 0, or there are no children at all.
EndSigchild == /\ pc = "waitpid"
               /\ \A p \in Pid : child[p] \notin Zombie
               /\ Leave("idle")
               /\ UNCHANGED <<maps, info, kernel>>

\* There is no callback, or it leaves the manager alone.
CallbackReturns == /\ pc = "callback"
                   /\ Goto("settle", cur, who)
                   /\ UNCHANGED <<maps, info, kernel>>

\* A callback like the self-test's notify(): it takes the process's
\* persistence away and starts another one.  An exception would be the end.
CallbackStarts(n) == /\ pc = "callback"
                     /\ n \in services \ namemap
                     /\ persist' = [persist EXCEPT ![who] = FALSE]
                     /\ Call(n)
                     /\ IF process'[n] = NoPid THEN Leave("down")
                                               ELSE Goto("settle", cur, who)
                     /\ UNCHANGED services

\* A bug: stop() is not remembered.
GivenUpIgnoresStop == ~persist[who] \/ error_count[who] >= MaxErrors

\* A bug: the comparison is the wrong way round.
GivenUpBelowLimit == dont_run[who] \/ ~persist[who] \/ error_count[who] <= MaxErrors

\* Is the process in hand forgotten?  Otherwise it comes back.
GivenUp == dont_run[who] \/ ~persist[who] \/ error_count[who] >= MaxErrors

\* A bug: the pid stays in the map when its process leaves it.
ForgetKeepsPid == /\ pc = "settle"
                  /\ GivenUp
                  /\ namemap' = namemap \ {who}
                  /\ Reset(who, NoPid)
                  /\ Leave("waitpid")
                  /\ UNCHANGED <<services, pidmap, persist, kernel>>

Forget == /\ pc = "settle"
          /\ GivenUp
          /\ namemap' = namemap \ {who}
          /\ pidmap' = [pidmap EXCEPT ![cur] = NoName]
          /\ Reset(who, NoPid)
          /\ Leave("waitpid")
          /\ UNCHANGED <<services, persist, kernel>>

\* error_count is set to 0 or incremented, and then restart() clears it.  An
\* exception of Popen is caught nowhere on the way up to PyminDaemon.run.
Respawn == /\ pc = "settle"
           /\ ~GivenUp
           /\ \E q \in Popen : /\ Launch(who, q, cur)
                               /\ Leave(IF q = NoPid THEN "down" ELSE "waitpid")
           /\ UNCHANGED <<services, namemap, persist>>

SigchildHandler == \/ \E p \in Pid : Reap(p)
                   \/ EndSigchild
                   \/ CallbackReturns
                   \/ \E n \in Name : CallbackStarts(n)
                   \/ Forget
                   \/ Respawn

\* The daemon's process has ended.
Down == pc = "down" /\ UNCHANGED vars

Next == \/ \E n \in Name : Client(n)
        \/ EndRestart
        \/ BeginSigchild
        \/ SigchildHandler
        \/ \E p \in Pid, how \in Zombie : ChildExits(p, how)
        \/ NoEffect
        \/ Down

Spec == Init /\ [][Next]_vars

\* A child that was signalled ends.
SignalledChildExits(p) == /\ \E n \in Name : process[n] = p /\ signal[n] # "none"
                          /\ \E how \in Zombie : ChildExits(p, how)

\* A handler that has begun goes on to its end.  The event loop looks at its
\* signals before anything else in every turn, so clients that keep calling
\* cannot put a SIGCHLD off for ever: hence strong fairness.  waitpid(-1) looks
\* at the children in the order of their birth, so no zombie is passed over for
\* ever for the younger ones of a process that is respawned again and again.
Fairness == /\ WF_vars(EndRestart)
            /\ WF_vars(SigchildHandler)
            /\ SF_vars(BeginSigchild)
            /\ \A p \in Pid : /\ SF_vars(Reap(p))
                              /\ WF_vars(SignalledChildExits(p))

FairSpec == Spec /\ Fairness

-----------------------------------------------------------------------------
\* pidmap and namemap agree (procman.py:107, 150-155, 196-197, 209-211): a
\* pid leads to a name that is believed running with that very pid, and the
\* process of a name is found by its pid, except while restart() has it out.
MapsAgree ==
    /\ \A p \in Pid : pidmap[p] # NoName =>
          pidmap[p] \in namemap /\ process[pidmap[p]] = p
    /\ \A n \in Name : process[n] # NoPid =>
          /\ n \in namemap
          /\ \/ pidmap[process[n]] = n
             \/ pc = "wait" /\ who = n /\ cur = process[n]

\* No child escapes: one that lives, or waits to be reaped, is the process of
\* the name whose command it runs.  So a name never has two children, and the
\* pid a stop() would signal is never some other child's.
ChildrenManaged ==
    /\ \A p \in Pid : child[p] # "free" => runs[p] \in Name /\ process[runs[p]] = p
    /\ \A n \in Name : process[n] # NoPid =>
          \/ child[process[n]] # "free"
          \/ pc \in {"callback", "settle"} /\ cur = process[n]
          \/ pc = "down"

\* A zombie is never left with no SIGCHLD to come and no handler at work,
\* although many exits share one signal and children exit while the handler
\* runs (procman.py:173, 182, 213).
NoExitIsLost ==
    (\E p \in Pid : child[p] \in Zombie) =>
        \/ sigchld
        \/ pc \in {"waitpid", "callback", "settle", "down"}

\* Supervision is what clients are promised: a service is never launched
\* twice, never respawned after stop() until its end has been acted upon, and
\* is restarted only once its old process is gone.
SupervisorMode ==
    [n \in Name |-> IF n \notin namemap THEN "down"
                    ELSE IF pc = "wait" /\ who = n THEN "restarting"
                    ELSE IF dont_run[n] THEN "stopping" ELSE "up"]

SupervisorLive == {n \in Name : \E p \in Pid : child[p] = "alive" /\ runs[p] = n}

Supervision == INSTANCE Supervisor WITH mode <- SupervisorMode, live <- SupervisorLive

SupervisionSpec == Supervision!Spec

Alive(n) == process[n] # NoPid /\ child[process[n]] = "alive"

\* Every child that ends is waited for, however the exits and the signals
\* fall together, unless the daemon itself goes.
ZombiesAreReaped ==
    \A p \in Pid : child[p] \in Zombie ~> (child[p] \notin Zombie \/ pc = "down")

\* A stopped process leaves namemap, so that it can be started again: its
\* end is noticed and not undone.  Only a restart() may overtake it.
StopTakesEffect ==
    \A n \in Name : (n \in namemap /\ dont_run[n])
                        ~> (n \notin namemap \/ ~dont_run[n] \/ pc = "down")

\* A persistent process that dies comes back, unless somebody stops it or
\* takes its persistence away first, or a restart() fails: it is not given up
\* as long as its errors are fewer than max_errors, which they always are.
PersistentComesBack ==
    \A n \in Name :
        (n \in namemap /\ persist[n] /\ process[n] # NoPid /\ ~Alive(n))
            ~> \/ Alive(n) \/ dont_run[n] \/ ~persist[n] \/ pc = "down"
               \/ n \in namemap /\ process[n] = NoPid

\* What the log of procman.py:207-208 says of a persistent process that ended
\* with an error and is run again: "return not 0, error_count + 1".  Only so
\* can error_count reach max_errors (procman.py:191).
FailuresAccumulate ==
    [][(pc = "settle" /\ status = "failed" /\ process'[who] \notin {cur, NoPid})
          => error_count'[who] = error_count[who] + 1]_vars
=============================================================================

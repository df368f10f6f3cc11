---------------------------- MODULE InitdService ----------------------------
(***************************************************************************)
(* The helper classes of pymin/service/util.py, put together as            *)
(* services/proxy/handler.py does: Restorable, ConfigWriter, InitdHandler, *)
(* TransactionalHandler and ParametersHandler over an init.d script.       *)
(*                                                                         *)
(* Every attribute has a pickle file of its own, truncated when it is      *)
(* opened and written afterwards; the configuration file is written the    *)
(* same way.  Commands do not interleave, but the daemon may be killed     *)
(* between any two of these steps, and each of them may raise.             *)
(*                                                                         *)
(* `hosts' stands for all the containers, `config' for all the files that  *)
(* are rendered from templates.  call() executes: DEBUG is off.            *)
(***************************************************************************)
EXTENDS Naturals, Sequences

CONSTANTS Value,      \* what an attribute may hold
          Default,    \* what _restorable_defaults has for it
          Absent,     \* a file that does not exist
          Cut,        \* a file that was truncated and not written
          MaxFaults   \* how often the daemon is killed or a step raises

ASSUME InitdAssumption == /\ Default \in Value
                          /\ MaxFaults \in Nat
                          /\ Absent # Cut
                          /\ \A u \in {Absent, Cut} :
                                u \notin Value /\ u \notin BOOLEAN

VARIABLES
    mem,      \* the attributes of the handler; `running' is _service_running
    files,    \* the pickle files, and `config'
    service,  \* is the service there?
    loaded,   \* the configuration that it read
    pc,       \* where the daemon is
    todo,     \* what the current command has still to do
    ready,    \* has the constructor of the handler returned?
    faults    \* how many faults there were

system == <<service, loaded>>
control == <<pc, todo, ready>>
vars == <<mem, files, system, control, faults>>

Data == {"params", "hosts"}
Attr == Data \cup {"running"}
File == Attr \cup {"config"}
Unread == {Absent, Cut}
DataOf(attrs) == [a \in Data |-> attrs[a]]
Defaults == [params |-> Default, hosts |-> Default, running |-> FALSE]

\* A bug: reload comes before the configuration is written.
CommitTasksSwapped == <<"params", "hosts", "running", "reload", "config">>

\* commit: the dumps in the order of _persistent_attrs, and what follows.
CommitTasks == <<"params", "hosts", "running", "config", "reload">>
FlagTasks == <<"running">>

\* _load() reads the files in that order, and raises at the first that it
\* cannot read.
Rank == [params |-> 1, hosts |-> 2, running |-> 3]
LoadedBefore(a) == \A b \in Attr : Rank[b] < Rank[a] => files[b] \notin Unread
Loads(a) == LoadedBefore(a) /\ files[a] \notin Unread
Readable == \A a \in Attr : Loads(a)
FirstMissing == \E a \in Attr : LoadedBefore(a) /\ files[a] = Absent

Disk == [params : Value \cup Unread, hosts : Value \cup Unread,
         running : BOOLEAN \cup Unread, config : [Data -> Value] \cup Unread]

TypeOK == /\ mem \in [params : Value, hosts : Value, running : BOOLEAN]
          /\ files \in Disk
          /\ service \in BOOLEAN
          /\ loaded \in [Data -> Value] \cup Unread
          /\ pc \in {"off", "idle", "busy", "open"}
          /\ todo \in Seq(File \cup {"reload"})
          /\ ready \in BOOLEAN
          /\ faults \in 0..MaxFaults
          /\ (todo = <<>>) = (pc \in {"off", "idle"})
          /\ pc = "idle" => ready
          /\ pc = "off" => ~ready

Init == /\ mem = Defaults
        /\ files = [f \in File |-> Absent]
        /\ service = FALSE
        /\ loaded = Absent
        /\ pc = "off"
        /\ todo = <<>>
        /\ ready = FALSE
        /\ faults = 0

-----------------------------------------------------------------------------
\* How a command, or the constructor of a daemon that starts, goes on.
Do(tasks) == /\ todo' = tasks
             /\ pc' = IF tasks = <<>> THEN "idle" ELSE "busy"
             /\ ready' = (ready \/ tasks = <<>>)

\* The script starts a service that is not there, and loads its configuration.
ScriptStart == /\ service' = TRUE
               /\ loaded' = IF service THEN loaded ELSE files["config"]

\* Daemons do nothing else once they are killed, or the constructor has raised.
Off == pc' = "off" /\ todo' = <<>> /\ ready' = FALSE /\ mem' = Defaults

\* file(fname, 'wb'), of a pickle file or a configuration file.
OpenFile == /\ pc = "busy"
            /\ Head(todo) \in File
            /\ files' = [files EXCEPT ![Head(todo)] = Cut]
            /\ pc' = "open"
            /\ UNCHANGED <<mem, system, todo, ready, faults>>

\* pickle.dump, or the rendering of the template, and close.
WriteFile == /\ pc = "open"
             /\ files' = [files EXCEPT ![Head(todo)] =
                            IF Head(todo) = "config" THEN DataOf(mem)
                            ELSE mem[Head(todo)]]
             /\ Do(Tail(todo))
             /\ UNCHANGED <<mem, system, faults>>

\* The last step of commit: a service that is not there reloads nothing.
ReloadAfterCommit == /\ pc = "busy"
                     /\ Head(todo) = "reload"
                     /\ loaded' = IF mem.running /\ service THEN files["config"]
                                  ELSE loaded
                     /\ Do(Tail(todo))
                     /\ UNCHANGED <<mem, files, service, faults>>

\* A step raises.  The command ends there; a constructor takes pymind with it.
Fails == /\ faults < MaxFaults
         /\ pc \in {"busy", "open"}
         /\ IF ready
            THEN pc' = "idle" /\ todo' = <<>> /\ UNCHANGED <<mem, ready>>
            ELSE Off
         /\ faults' = faults + 1
         /\ UNCHANGED <<files, system>>

-----------------------------------------------------------------------------
\* set, or a command of a container.
Set(a, v) == /\ pc = "idle"
             /\ mem' = [mem EXCEPT ![a] = v]
             /\ UNCHANGED <<files, system, control, faults>>

\* A bug: all that there is in memory is dumped, and not the flag alone.
StartServiceDumps == /\ pc = "idle"
                     /\ ~mem.running
                     /\ ScriptStart
                     /\ mem' = [mem EXCEPT !.running = TRUE]
                     /\ Do(<<"params", "hosts", "running">>)
                     /\ UNCHANGED <<files, faults>>

\* start, stop and restart; a script that fails leaves the daemon as it was.
StartService == /\ pc = "idle"
                /\ ~mem.running
                /\ ScriptStart
                /\ mem' = [mem EXCEPT !.running = TRUE]
                /\ Do(FlagTasks)
                /\ UNCHANGED <<files, faults>>

StopService == /\ pc = "idle"
               /\ mem.running
               /\ service' = FALSE
               /\ mem' = [mem EXCEPT !.running = FALSE]
               /\ Do(FlagTasks)
               /\ UNCHANGED <<files, loaded, faults>>

RestartService == /\ pc = "idle"
                  /\ service' = TRUE
                  /\ loaded' = files["config"]
                  /\ mem' = [mem EXCEPT !.running = TRUE]
                  /\ Do(FlagTasks)
                  /\ UNCHANGED <<files, faults>>

ReloadService == /\ pc = "idle"
                 /\ mem.running
                 /\ service
                 /\ loaded' = files["config"]
                 /\ UNCHANGED <<mem, files, service, control, faults>>

Commit == /\ pc = "idle"
          /\ Do(CommitTasks)
          /\ UNCHANGED <<mem, files, system, faults>>

\* A bug: the files are not looked at.
RollbackBlindly == /\ pc = "idle"
                   /\ mem' = [a \in Attr |-> files[a]]
                   /\ UNCHANGED <<files, system, control, faults>>

\* What _load() has read before it raises stays.
Rollback == /\ pc = "idle"
            /\ mem' = [a \in Attr |-> IF Loads(a) THEN files[a] ELSE mem[a]]
            /\ UNCHANGED <<files, system, control, faults>>

\* A bug: a service that has ended is not noticed.
TimerSeesStarts == /\ pc = "idle"
                   /\ mem' = [mem EXCEPT !.running = mem.running \/ service]
                   /\ UNCHANGED <<files, system, control, faults>>

\* InitdHandler.handle_timer: pgrep tells whether the service is there.
Timer == /\ pc = "idle"
         /\ mem' = [mem EXCEPT !.running = service]
         /\ UNCHANGED <<files, system, control, faults>>

-----------------------------------------------------------------------------
\* A bug: start() finds that the service is running and does nothing.
BootRestoredTrusts == /\ pc = "off"
                      /\ Readable
                      /\ mem' = [a \in Attr |-> files[a]]
                      /\ Do(<<>>)
                      /\ UNCHANGED <<files, system, faults>>

\* All the files can be read; a service that was running is started.
BootRestored == /\ pc = "off"
                /\ Readable
                /\ mem' = [a \in Attr |-> files[a]]
                /\ IF mem'.running THEN ScriptStart /\ Do(FlagTasks)
                   ELSE Do(<<>>) /\ UNCHANGED system
                /\ UNCHANGED <<files, faults>>

\* A bug: the defaults are not committed.
BootDefaultsOnly == /\ pc = "off"
                    /\ FirstMissing
                    /\ mem' = Defaults
                    /\ Do(<<>>)
                    /\ UNCHANGED <<files, system, faults>>

\* A bug: _restore() expects files in any case.
BootDefaultsNever == FALSE /\ UNCHANGED vars

\* The first file that cannot be read is missing: IOError, and the defaults are
\* committed.  A file that is cut raises EOFError, and there is no daemon.
BootDefaults == /\ pc = "off"
                /\ FirstMissing
                /\ mem' = Defaults
                /\ Do(CommitTasks)
                /\ UNCHANGED <<files, system, faults>>

\* The daemon is killed, or ends; a service that init.d started goes on.
Crash == /\ faults < MaxFaults
         /\ pc # "off"
         /\ Off
         /\ faults' = faults + 1
         /\ UNCHANGED <<files, system>>

\* The service ends, or somebody else starts it.
ServiceEnds == /\ service
               /\ service' = FALSE
               /\ UNCHANGED <<mem, files, loaded, control, faults>>

ServiceStarted == /\ ~service
                  /\ ScriptStart
                  /\ UNCHANGED <<mem, files, control, faults>>

Command == \/ \E a \in Data, v \in Value : Set(a, v)
           \/ StartService
           \/ StopService
           \/ RestartService
           \/ ReloadService
           \/ Commit
           \/ Rollback

Step == OpenFile \/ WriteFile \/ ReloadAfterCommit

Boot == BootRestored \/ BootDefaults

Next == \/ Command
        \/ Step
        \/ Fails
        \/ Timer
        \/ Boot
        \/ Crash
        \/ ServiceEnds
        \/ ServiceStarted

Spec == Init /\ [][Next]_vars

\* Commands go on until they end, the timer gets its turn between commands, and
\* somebody starts the daemon.
FairSpec == Spec /\ WF_vars(Step) /\ SF_vars(Timer) /\ WF_vars(Boot)

-----------------------------------------------------------------------------
\* A daemon that is there has all its pickle files: the defaults of the first
\* start are on disk before the first command (Restorable._restore).
PicklesExist == ready => \A a \in Attr : files[a] # Absent

\* When commit reloads the service, whatever went wrong before, the pickle
\* files and the configuration are complete and say what the handler does.
ReloadUsesCommitted ==
    todo # <<>> /\ Head(todo) = "reload" =>
        /\ \A a \in Data : files[a] = mem[a]
        /\ files["config"] = DataOf(mem)

\* As long as nothing fails, the configuration file is the rendering of the
\* pickle files between commands: nothing but commit writes either of them.
ConfigRendersPickles == pc = "idle" /\ faults = 0 =>
                            files["config"] = DataOf(files)

\* A daemon that starts and finds that the service was running sees to it that
\* it runs (ServiceHandler.__init__).
BootStarts == [][pc = "off" /\ pc' # "off" /\ Readable /\ files["running"]
                 => service' /\ mem'.running]_vars

\* A service that stays up, or down, is known to be so, whatever the commands
\* before and whatever the flag on disk (InitdHandler.handle_timer).
FlagConverges == \A s \in BOOLEAN :
                    service = s ~> (mem.running = s \/ service # s \/ pc = "off")

\* The daemon comes up from any set of pickle files, missing ones included, as
\* long as none of them is cut short (Restorable._restore).
ComesUpUnlessCut == pc = "off" ~> (ready \/ \E a \in Attr : files[a] = Cut)

\* What the documentation of Restorable says: the data is restored, or else the
\* defaults are loaded; either way there is a daemon in the end.
BootComesUp == pc = "off" ~> ready
=============================================================================

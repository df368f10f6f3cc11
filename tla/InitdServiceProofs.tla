------------------------- MODULE InitdServiceProofs -------------------------
(***************************************************************************)
(* Safety of InitdService for any set of values and any number of faults.  *)
(***************************************************************************)
EXTENDS InitdService, TLAPS

\* What is left of a commit after each of its steps.
FromHosts == <<"hosts", "running", "config", "reload">>
FromRunning == <<"running", "config", "reload">>
FromConfig == <<"config", "reload">>
FromReload == <<"reload">>

TodoOK == /\ todo \in {<<>>, FlagTasks, CommitTasks, FromHosts, FromRunning,
                       FromConfig, FromReload}
          /\ pc = "open" => todo # FromReload

\* What the dumps that a commit has behind it have left in the files.
Dumped(a) == files[a] = mem[a]
Progress == /\ todo \in {FromHosts, FromRunning, FromConfig, FromReload}
                => Dumped("params")
            /\ todo \in {FromRunning, FromConfig, FromReload} => Dumped("hosts")
            /\ todo \in {FromConfig, FromReload} => files["running"] \in BOOLEAN
            /\ todo = FromReload => files["config"] = DataOf(mem)

\* A constructor that only starts the service has read all the files.
AllThere == \A a \in Attr : files[a] # Absent
ThereOnceRead == ready \/ todo = FlagTasks => AllThere

\* Before the first fault a daemon that is off has never run, and nothing but a
\* commit takes the files and the configuration apart.
FirstDaemon == pc = "off" /\ faults = 0 => \A a \in Attr : files[a] = Absent
Rendered == faults = 0 /\ (pc = "idle" \/ todo = FlagTasks)
                => files["config"] = DataOf(files)

IInv == /\ TypeOK
        /\ TodoOK
        /\ Progress
        /\ ThereOnceRead
        /\ FirstDaemon
        /\ Rendered

-----------------------------------------------------------------------------
\* Tails of the sequences of tasks.
LEMMA Tails ==
    /\ Tail(CommitTasks) = FromHosts
    /\ Tail(FromHosts) = FromRunning
    /\ Tail(FromRunning) = FromConfig
    /\ Tail(FromConfig) = FromReload
    /\ Tail(FromReload) = <<>>
    /\ Tail(FlagTasks) = <<>>
BY DEF CommitTasks, FromHosts, FromRunning, FromConfig, FromReload, FlagTasks

\* Heads of the sequences of tasks.
LEMMA Heads ==
    /\ Head(CommitTasks) = "params"
    /\ Head(FromHosts) = "hosts"
    /\ Head(FromRunning) = "running"
    /\ Head(FromConfig) = "config"
    /\ Head(FromReload) = "reload"
    /\ Head(FlagTasks) = "running"
BY DEF CommitTasks, FromHosts, FromRunning, FromConfig, FromReload, FlagTasks

\* The sequences of tasks differ.
LEMMA Differ ==
    /\ <<>> \notin {FlagTasks, CommitTasks, FromHosts, FromRunning, FromConfig,
                    FromReload}
    /\ FlagTasks \notin {CommitTasks, FromHosts, FromRunning, FromConfig,
                         FromReload}
    /\ CommitTasks \notin {FromHosts, FromRunning, FromConfig, FromReload}
    /\ FromHosts \notin {FromRunning, FromConfig, FromReload}
    /\ FromRunning \notin {FromConfig, FromReload}
    /\ FromConfig # FromReload
BY DEF CommitTasks, FromHosts, FromRunning, FromConfig, FromReload, FlagTasks

\* They are made of files and the reload.
LEMMA Tasks ==
    {<<>>, FlagTasks, CommitTasks, FromHosts, FromRunning, FromConfig, FromReload}
        \subseteq Seq(File \cup {"reload"})
BY DEF CommitTasks, FromHosts, FromRunning, FromConfig, FromReload, FlagTasks,
       File, Attr, Data

USE InitdAssumption
USE DEF Data, Attr, File, Unread, Defaults, DataOf, Dumped, AllThere, system,
        control

\* No daemon has run yet: no files, and nothing to do.
LEMMA InitIInv == Init => IInv
  <1> SUFFICES ASSUME Init PROVE IInv
    OBVIOUS
  <1>1. \A f \in File : files[f] = Absent
    BY DEF Init
  <1>2. files \in Disk
    BY <1>1 DEF Init, Disk
  <1>3. TypeOK
    <2>1. mem \in [params : Value, hosts : Value, running : BOOLEAN]
      BY DEF Init
    <2>2. faults \in 0..MaxFaults /\ todo \in Seq(File \cup {"reload"})
      BY Tasks DEF Init
    <2>3. QED
      BY <1>2, <2>1, <2>2 DEF Init, TypeOK
  <1>4. TodoOK /\ Progress /\ ThereOnceRead /\ FirstDaemon /\ Rendered
    BY <1>1, Differ DEF Init, TodoOK, Progress, ThereOnceRead, FirstDaemon, Rendered
  <1>5. QED
    BY <1>3, <1>4 DEF IInv

\* What may be in a file.
Content(f) == Unread \cup IF f = "config" THEN [Data -> Value]
                          ELSE IF f = "running" THEN BOOLEAN ELSE Value

\* One file is changed.
LEMMA OneFile ==
    ASSUME files \in Disk, NEW f \in File, NEW c \in Content(f),
           files' = [files EXCEPT ![f] = c]
    PROVE  /\ files' \in Disk
           /\ files'[f] = c
           /\ \A g \in File \ {f} : files'[g] = files[g]
  <1>1. CASE f = "params"
    BY <1>1 DEF Disk, Content
  <1>2. CASE f = "hosts"
    BY <1>2 DEF Disk, Content
  <1>3. CASE f = "running"
    BY <1>3 DEF Disk, Content
  <1>4. CASE f = "config"
    BY <1>4 DEF Disk, Content
  <1>5. QED
    BY <1>1, <1>2, <1>3, <1>4

\* A file that is opened is empty, and of those that the commit has written
\* none is opened again.
LEMMA OpenFileKeeps == ASSUME IInv, OpenFile PROVE IInv'
  <1> DEFINE f == Head(todo)
  <1>1. todo \in {FlagTasks, CommitTasks, FromHosts, FromRunning, FromConfig}
    BY Heads DEF OpenFile, IInv, TypeOK, TodoOK
  <1>2. f \in File /\ Cut \in Content(f) /\ files' = [files EXCEPT ![f] = Cut]
    BY DEF OpenFile, Content
  <1>3. /\ files' \in Disk
        /\ files'[f] = Cut
        /\ \A g \in File \ {f} : files'[g] = files[g]
    <2> HIDE DEF f
    <2>1. files \in Disk
      BY DEF IInv, TypeOK
    <2>2. QED
      BY <1>2, <2>1, OneFile
  <1>4. TypeOK'
    BY <1>1, <1>3, Differ DEF OpenFile, IInv, TypeOK
  <1>5. TodoOK'
    BY <1>1, Differ DEF OpenFile, IInv, TodoOK
  <1>6. Progress'
    BY <1>1, <1>3, Heads, Differ DEF OpenFile, IInv, Progress
  <1>7. ThereOnceRead'
    BY <1>3 DEF OpenFile, IInv, ThereOnceRead
  <1>8. FirstDaemon' /\ Rendered'
    BY <1>1, <1>3, Heads DEF OpenFile, IInv, FirstDaemon, Rendered
  <1>9. QED
    BY <1>4, <1>5, <1>6, <1>7, <1>8 DEF IInv

\* What is written is what the handler has in memory, and the next step of the
\* commit finds it there.
LEMMA WriteFileKeeps == ASSUME IInv, WriteFile PROVE IInv'
  <1> DEFINE f == Head(todo)
             c == IF f = "config" THEN DataOf(mem) ELSE mem[f]
  <1>1. todo \in {FlagTasks, CommitTasks, FromHosts, FromRunning, FromConfig}
    BY DEF WriteFile, IInv, TypeOK, TodoOK
  <1>2. f \in File /\ c \in Content(f) /\ files' = [files EXCEPT ![f] = c]
    <2>1. /\ mem["params"] \in Value /\ mem["hosts"] \in Value
          /\ mem["running"] \in BOOLEAN
          /\ DataOf(mem) \in [Data -> Value]
      BY DEF IInv, TypeOK
    <2>2. f \in File
      BY <1>1, Heads
    <2>3. QED
      BY <2>1, <2>2 DEF WriteFile, Content
  <1>3. /\ files' \in Disk
        /\ files'[f] = c
        /\ \A g \in File \ {f} : files'[g] = files[g]
    <2> HIDE DEF f, c
    <2>1. files \in Disk
      BY DEF IInv, TypeOK
    <2>2. QED
      BY <1>2, <2>1, OneFile
  <1>4. /\ todo = FlagTasks => todo' = <<>>
        /\ todo = CommitTasks => todo' = FromHosts
        /\ todo = FromHosts => todo' = FromRunning
        /\ todo = FromRunning => todo' = FromConfig
        /\ todo = FromConfig => todo' = FromReload
    BY Tails DEF WriteFile, Do
  <1>5. /\ mem' = mem /\ faults' = faults
        /\ ready' = (ready \/ todo = FlagTasks)
        /\ pc' = IF todo = FlagTasks THEN "idle" ELSE "busy"
    BY <1>1, <1>4, Differ DEF WriteFile, Do, IInv, TypeOK
  <1>6. TypeOK'
    <2>1. /\ todo' \in Seq(File \cup {"reload"})
          /\ (todo = FlagTasks) = (todo' = <<>>)
      BY <1>1, <1>4, Differ, Tasks
    <2>2. UNCHANGED <<service, loaded>>
      BY DEF WriteFile
    <2>3. ready' \in BOOLEAN
      BY <1>5
    <2>4. /\ pc' \in {"idle", "busy"}
          /\ (todo' = <<>>) = (pc' \in {"off", "idle"})
          /\ pc' = "idle" => ready'
      <3>1. CASE todo = FlagTasks
        BY <3>1, <1>4, <1>5
      <3>2. CASE todo # FlagTasks
        <4>1. todo' # <<>>
          BY <3>2, <2>1
        <4>2. QED
          BY <3>2, <4>1, <1>5
      <3>3. QED
        BY <3>1, <3>2
    <2>5. /\ mem' \in [params : Value, hosts : Value, running : BOOLEAN]
          /\ service' \in BOOLEAN
          /\ loaded' \in [Data -> Value] \cup Unread
          /\ faults' \in 0..MaxFaults
      BY <1>5, <2>2 DEF IInv, TypeOK
    <2>6. pc' \in {"off", "idle", "busy", "open"} /\ (pc' = "off" => ~ready')
      BY <2>4
    <2>7. QED
      BY <1>3, <2>1, <2>3, <2>4, <2>5, <2>6 DEF TypeOK
  <1>7. TodoOK'
    BY <1>1, <1>4, <1>5 DEF TodoOK
  <1>8. Progress'
    <2>1. /\ mem["running"] \in BOOLEAN
          /\ DataOf(mem)' = DataOf(mem)
      BY <1>5 DEF IInv, TypeOK
    <2>2. /\ "params" # f => files'["params"] = files["params"]
          /\ "hosts" # f => files'["hosts"] = files["hosts"]
          /\ "running" # f => files'["running"] = files["running"]
      BY <1>3
    <2>3. CASE todo \in {FlagTasks, CommitTasks}
      BY <2>3, <1>3, <1>4, <1>5, Heads, Differ DEF Progress
    <2>4. CASE todo \in {FromHosts, FromRunning}
      BY <2>1, <2>2, <2>4, <1>3, <1>4, <1>5, Heads, Differ DEF IInv, Progress
    <2>5. CASE todo = FromConfig
      BY <2>1, <2>2, <2>5, <1>3, <1>4, <1>5, Heads, Differ DEF IInv, Progress
    <2>6. QED
      BY <1>1, <2>3, <2>4, <2>5
  <1>9. ThereOnceRead'
    <2>1. f # "config" => files'[f] # Absent
      BY <1>2, <1>3 DEF Content, IInv, TypeOK
    <2>2. QED
      BY <1>1, <1>3, <1>4, <1>5, <2>1, Differ DEF IInv, ThereOnceRead
  <1>10. FirstDaemon' /\ Rendered'
    BY <1>1, <1>3, <1>4, <1>5, Heads, Differ
       DEF IInv, FirstDaemon, Rendered, Progress
  <1>11. QED
    BY <1>6, <1>7, <1>8, <1>9, <1>10 DEF IInv

\* The reload is the end of a commit that has written everything.
LEMMA ReloadAfterCommitKeeps == ASSUME IInv, ReloadAfterCommit PROVE IInv'
  <1>1. todo = FromReload
    BY Heads DEF ReloadAfterCommit, IInv, TypeOK, TodoOK
  <1>2. todo' = <<>> /\ pc' = "idle" /\ ready' /\ UNCHANGED <<mem, files, faults>>
    BY <1>1, Tails DEF ReloadAfterCommit, Do
  <1>3. TypeOK'
    <2>1. loaded' \in [Data -> Value] \cup Unread
      BY DEF ReloadAfterCommit, IInv, TypeOK, Disk
    <2>2. UNCHANGED service /\ ready' \in BOOLEAN
      BY <1>2 DEF ReloadAfterCommit, Do, IInv, TypeOK
    <2>3. todo' \in Seq(File \cup {"reload"})
      BY <1>2, Tasks
    <2>4. QED
      BY <1>2, <2>1, <2>2, <2>3 DEF IInv, TypeOK
  <1>4. TodoOK' /\ Progress' /\ FirstDaemon'
    BY <1>2, Differ DEF TodoOK, Progress, FirstDaemon
  <1>5. ThereOnceRead'
    <2>1. /\ files["params"] = mem["params"] /\ files["hosts"] = mem["hosts"]
          /\ files["running"] \in BOOLEAN
      BY <1>1 DEF IInv, Progress
    <2>2. QED
      BY <1>2, <2>1 DEF IInv, TypeOK, ThereOnceRead
  <1>6. Rendered'
    BY <1>1, <1>2 DEF IInv, Progress, Rendered
  <1>7. QED
    BY <1>3, <1>4, <1>5, <1>6 DEF IInv

\* A command that leaves the files as they are, and ends at once, goes on to
\* the dump of the flag or to a commit.
LEMMA CommandKeeps ==
    ASSUME IInv, pc = "idle", UNCHANGED <<files, faults>>,
           mem' \in [params : Value, hosts : Value, running : BOOLEAN],
           service' \in BOOLEAN,
           loaded' \in [Data -> Value] \cup Unread,
           \/ UNCHANGED control
           \/ Do(FlagTasks)
           \/ Do(CommitTasks)
    PROVE  IInv'
  <1>1. ready /\ todo = <<>>
    BY DEF IInv, TypeOK
  <1>2. /\ \/ todo' = <<>> /\ pc' = "idle"
           \/ todo' \in {FlagTasks, CommitTasks} /\ pc' = "busy"
        /\ ready'
        /\ ready' \in BOOLEAN
    <2>1. CASE UNCHANGED control
      BY <1>1, <2>1 DEF IInv, TypeOK
    <2>2. CASE Do(FlagTasks) \/ Do(CommitTasks)
      BY <1>1, <2>2, Differ DEF Do
    <2>3. QED
      BY <2>1, <2>2
  <1>3. TypeOK'
    <2>1. todo' \in Seq(File \cup {"reload"})
      BY <1>2, Tasks
    <2>2. (todo' = <<>>) = (pc' \in {"off", "idle"})
      BY <1>2, Differ
    <2>3. QED
      BY <1>2, <2>1, <2>2 DEF IInv, TypeOK
  <1>4. TodoOK' /\ Progress' /\ FirstDaemon'
    BY <1>2, Differ DEF TodoOK, Progress, FirstDaemon
  <1>5. ThereOnceRead'
    BY <1>1 DEF IInv, ThereOnceRead
  <1>6. Rendered'
    BY <1>2 DEF IInv, Rendered
  <1>7. QED
    BY <1>3, <1>4, <1>5, <1>6 DEF IInv

\* The script leaves the service and what it has loaded typed.
LEMMA ScriptStartTypes == ASSUME TypeOK, ScriptStart
                          PROVE  /\ service' \in BOOLEAN
                                 /\ loaded' \in [Data -> Value] \cup Unread
BY DEF TypeOK, ScriptStart, Disk

\* The commands, and the timer, whose data come from memory or from files that
\* could be read.
LEMMA CommandsKeep == ASSUME IInv, Command \/ Timer PROVE IInv'
  <1> USE DEF IInv
  <1>1. ASSUME NEW a \in Data, NEW v \in Value, Set(a, v) PROVE IInv'
    <2>1. mem' \in [params : Value, hosts : Value, running : BOOLEAN]
      <3>1. CASE a = "params"
        BY <1>1, <3>1 DEF Set, TypeOK
      <3>2. CASE a = "hosts"
        BY <1>1, <3>2 DEF Set, TypeOK
      <3>3. QED
        BY <3>1, <3>2
    <2>2. QED
      BY <1>1, <2>1, CommandKeeps DEF Set, TypeOK
  <1>2. CASE StartService
    BY <1>2, ScriptStartTypes, CommandKeeps DEF StartService, TypeOK
  <1>3. CASE StopService
    BY <1>3, CommandKeeps DEF StopService, TypeOK
  <1>4. CASE RestartService
    BY <1>4, CommandKeeps DEF RestartService, TypeOK, Disk
  <1>5. CASE ReloadService
    BY <1>5, CommandKeeps DEF ReloadService, TypeOK, Disk
  <1>6. CASE Commit
    BY <1>6, CommandKeeps DEF Commit, TypeOK
  <1>7. CASE Rollback
    <2>1. mem' \in [params : Value, hosts : Value, running : BOOLEAN]
      BY <1>7 DEF Rollback, TypeOK, Disk, Loads
    <2>2. QED
      BY <1>7, <2>1, CommandKeeps DEF Rollback, TypeOK
  <1>8. CASE Timer
    BY <1>8, CommandKeeps DEF Timer, TypeOK
  <1>9. QED
    BY <1>1, <1>2, <1>3, <1>4, <1>5, <1>6, <1>7, <1>8 DEF Command

\* A fault leaves the files as they are, and no commit to be gone on with.
LEMMA FaultKeeps == ASSUME IInv, Fails \/ Crash PROVE IInv'
  <1>1. /\ todo' = <<>>
        /\ faults' = faults + 1 /\ faults < MaxFaults
        /\ UNCHANGED <<files, service, loaded>>
        /\ \/ pc' = "idle" /\ ready /\ UNCHANGED <<mem, ready>>
           \/ pc' = "off" /\ ready' = FALSE /\ mem' = Defaults
    BY DEF Fails, Crash, Off
  <1>2. faults \in Nat /\ faults' \in 0..MaxFaults /\ faults' # 0
    BY <1>1 DEF IInv, TypeOK
  <1>3. TypeOK'
    <2>1. mem' \in [params : Value, hosts : Value, running : BOOLEAN]
      <3>1. Defaults \in [params : Value, hosts : Value, running : BOOLEAN]
        OBVIOUS
      <3>2. QED
        BY <1>1, <3>1 DEF IInv, TypeOK
    <2>2. todo' \in Seq(File \cup {"reload"})
      BY <1>1, Tasks
    <2>3. /\ files' \in Disk
          /\ service' \in BOOLEAN
          /\ loaded' \in [Data -> Value] \cup Unread
      BY <1>1 DEF IInv, TypeOK
    <2>4. ready' \in BOOLEAN
      BY <1>1 DEF IInv, TypeOK
    <2>5. /\ pc' \in {"off", "idle", "busy", "open"}
          /\ (todo' = <<>>) = (pc' \in {"off", "idle"})
      BY <1>1
    <2>6. (pc' = "idle" => ready') /\ (pc' = "off" => ~ready')
      BY <1>1
    <2>7. QED
      BY <1>2, <2>1, <2>2, <2>3, <2>4, <2>5, <2>6 DEF TypeOK
  <1>4. TodoOK' /\ Progress' /\ FirstDaemon' /\ Rendered'
    BY <1>1, <1>2, Differ DEF TodoOK, Progress, FirstDaemon, Rendered
  <1>5. ThereOnceRead'
    BY <1>1, Differ DEF IInv, ThereOnceRead
  <1>6. QED
    BY <1>3, <1>4, <1>5 DEF IInv

\* A daemon that starts has read all its files, or has a commit to do.
LEMMA BootKeeps == ASSUME IInv, Boot PROVE IInv'
  <1>1. pc = "off" /\ todo = <<>> /\ ready = FALSE
    BY DEF Boot, BootRestored, BootDefaults, IInv, TypeOK
  <1>2. UNCHANGED <<files, faults>>
    BY DEF Boot, BootRestored, BootDefaults
  <1>3. CASE BootRestored
    <2>1. AllThere /\ faults # 0
      BY <1>1, <1>3 DEF BootRestored, Readable, Loads, IInv, FirstDaemon
    <2>2. mem' \in [params : Value, hosts : Value, running : BOOLEAN]
      BY <1>3 DEF BootRestored, Readable, Loads, IInv, TypeOK, Disk
    <2>3. service' \in BOOLEAN /\ loaded' \in [Data -> Value] \cup Unread
      BY <1>3, ScriptStartTypes DEF BootRestored, IInv, TypeOK
    <2>4. \/ todo' = FlagTasks /\ pc' = "busy" /\ ready' = FALSE
          \/ todo' = <<>> /\ pc' = "idle" /\ ready' = TRUE
      BY <1>1, <1>3, Differ DEF BootRestored, Do
    <2>5. TypeOK'
      <3>1. todo' \in Seq(File \cup {"reload"})
        BY <2>4, Tasks
      <3>2. (todo' = <<>>) = (pc' \in {"off", "idle"})
        BY <2>4, Differ
      <3>3. QED
        BY <1>2, <2>2, <2>3, <2>4, <3>1, <3>2 DEF IInv, TypeOK
    <2>6. TodoOK' /\ Progress' /\ ThereOnceRead' /\ FirstDaemon' /\ Rendered'
      BY <1>2, <2>1, <2>4, Differ
         DEF TodoOK, Progress, ThereOnceRead, FirstDaemon, Rendered
    <2>7. QED
      BY <2>5, <2>6 DEF IInv
  <1>4. CASE BootDefaults
    <2>1. /\ todo' = CommitTasks /\ pc' = "busy" /\ ready' = FALSE
          /\ UNCHANGED <<service, loaded>>
          /\ mem' = Defaults
      BY <1>1, <1>4, Differ DEF BootDefaults, Do
    <2>2. TypeOK'
      <3>1. todo' \in Seq(File \cup {"reload"}) /\ todo' # <<>>
        BY <2>1, Tasks, Differ
      <3>2. mem' \in [params : Value, hosts : Value, running : BOOLEAN]
        BY <2>1
      <3>3. /\ files' \in Disk /\ faults' \in 0..MaxFaults
            /\ service' \in BOOLEAN
            /\ loaded' \in [Data -> Value] \cup Unread
        BY <1>2, <2>1 DEF IInv, TypeOK
      <3>4. ready' \in BOOLEAN
        BY <2>1
      <3>5. /\ pc' \in {"off", "idle", "busy", "open"}
            /\ (todo' = <<>>) = (pc' \in {"off", "idle"})
        BY <2>1, <3>1
      <3>6. (pc' = "idle" => ready') /\ (pc' = "off" => ~ready')
        BY <2>1
      <3>7. QED
        BY <3>1, <3>2, <3>3, <3>4, <3>5, <3>6 DEF TypeOK
    <2>3. TodoOK' /\ Progress' /\ ThereOnceRead' /\ FirstDaemon' /\ Rendered'
      BY <2>1, Differ
         DEF TodoOK, Progress, ThereOnceRead, FirstDaemon, Rendered
    <2>4. QED
      BY <2>2, <2>3 DEF IInv
  <1>5. QED
    BY <1>3, <1>4 DEF Boot

\* The service has no part in the invariant but its type.
LEMMA ServiceKeeps ==
    ASSUME IInv, UNCHANGED <<mem, files, control, faults>>,
           service' \in BOOLEAN, loaded' \in [Data -> Value] \cup Unread
    PROVE  IInv'
BY DEF IInv, TypeOK, TodoOK, Progress, ThereOnceRead, FirstDaemon, Rendered

\* Every step of the daemon, of the service and of whoever kills the daemon.
LEMMA NextIInv == IInv /\ [Next]_vars => IInv'
  <1> SUFFICES ASSUME IInv, [Next]_vars PROVE IInv'
    OBVIOUS
  <1>1. CASE Command \/ Timer
    BY <1>1, CommandsKeep
  <1>2. CASE Step
    BY <1>2, OpenFileKeeps, WriteFileKeeps, ReloadAfterCommitKeeps DEF Step
  <1>3. CASE Fails \/ Crash
    BY <1>3, FaultKeeps
  <1>4. CASE Boot
    BY <1>4, BootKeeps
  <1>5. CASE ServiceEnds
    BY <1>5, ServiceKeeps DEF ServiceEnds, IInv, TypeOK
  <1>6. CASE ServiceStarted
    BY <1>6, ServiceKeeps, ScriptStartTypes DEF ServiceStarted, IInv
  <1>7. CASE UNCHANGED vars
    BY <1>7, ServiceKeeps DEF vars, IInv, TypeOK
  <1>8. QED
    BY <1>1, <1>2, <1>3, <1>4, <1>5, <1>6, <1>7 DEF Next

-----------------------------------------------------------------------------
\* What holds of the files, of memory and of a commit in every reachable state.
THEOREM Inductive == Spec => []IInv
BY InitIInv, NextIInv, PTL DEF Spec

\* Every variable keeps to its type, whatever fails and whenever the daemon is
\* killed: what rollback and restoration load is what may be in memory.
THEOREM TypeCorrect == Spec => []TypeOK
  <1>1. IInv => TypeOK
    BY DEF IInv
  <1>2. QED
    BY Inductive, <1>1, PTL

\* A daemon whose constructor has returned has all its pickle files.
THEOREM PicklesAlwaysExist == Spec => []PicklesExist
  <1>1. IInv => PicklesExist
    BY DEF IInv, ThereOnceRead, PicklesExist
  <1>2. QED
    BY Inductive, <1>1, PTL

\* commit never reloads a service before the pickle files and the configuration
\* are complete and say what is in memory.
THEOREM ReloadIsLast == Spec => []ReloadUsesCommitted
  <1>1. IInv => ReloadUsesCommitted
    BY Heads DEF IInv, TodoOK, Progress, ReloadUsesCommitted
  <1>2. QED
    BY Inductive, <1>1, PTL

\* Without faults the configuration is, between commands, that of the pickle
\* files: only commit changes either.
THEOREM ConfigAlwaysRendersPickles == Spec => []ConfigRendersPickles
  <1>1. IInv => ConfigRendersPickles
    BY DEF IInv, Rendered, ConfigRendersPickles
  <1>2. QED
    BY Inductive, <1>1, PTL

\* A daemon that can read its files and was running when they were written starts
\* the service if it is not there, and knows that it runs (BootStarts of
\* InitdService): nothing else takes a daemon from "off", and the defaults are
\* for those who miss a file.
THEOREM BootAlwaysStarts == Spec => BootStarts
  <1> DEFINE Boots == pc = "off" /\ pc' # "off" /\ Readable /\ files["running"]
  <1>1. ASSUME TypeOK, Next, Boots PROVE service' /\ mem'.running
    <2>1. Boot
      <3>1. ~(Command \/ Timer \/ Crash)
        BY <1>1 DEF Command, Set, StartService, StopService, RestartService,
                    ReloadService, Commit, Rollback, Timer, Crash
      <3>2. ~(Step \/ Fails)
        BY <1>1 DEF Step, OpenFile, WriteFile, ReloadAfterCommit, Fails, TypeOK
      <3>3. ~(ServiceEnds \/ ServiceStarted)
        BY <1>1 DEF ServiceEnds, ServiceStarted, control
      <3>4. QED
        BY <1>1, <3>1, <3>2, <3>3 DEF Next
    <2>2. ~FirstMissing
      BY <1>1 DEF FirstMissing, Readable, Loads, Unread
    <2>3. BootRestored
      BY <2>1, <2>2 DEF Boot, BootDefaults
    <2>4. mem'.running = files["running"]
      BY <2>3 DEF BootRestored, Attr, Data
    <2>5. service'
      BY <1>1, <2>3, <2>4 DEF BootRestored, ScriptStart
    <2>6. QED
      BY <1>1, <2>4, <2>5
  <1>2. TypeOK /\ [Next]_vars => [Boots => service' /\ mem'.running]_vars
    BY <1>1
  <1>3. QED
    BY <1>2, TypeCorrect, PTL DEF Spec, BootStarts
=============================================================================

------------------------ MODULE ProcessManagerProofs ------------------------
(***************************************************************************)
(* Proofs about ProcessManager, for any set of names and of pids: its      *)
(* invariants hold in every state, and it implements module Supervisor.    *)
(*                                                                         *)
(* The invariants are not inductive alone.  MapsAgree survives the end of  *)
(* restart() and of sigchild_handler() only because of what the daemon     *)
(* holds in hand there (Hand), and the supervision of a name needs to know *)
(* that a name which is started was left with its flags cleared (Cleared). *)
(***************************************************************************)
EXTENDS ProcessManager, TLAPS

\* What the daemon holds in hand while it is inside a method.
Hand == /\ pc = "wait" => /\ who \in namemap /\ cur \in Pid
                          /\ process[who] = cur /\ pidmap[cur] = NoName
                          /\ dont_run[who]
        /\ pc \in {"callback", "settle"} => /\ who \in Name /\ cur \in Pid
                                            /\ pidmap[cur] = who
                                            /\ child[cur] = "free"
        /\ pc \in {"idle", "waitpid", "down"} => cur = NoPid /\ who = NoName

\* The flags of a name that is not in namemap are those of a cleared one.
Cleared == \A n \in Name \ namemap : ~dont_run[n]

IInv == TypeOK /\ MapsAgree /\ ChildrenManaged /\ NoExitIsLost /\ Hand /\ Cleared

USE ConstantsAssumption
    DEF Location, ChildState, Zombie, Signal, maps, info, kernel, control

LEMMA InitIInv == Init => IInv
  <1> SUFFICES ASSUME Init PROVE IInv
    OBVIOUS
  <1>1. TypeOK
    BY DEF Init, TypeOK
  <1>2. MapsAgree /\ ChildrenManaged /\ NoExitIsLost
    BY DEF Init, MapsAgree, ChildrenManaged, NoExitIsLost
  <1>3. Hand /\ Cleared
    BY DEF Init, Hand, Cleared
  <1>4. QED
    BY <1>1, <1>2, <1>3 DEF IInv

LEMMA RegisterStep ==
    ASSUME IInv, NEW n \in Name, NEW keep \in BOOLEAN, Register(n, keep)
    PROVE  IInv'
  <1> USE DEF IInv, Register, Reset
  <1>1. TypeOK'
    BY DEF TypeOK
  <1>2. MapsAgree'
    BY DEF TypeOK, MapsAgree, ChildrenManaged, Hand
  <1>3. ChildrenManaged'
    BY DEF TypeOK, MapsAgree, ChildrenManaged, Hand
  <1>4. NoExitIsLost'
    BY DEF TypeOK, NoExitIsLost, ChildrenManaged, Hand
  <1>5. Hand'
    BY DEF TypeOK, MapsAgree, ChildrenManaged, Hand
  <1>6. Cleared'
    BY DEF TypeOK, Hand, Cleared
  <1>7. QED
    BY <1>1, <1>2, <1>3, <1>4, <1>5, <1>6

LEMMA UnregisterStep == ASSUME IInv, NEW n \in Name, Unregister(n) PROVE IInv'
  <1> USE DEF IInv, Unregister
  <1>1. TypeOK'
    BY DEF TypeOK
  <1>2. MapsAgree'
    BY DEF TypeOK, MapsAgree, ChildrenManaged, Hand
  <1>3. ChildrenManaged'
    BY DEF TypeOK, MapsAgree, ChildrenManaged, Hand
  <1>4. NoExitIsLost'
    BY DEF TypeOK, NoExitIsLost, ChildrenManaged, Hand
  <1>5. Hand'
    BY DEF TypeOK, MapsAgree, ChildrenManaged, Hand
  <1>6. Cleared'
    BY DEF TypeOK, Hand, Cleared
  <1>7. QED
    BY <1>1, <1>2, <1>3, <1>4, <1>5, <1>6

LEMMA OnceStep ==
    ASSUME IInv, NEW n \in Name, NEW keep \in BOOLEAN, Once(n, keep)
    PROVE  IInv'
  <1> USE DEF IInv, Once, Call, Launch, Popen, Reset
  <1>1. TypeOK'
    BY DEF TypeOK
  <1>2. MapsAgree'
    BY DEF TypeOK, MapsAgree, ChildrenManaged, Hand
  <1>3. ChildrenManaged'
    BY DEF TypeOK, MapsAgree, ChildrenManaged, Hand
  <1>4. NoExitIsLost'
    BY DEF TypeOK, NoExitIsLost, ChildrenManaged, Hand
  <1>5. Hand'
    BY DEF TypeOK, MapsAgree, ChildrenManaged, Hand
  <1>6. Cleared'
    BY DEF TypeOK, Hand, Cleared
  <1>7. QED
    BY <1>1, <1>2, <1>3, <1>4, <1>5, <1>6

LEMMA StartStep == ASSUME IInv, NEW n \in Name, Start(n) PROVE IInv'
  <1> USE DEF IInv, Start, Call, Launch, Popen, Reset
  <1>1. TypeOK'
    BY DEF TypeOK
  <1>2. MapsAgree'
    BY DEF TypeOK, MapsAgree, ChildrenManaged, Hand
  <1>3. ChildrenManaged'
    BY DEF TypeOK, MapsAgree, ChildrenManaged, Hand
  <1>4. NoExitIsLost'
    BY DEF TypeOK, NoExitIsLost, ChildrenManaged, Hand
  <1>5. Hand'
    BY DEF TypeOK, MapsAgree, ChildrenManaged, Hand
  <1>6. Cleared'
    BY DEF TypeOK, Hand, Cleared
  <1>7. QED
    BY <1>1, <1>2, <1>3, <1>4, <1>5, <1>6

LEMMA StopStep == ASSUME IInv, NEW n \in Name, Stop(n) PROVE IInv'
  <1> USE DEF IInv, Stop, SendStop
  <1>1. TypeOK'
    BY DEF TypeOK
  <1>2. MapsAgree'
    BY DEF TypeOK, MapsAgree, ChildrenManaged, Hand
  <1>3. ChildrenManaged'
    BY DEF TypeOK, MapsAgree, ChildrenManaged, Hand
  <1>4. NoExitIsLost'
    BY DEF TypeOK, NoExitIsLost, ChildrenManaged, Hand
  <1>5. Hand'
    BY DEF TypeOK, MapsAgree, ChildrenManaged, Hand
  <1>6. Cleared'
    BY DEF TypeOK, Hand, Cleared
  <1>7. QED
    BY <1>1, <1>2, <1>3, <1>4, <1>5, <1>6

LEMMA BeginRestartStep == ASSUME IInv, NEW n \in Name, BeginRestart(n) PROVE IInv'
  <1> USE DEF IInv, BeginRestart, SendStop, Goto
  <1>1. TypeOK'
    BY DEF TypeOK
  <1>2. MapsAgree'
    BY DEF TypeOK, MapsAgree, ChildrenManaged, Hand
  <1>3. ChildrenManaged'
    BY DEF TypeOK, MapsAgree, ChildrenManaged, Hand
  <1>4. NoExitIsLost'
    BY DEF TypeOK, NoExitIsLost, ChildrenManaged, Hand
  <1>5. Hand'
    BY DEF TypeOK, MapsAgree, ChildrenManaged, Hand
  <1>6. Cleared'
    BY DEF TypeOK, Hand, Cleared
  <1>7. QED
    BY <1>1, <1>2, <1>3, <1>4, <1>5, <1>6

LEMMA EndRestartStep == ASSUME IInv, EndRestart PROVE IInv'
  <1> USE DEF IInv, EndRestart, Launch, Popen, Reset, Leave
  <1>1. TypeOK'
    BY DEF TypeOK, Hand
  <1>2. MapsAgree'
    BY DEF TypeOK, MapsAgree, ChildrenManaged, Hand
  <1>3. ChildrenManaged'
    BY DEF TypeOK, MapsAgree, ChildrenManaged, Hand
  <1>4. NoExitIsLost'
    BY DEF TypeOK, NoExitIsLost, ChildrenManaged, Hand
  <1>5. Hand'
    BY DEF TypeOK, MapsAgree, ChildrenManaged, Hand
  <1>6. Cleared'
    BY DEF TypeOK, Hand, Cleared
  <1>7. QED
    BY <1>1, <1>2, <1>3, <1>4, <1>5, <1>6

LEMMA BeginSigchildStep == ASSUME IInv, BeginSigchild PROVE IInv'
  <1> USE DEF IInv, BeginSigchild, Goto
  <1>1. TypeOK'
    BY DEF TypeOK
  <1>2. MapsAgree'
    BY DEF TypeOK, MapsAgree, ChildrenManaged, Hand
  <1>3. ChildrenManaged'
    BY DEF TypeOK, MapsAgree, ChildrenManaged, Hand
  <1>4. NoExitIsLost'
    BY DEF TypeOK, NoExitIsLost, ChildrenManaged, Hand
  <1>5. Hand'
    BY DEF TypeOK, MapsAgree, ChildrenManaged, Hand
  <1>6. Cleared'
    BY DEF TypeOK, Hand, Cleared
  <1>7. QED
    BY <1>1, <1>2, <1>3, <1>4, <1>5, <1>6

LEMMA ReapStep == ASSUME IInv, NEW p \in Pid, Reap(p) PROVE IInv'
  <1> USE DEF IInv, Reap
  <1>1. TypeOK'
    BY DEF TypeOK
  <1>2. MapsAgree'
    BY DEF TypeOK, MapsAgree, ChildrenManaged, Hand
  <1>3. ChildrenManaged'
    BY DEF TypeOK, MapsAgree, ChildrenManaged, Hand
  <1>4. NoExitIsLost'
    BY DEF TypeOK, NoExitIsLost, ChildrenManaged, Hand
  <1>5. Hand'
    BY DEF TypeOK, MapsAgree, ChildrenManaged, Hand
  <1>6. Cleared'
    BY DEF TypeOK, Hand, Cleared
  <1>7. QED
    BY <1>1, <1>2, <1>3, <1>4, <1>5, <1>6

LEMMA EndSigchildStep == ASSUME IInv, EndSigchild PROVE IInv'
  <1> USE DEF IInv, EndSigchild, Leave
  <1>1. TypeOK'
    BY DEF TypeOK
  <1>2. MapsAgree'
    BY DEF TypeOK, MapsAgree, ChildrenManaged, Hand
  <1>3. ChildrenManaged'
    BY DEF TypeOK, MapsAgree, ChildrenManaged, Hand
  <1>4. NoExitIsLost'
    BY DEF TypeOK, NoExitIsLost, ChildrenManaged, Hand
  <1>5. Hand'
    BY DEF TypeOK, MapsAgree, ChildrenManaged, Hand
  <1>6. Cleared'
    BY DEF TypeOK, Hand, Cleared
  <1>7. QED
    BY <1>1, <1>2, <1>3, <1>4, <1>5, <1>6

LEMMA CallbackReturnsStep == ASSUME IInv, CallbackReturns PROVE IInv'
  <1> USE DEF IInv, CallbackReturns, Goto
  <1>1. TypeOK'
    BY DEF TypeOK
  <1>2. MapsAgree'
    BY DEF TypeOK, MapsAgree, ChildrenManaged, Hand
  <1>3. ChildrenManaged'
    BY DEF TypeOK, MapsAgree, ChildrenManaged, Hand
  <1>4. NoExitIsLost'
    BY DEF TypeOK, NoExitIsLost, ChildrenManaged, Hand
  <1>5. Hand'
    BY DEF TypeOK, MapsAgree, ChildrenManaged, Hand
  <1>6. Cleared'
    BY DEF TypeOK, Hand, Cleared
  <1>7. QED
    BY <1>1, <1>2, <1>3, <1>4, <1>5, <1>6

LEMMA CallbackStartsStep == ASSUME IInv, NEW n \in Name, CallbackStarts(n) PROVE IInv'
  <1> USE DEF IInv, CallbackStarts, Call, Launch, Popen, Reset, Goto, Leave
  <1>1. TypeOK'
    BY DEF TypeOK, Hand
  <1>2. MapsAgree'
    BY DEF TypeOK, MapsAgree, ChildrenManaged, Hand
  <1>3. ChildrenManaged'
    BY DEF TypeOK, MapsAgree, ChildrenManaged, Hand
  <1>4. NoExitIsLost'
    BY DEF TypeOK, NoExitIsLost, ChildrenManaged, Hand
  <1>5. Hand'
    BY DEF TypeOK, MapsAgree, ChildrenManaged, Hand
  <1>6. Cleared'
    BY DEF TypeOK, Hand, Cleared
  <1>7. QED
    BY <1>1, <1>2, <1>3, <1>4, <1>5, <1>6

LEMMA ForgetStep == ASSUME IInv, Forget PROVE IInv'
  <1> USE DEF IInv, Forget, GivenUp, Reset, Leave
  <1>1. TypeOK'
    BY DEF TypeOK
  <1>2. MapsAgree'
    BY DEF TypeOK, MapsAgree, ChildrenManaged, Hand
  <1>3. ChildrenManaged'
    BY DEF TypeOK, MapsAgree, ChildrenManaged, Hand
  <1>4. NoExitIsLost'
    BY DEF TypeOK, NoExitIsLost, ChildrenManaged, Hand
  <1>5. Hand'
    BY DEF TypeOK, MapsAgree, ChildrenManaged, Hand
  <1>6. Cleared'
    BY DEF TypeOK, Hand, Cleared
  <1>7. QED
    BY <1>1, <1>2, <1>3, <1>4, <1>5, <1>6

LEMMA RespawnStep == ASSUME IInv, Respawn PROVE IInv'
  <1> USE DEF IInv, Respawn, GivenUp, Launch, Popen, Reset, Leave
  <1>1. TypeOK'
    BY DEF TypeOK, Hand
  <1>2. MapsAgree'
    BY DEF TypeOK, MapsAgree, ChildrenManaged, Hand
  <1>3. ChildrenManaged'
    BY DEF TypeOK, MapsAgree, ChildrenManaged, Hand
  <1>4. NoExitIsLost'
    BY DEF TypeOK, NoExitIsLost, ChildrenManaged, Hand
  <1>5. Hand'
    BY DEF TypeOK, MapsAgree, ChildrenManaged, Hand
  <1>6. Cleared'
    BY DEF TypeOK, Hand, Cleared
  <1>7. QED
    BY <1>1, <1>2, <1>3, <1>4, <1>5, <1>6

LEMMA ChildExitsStep ==
    ASSUME IInv, NEW p \in Pid, NEW how \in Zombie, ChildExits(p, how)
    PROVE  IInv'
  <1> USE DEF IInv, ChildExits
  <1>1. TypeOK'
    BY DEF TypeOK
  <1>2. MapsAgree'
    BY DEF TypeOK, MapsAgree, ChildrenManaged, Hand
  <1>3. ChildrenManaged'
    BY DEF TypeOK, MapsAgree, ChildrenManaged, Hand
  <1>4. NoExitIsLost'
    BY DEF TypeOK, NoExitIsLost, ChildrenManaged, Hand
  <1>5. Hand'
    BY DEF TypeOK, MapsAgree, ChildrenManaged, Hand
  <1>6. Cleared'
    BY DEF TypeOK, Hand, Cleared
  <1>7. QED
    BY <1>1, <1>2, <1>3, <1>4, <1>5, <1>6

-----------------------------------------------------------------------------
THEOREM Inductive == Spec => []IInv
  <1>1. IInv /\ [Next]_vars => IInv'
    <2> SUFFICES ASSUME IInv, [Next]_vars PROVE IInv'
      OBVIOUS
    <2>1. CASE \E n \in Name : Client(n)
      BY <2>1, RegisterStep, UnregisterStep, OnceStep, StartStep, StopStep,
         BeginRestartStep DEF Client
    <2>2. CASE EndRestart
      BY <2>2, EndRestartStep
    <2>3. CASE BeginSigchild
      BY <2>3, BeginSigchildStep
    <2>4. CASE SigchildHandler
      BY <2>4, ReapStep, EndSigchildStep, CallbackReturnsStep,
      CallbackStartsStep,
         ForgetStep, RespawnStep DEF SigchildHandler
    <2>5. CASE \E p \in Pid, how \in Zombie : ChildExits(p, how)
      BY <2>5, ChildExitsStep
    <2>6. CASE UNCHANGED vars
      BY <2>6 DEF vars, IInv, TypeOK, MapsAgree, ChildrenManaged,
                  NoExitIsLost, Hand,
                  Cleared
    <2>7. QED
      BY <2>1, <2>2, <2>3, <2>4, <2>5, <2>6 DEF Next, NoEffect, Down
  <1>2. QED
    BY <1>1, InitIInv, PTL DEF Spec

\* Every variable keeps to the values its attribute has in the code.
THEOREM TypeCorrect == Spec => []TypeOK
  BY Inductive, PTL DEF IInv

\* The map by name and the map by pid agree whenever the daemon is idle, and
\* differ inside restart() by the pid it is about to replace and no other.
THEOREM MapsAlwaysAgree == Spec => []MapsAgree
  BY Inductive, PTL DEF IInv

\* No child runs, or waits to be reaped, out of the manager's reach.
THEOREM ChildrenAlwaysManaged == Spec => []ChildrenManaged
  BY Inductive, PTL DEF IInv

\* However exits and SIGCHLDs fall together, a zombie is on its way to waitpid.
THEOREM NoExitIsEverLost == Spec => []NoExitIsLost
  BY Inductive, PTL DEF IInv

-----------------------------------------------------------------------------
SupervisorUnchanged == UNCHANGED <<SupervisorMode, SupervisorLive>>

LEMMA InitRefines == Init => Supervision!Init
  BY DEF Init, Supervision!Init, SupervisorMode, SupervisorLive

LEMMA LaunchedLives ==
    ASSUME IInv, NEW n \in Name, NEW q \in Popen, NEW gone \in Pid \cup {NoPid},
           Launch(n, q, gone), gone \in Pid => child[gone] # "alive"
    PROVE  SupervisorLive' = IF q = NoPid THEN SupervisorLive ELSE SupervisorLive \cup {n}
  BY DEF IInv, TypeOK, Launch, Popen, SupervisorLive

\* A child that lives is its name's process, so a name whose process does not
\* live has no child that does.
LEMMA NotLive ==
    ASSUME IInv, NEW n \in Name, process[n] \in Pid => child[process[n]] # "alive"
    PROVE  n \notin SupervisorLive
  BY DEF IInv, TypeOK, ChildrenManaged, SupervisorLive

LEMMA CallRefines ==
    ASSUME IInv, NEW n \in Name \ namemap, Call(n), pc # "wait", pc' # "wait"
    PROVE  Supervision!Launch(n) \/ SupervisorUnchanged
  <1> USE DEF IInv
  <1>1. PICK q \in Popen : /\ Launch(n, q, NoPid)
                           /\ namemap' = IF q = NoPid THEN namemap ELSE namemap \cup {n}
    BY DEF Call
  <1>2. SupervisorLive' = IF q = NoPid THEN SupervisorLive ELSE SupervisorLive \cup {n}
    BY <1>1, LaunchedLives
  <1>3. SupervisorMode' = IF q = NoPid THEN SupervisorMode
                          ELSE [SupervisorMode EXCEPT ![n] = "up"]
    BY <1>1 DEF SupervisorMode, Launch, Reset, Popen, TypeOK, Cleared
  <1>4. n \notin SupervisorLive /\ SupervisorMode[n] = "down"
    BY NotLive DEF SupervisorMode, MapsAgree, TypeOK
  <1>5. QED
    BY <1>2, <1>3, <1>4 DEF Supervision!Launch, SupervisorUnchanged

LEMMA StopRefines == ASSUME IInv, NEW n \in Name, Stop(n) PROVE Supervision!Stop(n)
  <1> USE DEF IInv, Stop, SendStop
  <1>1. SupervisorLive' = SupervisorLive
    BY DEF SupervisorLive
  <1>2. SupervisorMode' = [SupervisorMode EXCEPT ![n] = "stopping"]
    BY DEF SupervisorMode, TypeOK
  <1>3. SupervisorMode[n] \in {"up", "stopping"}
    BY DEF SupervisorMode
  <1>4. QED
    BY <1>1, <1>2, <1>3 DEF Supervision!Stop

LEMMA BeginRestartRefines ==
    ASSUME IInv, NEW n \in Name, BeginRestart(n) PROVE Supervision!BeginRestart(n)
  <1> USE DEF IInv, BeginRestart, SendStop, Goto
  <1>1. SupervisorLive' = SupervisorLive
    BY DEF SupervisorLive
  <1>2. SupervisorMode' = [SupervisorMode EXCEPT ![n] = "restarting"]
    BY DEF SupervisorMode, TypeOK
  <1>3. SupervisorMode[n] \in {"up", "stopping"}
    BY DEF SupervisorMode
  <1>4. QED
    BY <1>1, <1>2, <1>3 DEF Supervision!BeginRestart

LEMMA EndRestartRefines == ASSUME IInv, EndRestart PROVE Supervision!EndRestart(who)
  <1> USE DEF IInv, EndRestart, Leave
  <1>1. PICK q \in Popen : Launch(who, q, cur)
    OBVIOUS
  <1>2. who \in Name /\ cur \in Pid /\ process[who] = cur /\ child[cur] # "alive"
    BY DEF Hand, TypeOK
  <1>3. SupervisorLive' = IF q = NoPid THEN SupervisorLive ELSE SupervisorLive \cup {who}
    BY <1>1, <1>2, LaunchedLives
  <1>4. SupervisorMode' = [SupervisorMode EXCEPT ![who] = "up"]
    <2>1. /\ dont_run' = [dont_run EXCEPT ![who] = FALSE]
          /\ pc = "wait" /\ pc' = "idle" /\ who \in namemap /\ namemap' = namemap
      BY <1>1 DEF Launch, Reset, Hand
    <2> HIDE DEF IInv, EndRestart, Leave
    <2>2. dont_run \in [Name -> BOOLEAN]
      BY DEF IInv, TypeOK
    <2>3. QED
      BY <1>2, <2>1, <2>2 DEF SupervisorMode
  <1>5. who \notin SupervisorLive /\ SupervisorMode[who] = "restarting"
    BY <1>2, NotLive DEF SupervisorMode, Hand
  <1>6. QED
    BY <1>3, <1>4, <1>5 DEF Supervision!EndRestart

LEMMA ForgetRefines == ASSUME IInv, Forget PROVE Supervision!Retire(who)
  <1> USE DEF IInv, Forget, Reset, Leave
  <1>1. who \in namemap /\ who \in Name /\ process[who] = cur /\ child[cur] = "free"
    BY DEF Hand, MapsAgree, TypeOK
  <1>2. SupervisorLive' = SupervisorLive
    BY DEF SupervisorLive
  <1>3. SupervisorMode' = [SupervisorMode EXCEPT ![who] = "down"]
    BY <1>1 DEF SupervisorMode, TypeOK
  <1>4. who \notin SupervisorLive /\ SupervisorMode[who] \in {"up", "stopping"}
    BY <1>1, NotLive DEF SupervisorMode
  <1>5. QED
    BY <1>2, <1>3, <1>4 DEF Supervision!Retire

LEMMA RespawnRefines ==
    ASSUME IInv, Respawn PROVE Supervision!Respawn(who) \/ SupervisorUnchanged
  <1> USE DEF IInv, Respawn, Leave
  <1>1. PICK q \in Popen : /\ Launch(who, q, cur)
                           /\ pc' \in {"down", "waitpid"}
    OBVIOUS
  <1>2. /\ who \in namemap /\ who \in Name /\ cur \in Pid
        /\ process[who] = cur /\ child[cur] = "free"
    BY DEF Hand, MapsAgree, TypeOK
  <1>3. SupervisorLive' = IF q = NoPid THEN SupervisorLive ELSE SupervisorLive \cup {who}
    BY <1>1, <1>2, LaunchedLives
  <1>4. SupervisorMode' = SupervisorMode
    BY <1>1 DEF SupervisorMode, Launch, Reset, GivenUp, TypeOK
  <1>5. who \notin SupervisorLive /\ SupervisorMode[who] = "up"
    BY <1>2, NotLive DEF SupervisorMode, GivenUp
  <1>6. QED
    BY <1>3, <1>4, <1>5 DEF Supervision!Respawn, SupervisorUnchanged

LEMMA ChildExitsRefines ==
    ASSUME IInv, NEW p \in Pid, NEW how \in Zombie, ChildExits(p, how)
    PROVE  \E n \in Name : Supervision!Exit(n)
  <1> USE DEF IInv, ChildExits
  <1>1. runs[p] \in Name /\ runs[p] \in SupervisorLive
    BY DEF ChildrenManaged, SupervisorLive
  <1>2. SupervisorLive' = SupervisorLive \ {runs[p]}
    BY DEF SupervisorLive, ChildrenManaged, TypeOK
  <1>3. SupervisorMode' = SupervisorMode
    BY DEF SupervisorMode
  <1>4. QED
    BY <1>1, <1>2, <1>3 DEF Supervision!Exit

\* The steps that clients of the manager cannot see.
LEMMA HiddenStepsRefine ==
    ASSUME IInv,
           \/ \E n \in Name, keep \in BOOLEAN : Register(n, keep)
           \/ \E n \in Name : Unregister(n)
           \/ BeginSigchild
           \/ \E p \in Pid : Reap(p)
           \/ EndSigchild
           \/ CallbackReturns
           \/ UNCHANGED vars
    PROVE  SupervisorUnchanged
  <1> USE DEF IInv, SupervisorUnchanged
  <1>1. SupervisorLive' = SupervisorLive
    BY DEF SupervisorLive, TypeOK, Register, Unregister, BeginSigchild, Reap,
           EndSigchild, CallbackReturns, vars
  <1>2. SupervisorMode' = SupervisorMode
    BY DEF SupervisorMode, TypeOK, Register, Reset, Unregister, BeginSigchild,
           Reap,
           EndSigchild, CallbackReturns, Goto, Leave, vars
  <1>3. QED
    BY <1>1, <1>2

\* The process manager keeps what module Supervisor promises to its clients:
\* among others, a process that was stopped is not respawned, and no service
\* is launched while a process of it lives.
THEOREM Refinement == Spec => SupervisionSpec
  <1>1. IInv /\ [Next]_vars => [Supervision!Next]_(Supervision!vars)
    <2> SUFFICES ASSUME IInv, [Next]_vars
                 PROVE  Supervision!Next \/ SupervisorUnchanged
      BY DEF SupervisorUnchanged, Supervision!vars
    <2> USE DEF Supervision!Next
    <2>1. ASSUME NEW n \in Name, Client(n)
          PROVE  Supervision!Next \/ SupervisorUnchanged
      <3>1. CASE \E keep \in BOOLEAN : Register(n, keep)
        BY <3>1, HiddenStepsRefine
      <3>2. CASE (\E keep \in BOOLEAN : Once(n, keep)) \/ Start(n)
        BY <3>2, CallRefines DEF Once, Start, control
      <3>3. CASE Unregister(n)
        BY <3>3, HiddenStepsRefine
      <3>4. CASE Stop(n)
        BY <3>4, StopRefines
      <3>5. CASE BeginRestart(n)
        BY <3>5, BeginRestartRefines
      <3>6. QED
        BY <2>1, <3>1, <3>2, <3>3, <3>4, <3>5 DEF Client
    <2>2. CASE EndRestart
      <3>1. who \in Name
        BY <2>2 DEF EndRestart, IInv, Hand, TypeOK
      <3>2. QED
        BY <2>2, <3>1, EndRestartRefines
    <2>3. CASE SigchildHandler
      <3>1. CASE (\E p \in Pid : Reap(p)) \/ EndSigchild \/ CallbackReturns
        BY <3>1, HiddenStepsRefine
      <3>2. CASE \E n \in Name : CallbackStarts(n)
        BY <3>2, CallRefines DEF CallbackStarts, Goto, Leave
      <3>3. CASE Forget \/ Respawn
        <4>1. who \in Name
          BY <3>3 DEF Forget, Respawn, IInv, Hand
        <4>2. QED
          BY <3>3, <4>1, ForgetRefines, RespawnRefines
      <3>4. QED
        BY <2>3, <3>1, <3>2, <3>3 DEF SigchildHandler
    <2>4. CASE \E p \in Pid, how \in Zombie : ChildExits(p, how)
      BY <2>4, ChildExitsRefines
    <2>5. CASE BeginSigchild \/ UNCHANGED vars
      BY <2>5, HiddenStepsRefine
    <2>6. QED
      BY <2>1, <2>2, <2>3, <2>4, <2>5 DEF Next, NoEffect, Down
  <1>2. QED
    BY <1>1, InitRefines, Inductive, PTL DEF Spec, SupervisionSpec,
            Supervision!Spec
=============================================================================

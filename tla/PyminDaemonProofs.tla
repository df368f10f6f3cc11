-------------------------- MODULE PyminDaemonProofs --------------------------
(***************************************************************************)
(* Proofs about PyminDaemon, for any set of clients and any number of      *)
(* signals: handle() never blocks, stop() ends the turn of the loop, and   *)
(* the timer survives every interleaving of signals and requests.          *)
(*                                                                         *)
(* That handle() finds a datagram is decided when poll() returns and only  *)
(* used after the signals were handled: WokenForAReason carries it over.   *)
(***************************************************************************)
EXTENDS PyminDaemon, TLAPS

\* poll() returned for a datagram or for a signal, and a turn of the loop in
\* which no signal was seen still has its datagram.
WokenForAReason == /\ pc = "woken" => signals # <<>> \/ inbox # <<>>
                   /\ pc = "drain" /\ ~have_signals => inbox # <<>>
                   /\ pc = "handle" => inbox # <<>>

\* A request that is being served has a sender.
ServesAClient == pc = "dispatch" => serving \in Client

IInv == /\ TypeOK
        /\ WokenForAReason
        /\ ServesAClient
        /\ StopEndsTheTurn
        /\ TimerNeverDies

USE ConstantsAssumption DEF Location, Outside, Signum, Over, loopvars, requests

LEMMA InitIInv == Init => IInv
  <1> SUFFICES ASSUME Init PROVE IInv
    OBVIOUS
  <1>1. TypeOK
    <2>1. signals \in Seq(Signum)
      BY DEF Init
    <2>2. inbox \in Seq(Client)
      BY DEF Init
    <2>3. sent \in [Outside -> 0..MaxSent]
      <3>1. 0 \in 0..MaxSent
        OBVIOUS
      <3>2. QED
        BY <3>1, Zenon DEF Init
    <2>4. QED
      BY <2>1, <2>2, <2>3 DEF Init, TypeOK
  <1>2. WokenForAReason /\ ServesAClient /\ StopEndsTheTurn /\ TimerNeverDies
    BY DEF Init, WokenForAReason, ServesAClient, StopEndsTheTurn, TimerNeverDies
  <1>3. QED
    BY <1>1, <1>2 DEF IInv

\* A list that has got one more member is not empty, and has kept its alarm.
LEMMA AppendKeeps ==
    ASSUME NEW s \in Signum, signals \in Seq(Signum), signals' = Append(signals, s)
    PROVE  /\ signals' \in Seq(Signum)
           /\ signals' # <<>>
           /\ Pending("ALRM") => Pending("ALRM")'
           /\ s = "ALRM" => Pending("ALRM")'
  <1>1. signals'[Len(signals')] = s /\ Len(signals') = Len(signals) + 1
    OBVIOUS
  <1>2. \A i \in 1..Len(signals) : signals'[i] = signals[i]
    OBVIOUS
  <1>3. QED
    BY <1>1, <1>2 DEF Pending

\* The head of a list has been taken: the alarm was the head or is still there.
LEMMA TailKeeps ==
    ASSUME signals \in Seq(Signum), signals # <<>>, signals' = Tail(signals)
    PROVE  /\ signals' \in Seq(Signum)
           /\ Head(signals) \in Signum
           /\ Pending("ALRM") => Head(signals) = "ALRM" \/ Pending("ALRM")'
  <1>1. Len(signals') = Len(signals) - 1
    OBVIOUS
  <1>2. \A i \in 1..Len(signals) : i = 1 \/ signals'[i - 1] = signals[i]
    OBVIOUS
  <1>3. signals[1] = Head(signals)
    OBVIOUS
  <1>4. Pending("ALRM") => Head(signals) = "ALRM" \/ Pending("ALRM")'
    <2>1. SUFFICES ASSUME NEW i \in 1..Len(signals), signals[i] = "ALRM",
                          Head(signals) # "ALRM"
                   PROVE  Pending("ALRM")'
      BY DEF Pending
    <2>2. i # 1 /\ i - 1 \in 1..Len(signals') /\ signals'[i - 1] = "ALRM"
      BY <1>1, <1>2, <1>3, <2>1
    <2>3. QED
      BY <2>2 DEF Pending
  <1>5. QED
    BY <1>4

LEMMA CatchStep ==
    ASSUME IInv, NEW s \in Signum, Catch(s),
           \/ s = "ALRM" /\ alarm' = "off"
           \/ UNCHANGED alarm,
           sent' \in [Outside -> 0..MaxSent],
           UNCHANGED <<have_signals, stop, requests>>
    PROVE  IInv'
  <1> USE DEF IInv, Catch
  <1>1. /\ signals' \in Seq(Signum) /\ signals' # <<>>
        /\ Pending("ALRM") => Pending("ALRM")'
        /\ s = "ALRM" => Pending("ALRM")'
    BY AppendKeeps DEF TypeOK
  <1>2. TypeOK'
    BY <1>1 DEF TypeOK
  <1>3. WokenForAReason'
    BY <1>1 DEF TypeOK, WokenForAReason
  <1>4. ServesAClient' /\ StopEndsTheTurn'
    BY DEF ServesAClient, StopEndsTheTurn
  <1>5. TimerNeverDies'
    BY <1>1 DEF TimerNeverDies, Pending
  <1>6. QED
    BY <1>2, <1>3, <1>4, <1>5

LEMMA HandleSignalStep == ASSUME IInv, HandleSignal PROVE IInv'
  <1> USE DEF IInv, HandleSignal, Callback, Raise
  <1>1. /\ signals' \in Seq(Signum)
        /\ Head(signals) \in Signum
        /\ Pending("ALRM") => Head(signals) = "ALRM" \/ Pending("ALRM")'
    BY TailKeeps DEF TypeOK
  <1>2. TypeOK'
    BY <1>1 DEF TypeOK
  <1>3. WokenForAReason'
    BY DEF WokenForAReason
  <1>4. ServesAClient' /\ StopEndsTheTurn'
    BY DEF ServesAClient, StopEndsTheTurn
  <1>5. TimerNeverDies'
    BY <1>1 DEF TimerNeverDies, Pending, TypeOK
  <1>6. QED
    BY <1>2, <1>3, <1>4, <1>5

LEMMA LoopStep == ASSUME IInv, Loop PROVE IInv'
  <1> USE DEF IInv, Step, Raise
  <1>1. CASE Run
    BY <1>1 DEF Run, TypeOK, WokenForAReason, ServesAClient, StopEndsTheTurn,
                TimerNeverDies
  <1>2. CASE EnterPoll \/ PollReady
    BY <1>2 DEF EnterPoll, PollReady, TypeOK, WokenForAReason, ServesAClient,
                StopEndsTheTurn,
                TimerNeverDies
  <1>3. CASE LookAtSignals
    BY <1>3 DEF LookAtSignals, TypeOK, WokenForAReason, ServesAClient,
                StopEndsTheTurn, TimerNeverDies
  <1>4. CASE HandleSignal
    BY <1>4, HandleSignalStep
  <1>5. CASE EndDrain
    <2>1. TypeOK'
      BY <1>5 DEF EndDrain, TypeOK
    <2>2. WokenForAReason' /\ ServesAClient' /\ StopEndsTheTurn'
      BY <1>5 DEF EndDrain, TypeOK, WokenForAReason, ServesAClient,
                  StopEndsTheTurn
    <2>3. TimerNeverDies'
      BY <1>5 DEF EndDrain, TimerNeverDies
    <2>4. QED
      BY <2>1, <2>2, <2>3
  <1>6. CASE Receive
    <2>1. inbox # <<>> => Head(inbox) \in Client /\ Tail(inbox) \in Seq(Client)
      BY DEF TypeOK
    <2>2. TypeOK'
      BY <1>6, <2>1 DEF Receive, TypeOK
    <2>3. WokenForAReason' /\ ServesAClient' /\ StopEndsTheTurn'
      BY <1>6, <2>1 DEF Receive, WokenForAReason, ServesAClient, StopEndsTheTurn
    <2>4. TimerNeverDies'
      BY <1>6 DEF Receive, TimerNeverDies
    <2>5. QED
      BY <2>2, <2>3, <2>4
  <1>7. CASE Respond
    <2>1. TypeOK'
      BY <1>7 DEF Respond, ServesAClient, TypeOK
    <2>2. WokenForAReason' /\ ServesAClient' /\ StopEndsTheTurn'
      BY <1>7 DEF Respond, WokenForAReason, ServesAClient, StopEndsTheTurn
    <2>3. TimerNeverDies'
      BY <1>7 DEF Respond, TimerNeverDies
    <2>4. QED
      BY <2>1, <2>2, <2>3
  <1>8. CASE CheckStop
    BY <1>8 DEF CheckStop, TypeOK, WokenForAReason, ServesAClient,
                StopEndsTheTurn, TimerNeverDies
  <1>9. QED
    BY <1>1, <1>2, <1>3, <1>4, <1>5, <1>6, <1>7, <1>8 DEF Loop

LEMMA ClientStep ==
    ASSUME IInv, NEW c \in Client, Ask(c) \/ TakeAnswer(c) PROVE IInv'
  <1> USE DEF IInv
  <1>1. CASE Ask(c)
    <2>1. inbox' \in Seq(Client) /\ inbox' # <<>>
      BY <1>1 DEF Ask, TypeOK
    <2>2. QED
      BY <1>1, <2>1 DEF Ask, TypeOK, WokenForAReason, ServesAClient,
                        StopEndsTheTurn, TimerNeverDies
  <1>2. CASE TakeAnswer(c)
    BY <1>2 DEF TakeAnswer, TypeOK, WokenForAReason, ServesAClient,
                StopEndsTheTurn, TimerNeverDies
  <1>3. QED
    BY <1>1, <1>2

THEOREM Inductive == Spec => []IInv
  <1>1. IInv /\ [Next]_vars => IInv'
    <2> SUFFICES ASSUME IInv, [Next]_vars PROVE IInv'
      OBVIOUS
    <2>1. CASE Loop
      BY <2>1, LoopStep
    <2>2. CASE PollFails
      BY <2>2 DEF PollFails, Step, IInv, TypeOK, WokenForAReason,
                  ServesAClient, StopEndsTheTurn,
                  TimerNeverDies
    <2>3. CASE TimePasses
      BY <2>3 DEF TimePasses, IInv, TypeOK, WokenForAReason, ServesAClient,
                  StopEndsTheTurn,
                  TimerNeverDies
    <2>4. CASE AlarmFires
      BY <2>4, CatchStep DEF AlarmFires, IInv, TypeOK
    <2>5. ASSUME NEW s \in Outside, Send(s) PROVE IInv'
      <3>1. sent' \in [Outside -> 0..MaxSent]
        BY <2>5 DEF Send, IInv, TypeOK
      <3>2. QED
        BY <2>5, <3>1, CatchStep DEF Send
    <2>6. CASE \E c \in Client : Ask(c) \/ TakeAnswer(c)
      BY <2>6, ClientStep
    <2>7. CASE UNCHANGED vars
      BY <2>7 DEF vars, IInv, TypeOK, WokenForAReason, ServesAClient,
                  StopEndsTheTurn, TimerNeverDies
    <2>8. QED
      BY <2>1, <2>2, <2>3, <2>4, <2>5, <2>6, <2>7 DEF Next, Ended
  <1>2. QED
    BY <1>1, InitIInv, PTL DEF Spec

\* The list of signals, the flags and the requests keep to their types.
THEOREM TypeCorrect == Spec => []TypeOK
  BY Inductive, PTL DEF IInv

\* handle() is only called with a datagram to receive: the daemon never sits
\* in recvfrom, deaf to signals.
THEOREM ReceiveIsSafe == Spec => []ReceiveNeverBlocks
  <1>1. IInv => ReceiveNeverBlocks
    BY DEF IInv, WokenForAReason, ReceiveNeverBlocks
  <1>2. QED
    BY <1>1, Inductive, PTL

\* After stop() the loop does not go back to sleep.
THEOREM StopIsHeeded == Spec => []StopEndsTheTurn
  BY Inductive, PTL DEF IInv

\* The one-shot alarm and its signal are never both gone.
THEOREM TimerSurvives == Spec => []TimerNeverDies
  BY Inductive, PTL DEF IInv
=============================================================================

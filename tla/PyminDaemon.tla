----------------------------- MODULE PyminDaemon -----------------------------
(***************************************************************************)
(* pymin/eventloop.py and pymin/pymindaemon.py: the one thread of the      *)
(* daemon, which sleeps in poll() until a datagram or a signal comes.      *)
(*                                                                         *)
(* signal_handler only puts the number of a signal in the list `signals';  *)
(* Python runs it between any two instructions of the loop, or in the      *)
(* middle of poll(), which it then wakes with EINTR.  The loop looks at    *)
(* the list after poll() and nowhere else.  What a command or a timer of   *)
(* the handlers does is left out, but not that it takes time and may fail. *)
(***************************************************************************)
EXTENDS Naturals, Sequences

CONSTANTS Client,      \* senders of datagrams, with one request at a time each
          NoClient,
          MaxSent,     \* how often each signal is sent from outside
          CanFail      \* may system calls and signal callbacks raise?

ASSUME ConstantsAssumption == /\ NoClient \notin Client
                              /\ MaxSent \in Nat
                              /\ CanFail \in BOOLEAN

VARIABLES
    signals,       \* eventloop.signals: caught and not handled yet
    have_signals,  \* the local variable of loop()
    stop,          \* EventLoop._stop
    alarm,         \* the one-shot timer of signal.alarm
    inbox,         \* the datagrams in the socket, by sender
    serving,       \* the client whose request is being served, or NoClient
    answered,      \* the clients with a response they have not taken yet
    sent,          \* signals sent from outside so far
    pc             \* where the daemon is

loopvars == <<signals, have_signals, stop>>
requests == <<inbox, serving, answered>>
vars == <<loopvars, alarm, requests, sent, pc>>

Outside == {"TERM", "USR1", "CHLD"}  \* SIGINT is handled as SIGTERM is
Signum == Outside \cup {"ALRM"}
Location == {"start",     \* run(), before the loop
             "top",       \* in the loop, before poll() is entered
             "poll",      \* in poll()
             "woken",     \* poll() has returned
             "drain",     \* while signals
             "handle",    \* before recvfrom
             "dispatch",  \* a request is being served
             "check",     \* before `if self._stop or once'
             "exited",    \* run() has returned
             "dead"}      \* an exception has left run()
Over == pc \in {"exited", "dead"}

TypeOK == /\ signals \in Seq(Signum)
          /\ have_signals \in BOOLEAN
          /\ stop \in BOOLEAN
          /\ alarm \in {"off", "set", "due"}
          /\ inbox \in Seq(Client)
          /\ serving \in Client \cup {NoClient}
          /\ answered \subseteq Client
          /\ sent \in [Outside -> 0..MaxSent]
          /\ pc \in Location

Init == /\ signals = <<>>
        /\ have_signals = FALSE
        /\ stop = FALSE
        /\ alarm = "off"
        /\ inbox = <<>>
        /\ serving = NoClient
        /\ answered = {}
        /\ sent = [s \in Outside |-> 0]
        /\ pc = "start"

-----------------------------------------------------------------------------
\* Signals.  In poll() a signal interrupts the call; anywhere else it waits in
\* the list, also when poll() is about to be entered.
Catch(s) == /\ ~Over
            /\ signals' = Append(signals, s)
            /\ pc' = IF pc = "poll" THEN "woken" ELSE pc

Send(s) == /\ sent[s] < MaxSent
           /\ Catch(s)
           /\ sent' = [sent EXCEPT ![s] = @ + 1]
           /\ UNCHANGED <<have_signals, stop, alarm, requests>>

\* The alarm is set for a whole second (or more): what the loop does between
\* two waits takes no such time, a sleep in poll() or a command may.
TimePasses == /\ alarm = "set"
              /\ pc = "dispatch" \/ (pc = "poll" /\ inbox = <<>>)
              /\ alarm' = "due"
              /\ UNCHANGED <<loopvars, requests, sent, pc>>

AlarmFires == /\ alarm = "due"
              /\ Catch("ALRM")
              /\ alarm' = "off"
              /\ UNCHANGED <<have_signals, stop, requests, sent>>

-----------------------------------------------------------------------------
\* run() and loop()

Raise == CanFail /\ pc' = "dead" /\ UNCHANGED alarm

\* handle_timer() once, and the first alarm.
Run == /\ pc = "start"
       /\ \/ alarm' = "set" /\ pc' = "top"
          \/ Raise
       /\ UNCHANGED <<loopvars, requests, sent>>

Step(from, to) == /\ pc = from
                  /\ pc' = to
                  /\ UNCHANGED <<loopvars, alarm, requests, sent>>

EnterPoll == Step("top", "poll")

PollReady == inbox # <<>> /\ Step("poll", "woken")

\* Any other error of poll() ends the loop; run() swallows the exception.
PollFails == CanFail /\ Step("poll", "exited")

\* A bug: the list is looked at once it has been emptied.
LookAtSignalsLate == /\ pc = "woken"
                     /\ have_signals' = FALSE
                     /\ pc' = "drain"
                     /\ UNCHANGED <<signals, stop, alarm, requests, sent>>

\* A bug: a datagram goes before the signals.
LookAtSignalsLast == /\ pc = "woken"
                     /\ have_signals' = (signals # <<>>)
                     /\ pc' = IF inbox = <<>> THEN "drain" ELSE "handle"
                     /\ UNCHANGED <<signals, stop, alarm, requests, sent>>

LookAtSignals == /\ pc = "woken"
                 /\ have_signals' = (signals # <<>>)
                 /\ pc' = "drain"
                 /\ UNCHANGED <<signals, stop, alarm, requests, sent>>

\* A bug: a failing handler is survived, but a failing timer sets no alarm.
CallbackSurvives(s) == /\ stop' = (stop \/ s = "TERM")
                       /\ alarm' \in IF s = "ALRM" THEN {"set", alarm} ELSE {alarm}
                       /\ UNCHANGED pc

\* The callback of a signal: quit, reload_config (which does nothing yet),
\* timer and child.  The last two run code that may raise, and nothing
\* between them and run() catches that.
Callback(s) ==
    \/ /\ stop' = (stop \/ s = "TERM")
       /\ alarm' = IF s = "ALRM" THEN "set" ELSE alarm
       /\ UNCHANGED pc
    \/ s \in {"ALRM", "CHLD"} /\ Raise /\ UNCHANGED stop

HandleSignal == /\ pc = "drain"
                /\ signals # <<>>
                /\ signals' = Tail(signals)
                /\ Callback(Head(signals))
                /\ UNCHANGED <<have_signals, requests, sent>>

\* A bug: after signals the loop goes straight back to poll().
EndDrainContinues ==
    /\ signals = <<>>
    /\ IF have_signals THEN Step("drain", "top") ELSE Step("drain", "handle")

EndDrain == /\ signals = <<>>
            /\ IF have_signals THEN Step("drain", "check") ELSE Step("drain", "handle")

\* A bug: the latest request goes first.
ReceiveLatest == /\ pc = "handle"
                 /\ inbox # <<>>
                 /\ serving' = inbox[Len(inbox)]
                 /\ inbox' = SubSeq(inbox, 1, Len(inbox) - 1)
                 /\ pc' = "dispatch"
                 /\ UNCHANGED <<loopvars, answered, sent, alarm>>

\* handle(): recvfrom takes a datagram; it is outside of the try statement.
Receive == /\ pc = "handle"
           /\ \/ /\ inbox # <<>>
                 /\ serving' = Head(inbox)
                 /\ inbox' = Tail(inbox)
                 /\ pc' = "dispatch"
                 /\ UNCHANGED alarm
              \/ Raise /\ UNCHANGED <<serving, inbox>>
           /\ UNCHANGED <<loopvars, answered, sent>>

\* A bug: the sender's address is gone when the response is sent.
RespondToNobody == /\ pc = "dispatch"
                   /\ serving' = NoClient
                   /\ answered' = answered \cup {serving'}
                   /\ pc' = "check"
                   /\ UNCHANGED <<loopvars, inbox, sent, alarm>>

\* Every outcome of dispatch(), exceptions included, gives one response.  The
\* sendto is outside of the try statement: a response that does not fit in a
\* datagram is the end.
Respond == /\ pc = "dispatch"
           /\ serving' = NoClient
           /\ \/ /\ answered' = answered \cup {serving}
                 /\ pc' = "check"
                 /\ UNCHANGED alarm
              \/ Raise /\ UNCHANGED answered
           /\ UNCHANGED <<loopvars, inbox, sent>>

\* A bug: the loop goes on while there is something to do.
CheckStopWhenIdle == /\ pc = "check"
                     /\ stop' = FALSE
                     /\ pc' = IF stop /\ inbox = <<>> THEN "exited" ELSE "top"
                     /\ UNCHANGED <<signals, have_signals, alarm, requests, sent>>

CheckStop == /\ pc = "check"
             /\ stop' = FALSE
             /\ pc' = IF stop THEN "exited" ELSE "top"
             /\ UNCHANGED <<signals, have_signals, alarm, requests, sent>>

-----------------------------------------------------------------------------
Senders == {inbox[i] : i \in 1..Len(inbox)}

\* A client sends a datagram, or takes the answer and is ready for another.
Ask(c) == /\ ~Over
          /\ c \notin Senders \cup answered \cup {serving}
          /\ inbox' = Append(inbox, c)
          /\ UNCHANGED <<loopvars, alarm, serving, answered, sent, pc>>

TakeAnswer(c) == /\ c \in answered
                 /\ answered' = answered \ {c}
                 /\ UNCHANGED <<loopvars, alarm, inbox, serving, sent, pc>>

Loop == \/ Run
        \/ EnterPoll
        \/ PollReady
        \/ LookAtSignals
        \/ HandleSignal
        \/ EndDrain
        \/ Receive
        \/ Respond
        \/ CheckStop

Ended == Over /\ UNCHANGED vars

Next == \/ Loop
        \/ PollFails
        \/ TimePasses
        \/ AlarmFires
        \/ \E s \in Outside : Send(s)
        \/ \E c \in Client : Ask(c) \/ TakeAnswer(c)
        \/ Ended

Spec == Init /\ [][Next]_vars

\* The loop runs whenever it can.  Time goes by however busy the loop is: each
\* turn takes some, so that infinitely many of them outlast any alarm.
Fairness == WF_vars(Loop) /\ SF_vars(TimePasses) /\ WF_vars(AlarmFires)
FairSpec == Spec /\ Fairness

\* Besides, clients keep sending requests.
BusySpec == FairSpec /\ \A c \in Client : WF_vars(Ask(c) \/ TakeAnswer(c))

-----------------------------------------------------------------------------
\* recvfrom never blocks the daemon (pymindaemon.py:111): when the loop calls
\* handle(), a datagram is there, although signals are handled in between and
\* take the place of a datagram that woke the loop.
ReceiveNeverBlocks == pc = "handle" => inbox # <<>>

\* Once a callback has called stop() (eventloop.py:162), the loop never polls
\* again; a datagram that had woken it may still be served.
StopEndsTheTurn == stop => pc \in {"drain", "handle", "dispatch", "check", "dead"}

\* The alarm is one-shot and set again by its own handler alone
\* (pymindaemon.py:94): in a daemon that runs, it is set or its signal is in
\* the list, so the timer of the handlers never dies silently.
TimerNeverDies ==
    pc \notin {"start", "exited", "dead"} =>
        alarm # "off" \/ \E i \in 1..Len(signals) : signals[i] = "ALRM"

Pending(s) == \E i \in 1..Len(signals) : signals[i] = s

\* eventloop.py:89-91: the loop runs until the program is terminated by a TERM
\* signal, when stop() is called and the event loop is exited.
TermStops == Pending("TERM") ~> Over

\* A child's exit reaches the process manager.
ChildSignalHandled == Pending("CHLD") ~> (Over \/ ~Pending("CHLD"))

\* The timer of the handlers (pymindaemon.py:94) is called again and again, as
\* long as there is a daemon and there are clients that wake it: other signals and
\* requests do not keep the timer from its turn.
Tick == HandleSignal /\ Head(signals) = "ALRM"
TimerTicks == (<>Over) \/ []<><<Tick>>_vars

\* Every request that is received is answered, unless the daemon ends.
RequestsAnswered == \A c \in Client : c \in Senders ~> (c \in answered \/ Over)
=============================================================================

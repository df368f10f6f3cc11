------------------------------- MODULE Filters -------------------------------
(***************************************************************************)
(* services/firewall and services/nat: two ServiceHandlers over the tables *)
(* of iptables(8).  The firewall renders its rules to a script when they   *)
(* are committed, and runs the script; nat renders its rules each time it  *)
(* starts.                                                                 *)
(*                                                                         *)
(* iptables refuses to insert a rule at an index that its chain does not   *)
(* reach, a destination with more than one port, and what it does not      *)
(* understand: no rule of the firewall that names a protocol is fit, since *)
(* -m gets it in capitals, and nobody validates what nat is given.  It may *)
(* also not work at all for a while.  A script goes on and has the status  *)
(* of its last command; nat stops at the first error.  The daemon may end  *)
(* between two commands, the machine too; a service that was running is    *)
(* started by its constructor, where an error is the end of the daemon.    *)
(***************************************************************************)
EXTENDS Containers, FiniteSets

CONSTANTS Chain,      \* the chains of the table filter
          Target,     \* what tells the rules of a chain apart
          Forward,    \* what tells port forwards apart
          Snat, Masq,
          Unfit,      \* which of these iptables refuses whatever the tables are
          MaxRules,   \* how long a list may be
          MaxEdits    \* how many commands may change a list

ASSUME FiltersAssumption == MaxRules \in Nat /\ MaxEdits \in Nat

Rule == [chain : Chain, target : Target]
\* Two ports in a destination or more: no difference to iptables.
Port == [forward : Forward, hasport : BOOLEAN, ports : 0..2]
Lists(S) == UNION {[1..n -> S] : n \in 0..MaxRules}
NoRules == [c \in Chain |-> <<>>]

VARIABLES
    rules,                \* FirewallHandler.rules
    fwrunning,            \* its _service_running
    fwsaved,              \* its pickle files
    script,               \* the rules in iptables.sh
    filter,               \* the table filter
    fwlast,               \* history: how the script went when it was last to run
    forwards, snats, masqs,  \* NatHandler.ports, snats, masqs
    natrunning,
    natsaved,
    pre, post,            \* the table nat
    natcut,               \* history: did nat stop at an error?
    daemon,               \* is there a daemon, or why did its start fail?
    edits

firewall == <<rules, fwrunning, fwsaved, script, filter, fwlast>>
natlists == <<forwards, snats, masqs>>
nat == <<natlists, natrunning, natsaved, pre, post, natcut>>
vars == <<firewall, nat, daemon, edits>>

FiltersTypeOK ==
    /\ rules \in Lists(Rule) /\ script \in Lists(Rule)
    /\ fwsaved \in [rules : Lists(Rule), running : BOOLEAN]
    /\ filter \in [Chain -> Lists(Rule)]
    /\ forwards \in Lists(Port) /\ snats \in Lists(Snat) /\ masqs \in Lists(Masq)
    /\ natsaved \in [forwards : Lists(Port), snats : Lists(Snat),
                     masqs : Lists(Masq), running : BOOLEAN]
    /\ pre \in Lists(Port) /\ post \in Seq(Snat \cup Masq)
    /\ {fwrunning, natrunning, natcut} \subseteq BOOLEAN
    /\ fwlast \in {"done", "cut", "broken"}
    /\ daemon \in {"up", "down", "failed", "broken"}
    /\ edits \in 0..MaxEdits

Init == /\ rules = <<>> /\ script = <<>>
        /\ fwrunning = FALSE
        /\ fwsaved = [rules |-> <<>>, running |-> FALSE]
        /\ filter = NoRules
        /\ forwards = <<>> /\ snats = <<>> /\ masqs = <<>>
        /\ natrunning = FALSE
        /\ natsaved = [forwards |-> <<>>, snats |-> <<>>, masqs |-> <<>>,
                       running |-> FALSE]
        /\ pre = <<>> /\ post = <<>>
        /\ daemon = "up"
        /\ fwlast = "done" /\ natcut = FALSE
        /\ edits = 0

\* The commands of a list: add, update (which does not compare), delete, clear.
Edited(list, items) ==
    {Append(list, x) : x \in {y \in items : CanAppend(list, y)
                                            /\ Len(list) < MaxRules}}
    \cup {ReplaceAt(list, i, x) : i \in DOMAIN list, x \in items}
    \cup {DropAt(list, i) : i \in DOMAIN list}
    \cup {<<>>}

Up == daemon = "up"
Edit == Up /\ edits < MaxEdits /\ edits' = edits + 1 /\ UNCHANGED daemon
Command == Up /\ UNCHANGED <<daemon, edits>>

-----------------------------------------------------------------------------
\* A bug: the indices begin at two.
InsertedFromTwo(s) == NoRules

\* iptables.sh: rule n of the list is inserted at index n of its chain.
InsertRule(t, n, r) == IF n <= Len(t[r.chain]) + 1 /\ r.target \notin Unfit
                       THEN [t EXCEPT ![r.chain] = Append(@, r)] ELSE t
Inserted(s) ==
    LET table[n \in 0..Len(s)] ==
          IF n = 0 THEN NoRules ELSE InsertRule(table[n - 1], n, s[n])
    IN  table[Len(s)]
\* The status of the script.
Succeeds(s) == s # <<>> => \E i \in DOMAIN Inserted(s)[s[Len(s)].chain] :
                                i = Len(s)

\* A script whose commands find no iptables that works leaves the table alone.
RunScript(s, works) ==
    IF works THEN /\ filter' = Inserted(s)
                  /\ fwlast' = IF Succeeds(s) THEN "done" ELSE "cut"
    ELSE filter' = filter /\ fwlast' = "broken"

FwEdit == /\ Edit
          /\ rules' \in Edited(rules, Rule)
          /\ UNCHANGED <<fwrunning, fwsaved, script, filter, fwlast, nat>>

FwFlag(r) == fwrunning' = r /\ fwsaved' = [fwsaved EXCEPT !.running = r]

\* start and restart: an error leaves the flag alone.  When iptables does not work
\* nothing happens at all, in these and in stop and reload: that is no step.
FwStart(restart) == /\ Command
                    /\ restart \/ ~fwrunning
                    /\ RunScript(script, TRUE)
                    /\ IF Succeeds(script) THEN FwFlag(TRUE)
                       ELSE UNCHANGED <<fwrunning, fwsaved>>
                    /\ UNCHANGED <<rules, script, nat>>

\* A bug: the table is not flushed.
FwStopKeeps == /\ Command
               /\ fwrunning
               /\ fwlast' = "done"
               /\ FwFlag(FALSE)
               /\ UNCHANGED <<rules, script, filter, nat>>

FwStop == /\ Command
          /\ fwrunning
          /\ filter' = NoRules /\ fwlast' = "done"
          /\ FwFlag(FALSE)
          /\ UNCHANGED <<rules, script, nat>>

FwReload == /\ Command
            /\ fwrunning
            /\ RunScript(script, TRUE)
            /\ UNCHANGED <<rules, fwrunning, fwsaved, script, nat>>

\* What is saved stays saved when the reload fails.
FwCommit(works) ==
    /\ Command
    /\ fwsaved' = [rules |-> rules, running |-> fwrunning]
    /\ script' = rules
    /\ IF fwrunning THEN RunScript(script', works) ELSE UNCHANGED <<filter, fwlast>>
    /\ UNCHANGED <<rules, fwrunning, nat>>

FwRollback == /\ Command
              /\ rules' = fwsaved.rules /\ fwrunning' = fwsaved.running
              /\ UNCHANGED <<fwsaved, script, filter, fwlast, nat>>

-----------------------------------------------------------------------------
\* PortForward.as_call_list: the port goes to the end of dst, and stays there.
Rendered(p) == IF p.hasport /\ p.ports < 2 THEN [p EXCEPT !.ports = @ + 1] ELSE p
RefusedPorts == {p \in Port : Rendered(p).ports > 1 \/ p.forward \in Unfit}

\* _service_start: flush, and insert, up to the first error.  Both the list
\* that was not rendered further and the table are what is left of it.
Done(list, refused) == {i \in DOMAIN list : \A j \in 1..i : list[j] \notin refused}
PortsIn == Done(forwards, RefusedPorts) = DOMAIN forwards
SnatsIn == PortsIn /\ Done(snats, Unfit) = DOMAIN snats
NatSucceeds == SnatsIn /\ Done(masqs, Unfit) = DOMAIN masqs
\* The masqueradings are inserted before the snats that are there.
SnatsDone == [i \in Done(snats, Unfit) |-> snats[i]]
MasqsDone == [i \in Done(masqs, Unfit) |-> masqs[i]]
Insert == /\ pre' = [i \in Done(forwards, RefusedPorts) |-> Rendered(forwards[i])]
          /\ post' = IF SnatsIn THEN MasqsDone \o snats
                     ELSE IF PortsIn THEN SnatsDone ELSE <<>>
          /\ natcut' = ~NatSucceeds
Remember == forwards' = [i \in DOMAIN forwards |->
                            IF \A j \in 1..(i - 1) : forwards[j] \notin RefusedPorts
                            THEN Rendered(forwards[i]) ELSE forwards[i]]
Render == Insert /\ Remember /\ UNCHANGED <<snats, masqs>>

NatEdit == /\ Edit
           /\ \/ \E new \in Edited(forwards, {p \in Port : p.ports = 0}) :
                    forwards' = new /\ UNCHANGED <<snats, masqs>>
              \/ snats' \in Edited(snats, Snat) /\ UNCHANGED <<forwards, masqs>>
              \/ masqs' \in Edited(masqs, Masq) /\ UNCHANGED <<forwards, snats>>
           /\ UNCHANGED <<natrunning, natsaved, pre, post, natcut, firewall>>

\* An update that gives no new destination keeps the ports that are there.
NatUpdate(i, f) == /\ Edit
                   /\ i \in DOMAIN forwards
                   /\ forwards' = [forwards EXCEPT ![i].forward = f,
                                                   ![i].hasport = TRUE]
                   /\ UNCHANGED <<snats, masqs, natrunning, natsaved, pre, post,
                                  natcut, firewall>>

NatFlag(r) == natrunning' = r /\ natsaved' = [natsaved EXCEPT !.running = r]

NatStart(restart) == /\ Command
                     /\ restart \/ ~natrunning
                     /\ Render
                     /\ IF NatSucceeds THEN NatFlag(TRUE)
                        ELSE UNCHANGED <<natrunning, natsaved>>
                     /\ UNCHANGED firewall

NatStop == /\ Command
           /\ natrunning
           /\ pre' = <<>> /\ post' = <<>> /\ natcut' = FALSE
           /\ NatFlag(FALSE)
           /\ UNCHANGED <<natlists, firewall>>

\* reload is restart, if nat is running.
NatReload == natrunning /\ NatStart(TRUE)

NatDump == natsaved' = [forwards |-> forwards, snats |-> snats, masqs |-> masqs,
                        running |-> natrunning]

NatCommit(works) ==
    /\ Command
    /\ NatDump
    /\ IF natrunning /\ works THEN Render
       ELSE UNCHANGED <<natlists, pre, post, natcut>>
    /\ UNCHANGED <<natrunning, firewall>>

NatRollback == /\ Command
               /\ forwards' = natsaved.forwards
               /\ snats' = natsaved.snats /\ masqs' = natsaved.masqs
               /\ natrunning' = natsaved.running
               /\ UNCHANGED <<natsaved, pre, post, natcut, firewall>>

-----------------------------------------------------------------------------
\* The daemon ends, or the machine; memory is as it will be restored.
Ends(reboot) ==
    /\ Up
    /\ daemon' = "down"
    /\ rules' = fwsaved.rules /\ fwrunning' = fwsaved.running
    /\ forwards' = natsaved.forwards
    /\ snats' = natsaved.snats /\ masqs' = natsaved.masqs
    /\ natrunning' = natsaved.running
    /\ IF reboot THEN /\ filter' = NoRules /\ fwlast' = "done"
                      /\ pre' = <<>> /\ post' = <<>> /\ natcut' = FALSE
       ELSE UNCHANGED <<filter, fwlast, pre, post, natcut>>
    /\ UNCHANGED <<fwsaved, script, natsaved, edits>>

\* The constructors, in no particular order: a service is not constructed when
\* the one before it has failed.  What the start of a daemon that fails has made
\* of its memory is lost.
Begins(fw, ns, works) ==
    LET fwfails == fwrunning /\ ~(works /\ Succeeds(script))
        natfails == natrunning /\ ~(works /\ NatSucceeds)
    IN  /\ ~Up
        /\ fw \/ natfails
        /\ ns \/ fwfails
        /\ daemon' = IF ~fwfails /\ ~natfails THEN "up"
                     ELSE IF works THEN "failed" ELSE "broken"
        /\ IF fw /\ fwrunning THEN RunScript(script, works)
           ELSE UNCHANGED <<filter, fwlast>>
        /\ IF ns /\ natrunning /\ works THEN Insert ELSE UNCHANGED <<pre, post, natcut>>
        /\ IF natrunning /\ daemon' = "up" THEN Remember ELSE UNCHANGED forwards
        /\ UNCHANGED <<rules, fwrunning, fwsaved, script, snats, masqs, natrunning,
                       natsaved, edits>>

Next == \/ FwEdit \/ NatEdit
        \/ \E i \in 1..MaxRules, f \in Forward : NatUpdate(i, f)
        \/ \E restart \in BOOLEAN : FwStart(restart) \/ NatStart(restart)
        \/ FwStop \/ FwReload \/ FwRollback
        \/ NatStop \/ NatReload \/ NatRollback
        \/ \E works \in BOOLEAN : FwCommit(works) \/ NatCommit(works)
        \/ \E reboot \in BOOLEAN : Ends(reboot)
        \/ \E fw, ns, works \in BOOLEAN : Begins(fw, ns, works)

Spec == Init /\ [][Next]_vars

-----------------------------------------------------------------------------
\* The tables follow the flags, through commits, rollbacks and restarts of the
\* daemon: a firewall that is flagged as running has in force what its committed
\* rules come to, and nothing uncommitted, unless iptables did not work when they
\* were committed; a service that is not has flushed its table.  Only the remains
\* of a start that failed are left in a table.
TablesFollowFlags ==
    Up => /\ fwrunning /\ fwlast # "broken" => filter = Inserted(fwsaved.rules)
          /\ ~fwrunning /\ fwlast = "done" => filter = NoRules
          /\ ~natrunning /\ ~natcut => pre = <<>> /\ post = <<>>
          /\ natrunning /\ ~natcut => \A i \in DOMAIN pre :
                                         pre[i].hasport => pre[i].ports = 1

\* Once iptables works a daemon can be started again, with the services that were
\* running, unless the firewall was running with saved rules of two chains or one
\* that iptables refuses, or nat was, with a port forward that was saved after it
\* was rendered or something that iptables refuses.
DaemonComesBack ==
    daemon = "failed" =>
        \/ /\ fwsaved.running
           /\ \/ Cardinality({fwsaved.rules[i].chain : i \in DOMAIN fwsaved.rules}) > 1
              \/ \E i \in DOMAIN fwsaved.rules : fwsaved.rules[i].target \in Unfit
        \/ /\ natsaved.running
           /\ \/ \E i \in DOMAIN natsaved.forwards :
                    LET p == natsaved.forwards[i] IN p.ports > 0 \/ p.forward \in Unfit
              \/ \E i \in DOMAIN natsaved.snats : natsaved.snats[i] \in Unfit
              \/ \E i \in DOMAIN natsaved.masqs : natsaved.masqs[i] \in Unfit
=============================================================================

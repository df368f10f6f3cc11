---------------------------- MODULE FiltersProofs ----------------------------
(***************************************************************************)
(* Safety of Filters for any chains, rules and lists.                      *)
(***************************************************************************)
EXTENDS Filters, SequenceTheorems, FunctionTheorems, FiniteSetTheorems, TLAPS

\* Memory and files agree on what runs, and the script on what was committed.
Saved == /\ fwsaved \in [rules : Lists(Rule), running : BOOLEAN]
         /\ fwrunning = fwsaved.running
         /\ script = fwsaved.rules
         /\ rules \in Lists(Rule)

NatSaved == /\ forwards \in Lists(Port)
            /\ snats \in Lists(Snat) /\ masqs \in Lists(Masq)
            /\ natsaved \in [forwards : Lists(Port), snats : Lists(Snat),
                             masqs : Lists(Masq), running : BOOLEAN]
            /\ natrunning = natsaved.running

\* A machine that comes up has an empty table, until the firewall is started.
FilterInForce ==
    /\ Up /\ fwrunning /\ fwlast # "broken" => filter = Inserted(script)
    /\ ~fwrunning /\ fwlast = "done" => filter = NoRules

\* Whatever nat was able to insert has one port.
NatInForce == /\ ~natrunning /\ ~natcut => pre = <<>> /\ post = <<>>
              /\ \A i \in DOMAIN pre : pre[i].hasport => pre[i].ports = 1

IInv == Saved /\ NatSaved /\ FilterInForce /\ NatInForce

-----------------------------------------------------------------------------
\* A list has items, no more than MaxRules; the empty one is a list.
LEMMA ListItems ==
    ASSUME NEW S, NEW list \in Lists(S)
    PROVE  /\ Len(list) \in 0..MaxRules
           /\ DOMAIN list = 1..Len(list)
           /\ list \in Seq(S)
           /\ \A i \in DOMAIN list : list[i] \in S
  <1>1. PICK n \in 0..MaxRules : list \in [1..n -> S]
    BY DEF Lists
  <1>2. n \in Nat
    BY <1>1, FiltersAssumption
  <1>3. list \in Seq(S)
    BY <1>1, <1>2
  <1>4. Len(list) = n
    BY <1>1, <1>2
  <1>5. QED
    BY <1>1, <1>2, <1>3, <1>4

\* A function on an initial segment is a list.
LEMMA ListIntro ==
    ASSUME NEW S, NEW n \in 0..MaxRules, NEW list \in [1..n -> S]
    PROVE  list \in Lists(S)
BY DEF Lists

\* The empty list.
LEMMA EmptyList == ASSUME NEW S PROVE <<>> \in Lists(S)
  <1>1. 0 \in 0..MaxRules /\ 1..0 = {}
    BY FiltersAssumption
  <1>2. <<>> \in [1..0 -> S]
    BY <1>1
  <1>3. QED
    BY <1>1, <1>2, ListIntro

\* The commands of a list keep it a list.
LEMMA EditedIsList ==
    ASSUME NEW S, NEW list \in Lists(S), NEW items \in SUBSET S
    PROVE  Edited(list, items) \subseteq Lists(S)
  <1> DEFINE n == Len(list)
  <1>1. n \in 0..MaxRules /\ n \in Nat /\ list \in Seq(S) /\ DOMAIN list = 1..n
        /\ list \in [1..n -> S]
    BY ListItems, FiltersAssumption
  <1>2. ASSUME NEW x \in items, n < MaxRules
        PROVE  Append(list, x) \in Lists(S)
    <2>1. n + 1 \in 0..MaxRules
      BY <1>1, <1>2, FiltersAssumption
    <2>2. Append(list, x) \in Seq(S) /\ Len(Append(list, x)) = n + 1
      BY <1>1, <1>2, AppendProperties
    <2>3. Append(list, x) \in [1..(n + 1) -> S]
      BY <2>2, LenProperties
    <2>4. QED
      BY <2>1, <2>3, ListIntro
  <1>3. ASSUME NEW i \in DOMAIN list, NEW x \in items
        PROVE  ReplaceAt(list, i, x) \in Lists(S)
    <2>1. ReplaceAt(list, i, x) \in [1..n -> S]
      BY <1>1, <1>3 DEF ReplaceAt
    <2>2. QED
      BY <1>1, <2>1, ListIntro
  <1>4. ASSUME NEW i \in DOMAIN list
        PROVE  DropAt(list, i) \in Lists(S)
    <2>1. n - 1 \in 0..MaxRules
      BY <1>1, <1>4, FiltersAssumption
    <2>2. \A j \in 1..(n - 1) : j \in 1..n /\ j + 1 \in 1..n
      BY <1>1
    <2>3. DropAt(list, i) \in [1..(n - 1) -> S]
      BY <1>1, <2>2 DEF DropAt
    <2>4. QED
      BY <2>1, <2>3, ListIntro
  <1>5. SUFFICES ASSUME NEW e \in Edited(list, items) PROVE e \in Lists(S)
    OBVIOUS
  <1>6. \/ \E x \in items : n < MaxRules /\ e = Append(list, x)
        \/ \E i \in DOMAIN list, x \in items : e = ReplaceAt(list, i, x)
        \/ \E i \in DOMAIN list : e = DropAt(list, i)
        \/ e = <<>>
    BY <1>5 DEF Edited
  <1>7. QED
    BY <1>2, <1>3, <1>4, <1>6, EmptyList

\* Rendering keeps a forward a forward; one that is not refused and has a port
\* has just one.
LEMMA RenderedIsPort ==
    ASSUME NEW p \in Port
    PROVE  /\ Rendered(p) \in Port
           /\ p \notin RefusedPorts /\ Rendered(p).hasport => Rendered(p).ports = 1
BY DEF Port, Rendered, RefusedPorts

\* nat is started: its list remains one, and every port in the table is alone.
LEMMA RenderingIsSafe ==
    ASSUME forwards \in Lists(Port)
    PROVE  /\ Remember => forwards' \in Lists(Port)
           /\ Insert => \A i \in DOMAIN pre' : pre'[i].hasport => pre'[i].ports = 1
  <1>1. Len(forwards) \in 0..MaxRules /\ DOMAIN forwards = 1..Len(forwards)
        /\ \A i \in DOMAIN forwards : forwards[i] \in Port
    BY ListItems
  <1>2. ASSUME Remember PROVE forwards' \in Lists(Port)
    <2>1. forwards' \in [1..Len(forwards) -> Port]
      BY <1>1, <1>2, RenderedIsPort DEF Remember
    <2>2. QED
      BY <1>1, <2>1, ListIntro
  <1>3. ASSUME Insert, NEW i \in DOMAIN pre', pre'[i].hasport
        PROVE  pre'[i].ports = 1
    <2>1. i \in DOMAIN forwards /\ pre'[i] = Rendered(forwards[i])
      BY <1>3 DEF Insert, Done
    <2>2. forwards[i] \notin RefusedPorts
      <3>1. i \in 1..i
        BY <1>1, <2>1
      <3>2. \A j \in 1..i : forwards[j] \notin RefusedPorts
        BY <1>3 DEF Insert, Done
      <3>3. QED
        BY <3>1, <3>2
    <2>3. QED
      BY <1>1, <1>3, <2>1, <2>2, RenderedIsPort
  <1>4. QED
    BY <1>2, <1>3

-----------------------------------------------------------------------------
FirewallInv == Saved /\ FilterInForce
NatInv == NatSaved /\ NatInForce

\* Both tables are empty and nothing runs.
LEMMA InitIInv == Init => IInv
  <1> SUFFICES ASSUME Init PROVE IInv
    OBVIOUS
  <1>1. Saved
    BY EmptyList DEF Init, Saved
  <1>2. NatSaved
    BY EmptyList DEF Init, NatSaved
  <1>3. FilterInForce /\ NatInForce
    BY DEF Init, FilterInForce, NatInForce
  <1>4. QED
    BY <1>1, <1>2, <1>3 DEF IInv

\* The flag of the firewall and its dump.
LEMMA FwFlagged ==
    ASSUME Saved, NEW r \in BOOLEAN, FwFlag(r)
    PROVE  /\ fwsaved' \in [rules : Lists(Rule), running : BOOLEAN]
           /\ fwrunning' = r /\ fwsaved'.running = r
           /\ fwsaved'.rules = fwsaved.rules
BY DEF Saved, FwFlag

\* A command of the firewall while nat is left alone.
LEMMA FirewallStep ==
    ASSUME FirewallInv,
           \/ FwEdit
           \/ \E restart \in BOOLEAN : FwStart(restart)
           \/ FwStop \/ FwReload \/ FwRollback
           \/ \E works \in BOOLEAN : FwCommit(works)
    PROVE  FirewallInv'
  <1> USE DEF FirewallInv
  <1>1. CASE FwEdit
    <2>1. Edited(rules, Rule) \subseteq Lists(Rule)
      BY EditedIsList DEF Saved
    <2>2. QED
      BY <1>1, <2>1 DEF FwEdit, Edit, Saved, FilterInForce, Up
  <1>2. ASSUME NEW restart \in BOOLEAN, FwStart(restart) PROVE FirewallInv'
    <2>1. CASE Succeeds(script)
      <3>1. FwFlag(TRUE) /\ filter' = Inserted(script) /\ script' = script
            /\ rules' = rules
        BY <1>2, <2>1 DEF FwStart, RunScript
      <3>2. QED
        BY <3>1, FwFlagged DEF Saved, FilterInForce
    <2>2. CASE ~Succeeds(script)
      <3>1. /\ fwlast' = "cut" /\ filter' = Inserted(script)
            /\ UNCHANGED <<rules, script, fwrunning, fwsaved>>
        BY <1>2, <2>2 DEF FwStart, RunScript
      <3>2. QED
        BY <3>1 DEF Saved, FilterInForce
    <2>3. QED
      BY <2>1, <2>2
  <1>3. CASE FwStop
    BY <1>3, FwFlagged DEF FwStop, Saved, FilterInForce
  <1>4. CASE FwReload
    BY <1>4 DEF FwReload, RunScript, Saved, FilterInForce
  <1>5. ASSUME NEW works \in BOOLEAN, FwCommit(works) PROVE FirewallInv'
    <2>1. Saved'
      BY <1>5 DEF FwCommit, Saved
    <2>2. FilterInForce'
      BY <1>5 DEF FwCommit, Command, Up, RunScript, Saved, FilterInForce
    <2>3. QED
      BY <2>1, <2>2
  <1>6. CASE FwRollback
    BY <1>6 DEF FwRollback, Command, Up, Saved, FilterInForce
  <1>7. QED
    BY <1>1, <1>2, <1>3, <1>4, <1>5, <1>6

\* The flag of nat and its dump.
LEMMA NatFlagged ==
    ASSUME NatSaved, NEW r \in BOOLEAN, NatFlag(r)
    PROVE  /\ natsaved' \in [forwards : Lists(Port), snats : Lists(Snat),
                             masqs : Lists(Masq), running : BOOLEAN]
           /\ natrunning' = r /\ natsaved'.running = r
BY DEF NatSaved, NatFlag

\* A change of one of the lists of nat.
LEMMA NatEdits ==
    ASSUME NatInv, NatEdit \/ \E i \in 1..MaxRules, f \in Forward : NatUpdate(i, f)
    PROVE  NatInv'
  <1> USE DEF NatInv
  <1>1. CASE NatEdit
    <2>1. Edited(forwards, {p \in Port : p.ports = 0}) \subseteq Lists(Port)
      BY EditedIsList DEF NatSaved
    <2>2. Edited(snats, Snat) \subseteq Lists(Snat)
          /\ Edited(masqs, Masq) \subseteq Lists(Masq)
      BY EditedIsList DEF NatSaved
    <2>3. forwards' \in Lists(Port) /\ snats' \in Lists(Snat)
          /\ masqs' \in Lists(Masq)
      BY <1>1, <2>1, <2>2 DEF NatEdit, NatSaved
    <2>4. QED
      BY <1>1, <2>3 DEF NatEdit, NatSaved, NatInForce
  <1>2. ASSUME NEW i \in 1..MaxRules, NEW f \in Forward, NatUpdate(i, f)
        PROVE  NatInv'
    <2>1. Len(forwards) \in 0..MaxRules /\ DOMAIN forwards = 1..Len(forwards)
          /\ \A j \in DOMAIN forwards : forwards[j] \in Port
      BY ListItems DEF NatSaved
    <2>2. i \in DOMAIN forwards
      BY <1>2 DEF NatUpdate
    <2>3. [forwards[i] EXCEPT !.forward = f, !.hasport = TRUE] \in Port
      BY <2>1, <2>2 DEF Port
    <2>4. forwards' = [forwards EXCEPT ![i] = [forwards[i] EXCEPT !.forward = f,
                                                               !.hasport = TRUE]]
      BY <1>2, <2>2 DEF NatUpdate
    <2>5. forwards' \in [1..Len(forwards) -> Port]
      BY <2>1, <2>3, <2>4
    <2>6. forwards' \in Lists(Port)
      BY <2>1, <2>5, ListIntro
    <2>7. QED
      BY <1>2, <2>6 DEF NatUpdate, NatSaved, NatInForce
  <1>3. QED
    BY <1>1, <1>2

\* A start of nat, in a command.
LEMMA NatStarts ==
    ASSUME NatInv, NEW restart \in BOOLEAN, NatStart(restart)
    PROVE  NatInv'
  <1> USE DEF NatInv
  <1>1. /\ forwards' \in Lists(Port)
        /\ \A i \in DOMAIN pre' : pre'[i].hasport => pre'[i].ports = 1
        /\ UNCHANGED <<snats, masqs>>
    BY RenderingIsSafe DEF NatStart, Render, NatSaved
  <1>2. CASE NatSucceeds
    BY <1>1, <1>2, NatFlagged DEF NatStart, NatSaved, NatInForce
  <1>3. CASE ~NatSucceeds
    <2>1. natcut' /\ UNCHANGED <<natrunning, natsaved>>
      BY <1>3 DEF NatStart, Render, Insert
    <2>2. QED
      BY <1>1, <2>1 DEF NatSaved, NatInForce
  <1>4. QED
    BY <1>2, <1>3

\* A command of nat while the firewall is left alone.
LEMMA NatStep ==
    ASSUME NatInv,
           \/ NatEdit
           \/ \E i \in 1..MaxRules, f \in Forward : NatUpdate(i, f)
           \/ \E restart \in BOOLEAN : NatStart(restart)
           \/ NatStop \/ NatReload \/ NatRollback
           \/ \E works \in BOOLEAN : NatCommit(works)
    PROVE  NatInv'
  <1>1. CASE NatEdit \/ \E i \in 1..MaxRules, f \in Forward : NatUpdate(i, f)
    BY <1>1, NatEdits
  <1>2. CASE NatReload \/ \E restart \in BOOLEAN : NatStart(restart)
    BY <1>2, NatStarts DEF NatReload
  <1>3. CASE NatStop
    <2>1. natsaved' \in [forwards : Lists(Port), snats : Lists(Snat),
                         masqs : Lists(Masq), running : BOOLEAN]
          /\ natrunning' = FALSE /\ natsaved'.running = FALSE
      BY <1>3, NatFlagged DEF NatInv, NatStop
    <2>2. UNCHANGED <<forwards, snats, masqs>> /\ pre' = <<>> /\ post' = <<>>
      BY <1>3 DEF NatStop, natlists
    <2>3. NatSaved'
      BY <2>1, <2>2 DEF NatInv, NatSaved
    <2>4. DOMAIN pre' = {}
      BY <2>2
    <2>5. QED
      BY <2>1, <2>2, <2>3, <2>4 DEF NatInv, NatInForce
  <1>4. ASSUME NEW works \in BOOLEAN, NatCommit(works) PROVE NatInv'
    <2>1. natsaved' \in [forwards : Lists(Port), snats : Lists(Snat),
                         masqs : Lists(Masq), running : BOOLEAN]
          /\ natsaved'.running = natrunning
      BY <1>4 DEF NatInv, NatCommit, NatDump, NatSaved
    <2>2. CASE natrunning /\ works
      <3>1. /\ forwards' \in Lists(Port)
            /\ \A i \in DOMAIN pre' : pre'[i].hasport => pre'[i].ports = 1
            /\ UNCHANGED <<snats, masqs, natrunning>>
        BY <1>4, <2>2, RenderingIsSafe DEF NatInv, NatCommit, Render, NatSaved
      <3>2. QED
        BY <2>1, <2>2, <3>1 DEF NatInv, NatSaved, NatInForce
    <2>3. CASE ~(natrunning /\ works)
      BY <1>4, <2>1, <2>3 DEF NatInv, NatCommit, natlists, NatSaved, NatInForce
    <2>4. QED
      BY <2>2, <2>3
  <1>5. CASE NatRollback
    BY <1>5 DEF NatInv, NatRollback, NatSaved, NatInForce
  <1>6. QED
    BY <1>1, <1>2, <1>3, <1>4, <1>5

\* The end of a daemon: its memory becomes what it saved.
LEMMA EndsKeeps ==
    ASSUME IInv, NEW reboot \in BOOLEAN, Ends(reboot)
    PROVE  IInv'
  <1>1. Saved'
    BY DEF IInv, Ends, Saved
  <1>2. NatSaved'
    BY DEF IInv, Ends, NatSaved
  <1>3. ~Up' /\ fwrunning' = fwrunning /\ natrunning' = natrunning
    BY DEF IInv, Ends, Up, Saved, NatSaved
  <1>4. FilterInForce' /\ NatInForce'
    <2>1. CASE reboot
      BY <1>3, <2>1 DEF Ends, FilterInForce, NatInForce
    <2>2. CASE ~reboot
      BY <1>3, <2>2 DEF IInv, Ends, FilterInForce, NatInForce
    <2>3. QED
      BY <2>1, <2>2
  <1>5. QED
    BY <1>1, <1>2, <1>4 DEF IInv

\* The start of a daemon: it is up when both constructors have run, without an
\* error.
LEMMA BeginsKeeps ==
    ASSUME IInv, NEW fw \in BOOLEAN, NEW ns \in BOOLEAN,
           NEW works \in BOOLEAN, Begins(fw, ns, works)
    PROVE  IInv'
  <1>1. Saved'
    BY DEF IInv, Begins, Saved
  <1>2. forwards' \in Lists(Port)
    BY RenderingIsSafe DEF IInv, Begins, NatSaved
  <1>3. NatSaved'
    BY <1>2 DEF IInv, Begins, NatSaved
  <1>4. Up' => fw
    BY DEF Begins, Up
  <1>5. FilterInForce'
    <2>1. CASE fw /\ fwrunning
      BY <2>1 DEF Begins, RunScript, FilterInForce
    <2>2. CASE ~(fw /\ fwrunning)
      BY <1>4, <2>2 DEF IInv, Begins, FilterInForce
    <2>3. QED
      BY <2>1, <2>2
  <1>6. NatInForce'
    <2>1. CASE ns /\ natrunning /\ works
      <3>1. \A i \in DOMAIN pre' : pre'[i].hasport => pre'[i].ports = 1
        BY <2>1, RenderingIsSafe DEF IInv, Begins, NatSaved
      <3>2. QED
        BY <2>1, <3>1 DEF Begins, NatInForce
    <2>2. CASE ~(ns /\ natrunning /\ works)
      BY <2>2 DEF IInv, Begins, NatInForce
    <2>3. QED
      BY <2>1, <2>2
  <1>7. QED
    BY <1>1, <1>3, <1>5, <1>6 DEF IInv

\* A step of one of the two services leaves the other, and the daemon, alone.
LEMMA Frames ==
    /\ FirewallInv /\ UNCHANGED <<firewall, daemon>> => FirewallInv'
    /\ NatInv /\ UNCHANGED nat => NatInv'
  <1>1. ASSUME FirewallInv, UNCHANGED <<firewall, daemon>> PROVE FirewallInv'
    BY <1>1 DEF FirewallInv, Saved, FilterInForce, firewall, Up
  <1>2. ASSUME NatInv, UNCHANGED nat PROVE NatInv'
    BY <1>2 DEF NatInv, NatSaved, NatInForce, nat, natlists
  <1>3. QED
    BY <1>1, <1>2

\* Every step keeps the invariant.
LEMMA NextIInv == IInv /\ [Next]_vars => IInv'
  <1> SUFFICES ASSUME IInv, [Next]_vars PROVE IInv'
    OBVIOUS
  <1>1. FirewallInv /\ NatInv
    BY DEF IInv, FirewallInv, NatInv
  <1>2. CASE \/ FwEdit
             \/ \E restart \in BOOLEAN : FwStart(restart)
             \/ FwStop \/ FwReload \/ FwRollback
             \/ \E works \in BOOLEAN : FwCommit(works)
    <2>1. UNCHANGED nat
      BY <1>2 DEF FwEdit, FwStart, FwStop, FwReload, FwCommit, FwRollback
    <2>2. QED
      BY <1>1, <1>2, <2>1, FirewallStep, Frames DEF IInv, FirewallInv, NatInv
  <1>3. CASE \/ NatEdit
             \/ \E i \in 1..MaxRules, f \in Forward : NatUpdate(i, f)
             \/ \E restart \in BOOLEAN : NatStart(restart)
             \/ NatStop \/ NatReload \/ NatRollback
             \/ \E works \in BOOLEAN : NatCommit(works)
    <2>1. UNCHANGED <<firewall, daemon>>
      BY <1>3 DEF NatEdit, NatUpdate, NatStart, NatStop, NatReload, NatCommit,
                  NatRollback, Edit, Command
    <2>2. QED
      BY <1>1, <1>3, <2>1, NatStep, Frames DEF IInv, FirewallInv, NatInv
  <1>4. CASE \E reboot \in BOOLEAN : Ends(reboot)
    BY <1>4, EndsKeeps
  <1>5. CASE \E fw, ns, works \in BOOLEAN : Begins(fw, ns, works)
    BY <1>5, BeginsKeeps
  <1>6. CASE UNCHANGED vars
    BY <1>1, <1>6, Frames DEF vars, IInv, FirewallInv, NatInv
  <1>7. QED
    BY <1>2, <1>3, <1>4, <1>5, <1>6 DEF Next

-----------------------------------------------------------------------------
\* Memory, pickle files and script agree after every command, however the start
\* of a service ended.
THEOREM Inductive == Spec => []IInv
  <1>1. QED
    BY InitIInv, NextIInv, PTL DEF Spec

\* The tables follow the flags, for any chains, rules and lists, through failed
\* starts, rollbacks and new daemons (TablesFollowFlags of Filters).
THEOREM TablesAlwaysFollow == Spec => []TablesFollowFlags
  <1>1. IInv => TablesFollowFlags
    BY DEF IInv, Saved, NatSaved, FilterInForce, NatInForce, TablesFollowFlags
  <1>2. QED
    BY <1>1, Inductive, PTL

-----------------------------------------------------------------------------
\* The order of the numbers has no endless descent (WellFoundedInduction).
LEMMA NatOrder == IsWellFoundedOn({ss \in Nat \X Nat : ss[1] < ss[2]}, Nat)
BY NatLessThanWellFounded DEF OpToRel

\* A set of numbers has a least one.
LEMMA Least ==
    ASSUME NEW S \in SUBSET Nat, S # {}
    PROVE  \E n \in S : \A m \in S : n <= m
  <1> DEFINE R == {ss \in Nat \X Nat : ss[1] < ss[2]}
  <1>1. PICK n \in S : \A m \in S : <<m, n>> \notin R
    <2> HIDE DEF R
    <2>1. IsWellFoundedOn(R, Nat)
      BY NatOrder DEF R
    <2>2. QED
      BY <2>1, WFMin
  <1>2. ASSUME NEW m \in S PROVE n <= m
    <2>1. <<m, n>> \in Nat \X Nat /\ <<m, n>>[1] = m /\ <<m, n>>[2] = n
      OBVIOUS
    <2>2. <<m, n>> \notin R
      BY <1>1
    <2>3. ~(m < n)
      BY <2>1, <2>2
    <2>4. QED
      BY <2>3
  <1>3. QED
    BY <1>2

\* Induction, for a set: whatever has zero, and the next of each, has them all.
LEMMA Induction ==
    ASSUME NEW S, 0 \in S, \A n \in Nat : n \in S => n + 1 \in S
    PROVE  Nat \subseteq S
  <1> SUFFICES ASSUME Nat \ S # {} PROVE FALSE
    OBVIOUS
  <1>1. PICK n \in Nat \ S : \A m \in Nat \ S : n <= m
    BY Least
  <1>2. n # 0 /\ n - 1 \in Nat /\ n - 1 \in S
    BY <1>1
  <1>3. QED
    BY <1>2

\* A function that is defined along the numbers from 0 to n is there.
LEMMA Recursion ==
    ASSUME NEW n \in Nat, NEW T, NEW c \in T,
           NEW D, D \in [1..n -> [T -> T]]
    PROVE  \E f : f[0] = c /\ \A i \in 1..n : f[i - 1] \in T /\ f[i] = D[i][f[i - 1]]
  <1> DEFINE Along(k, f) == f[0] = c /\ \A i \in 1..k : f[i] = D[i][f[i - 1]]
             S == {k \in Nat : k <= n => \E f \in [0..k -> T] : Along(k, f)}
  <1>1. 0 \in S
    <2>1. [i \in 0..0 |-> c] \in [0..0 -> T] /\ Along(0, [i \in 0..0 |-> c])
      OBVIOUS
    <2>2. QED
      BY <2>1
  <1>2. ASSUME NEW k \in Nat, k \in S PROVE k + 1 \in S
    <2> SUFFICES ASSUME k + 1 <= n PROVE \E f \in [0..(k + 1) -> T] : Along(k + 1, f)
      OBVIOUS
    <2>1. PICK g \in [0..k -> T] : Along(k, g)
      BY <1>2
    <2> DEFINE f == [i \in 0..(k + 1) |-> IF i <= k THEN g[i] ELSE D[k + 1][g[k]]]
    <2>2. D[k + 1][g[k]] \in T
      BY <2>1
    <2>3. f \in [0..(k + 1) -> T]
      BY <2>1, <2>2
    <2>4. ASSUME NEW i \in 1..(k + 1) PROVE f[i] = D[i][f[i - 1]]
      <3>1. CASE i <= k
        BY <3>1, <2>1
      <3>2. CASE i = k + 1
        BY <3>2, <2>1
      <3>3. QED
        BY <3>1, <3>2
    <2>5. f[0] = c
      BY <2>1
    <2>6. QED
      BY <2>3, <2>4, <2>5
  <1>3. n \in S
    <2> HIDE DEF S
    <2>1. QED
      BY <1>1, <1>2, Induction
  <1>4. PICK f \in [0..n -> T] : Along(n, f)
    BY <1>3
  <1>5. \A i \in 1..n : f[i - 1] \in T
    BY <1>4
  <1>6. QED
    BY <1>4, <1>5

-----------------------------------------------------------------------------
\* A rule goes to its own chain, and makes it longer by one at most.
Tables == [Chain -> Seq(Rule)]
InPlace(t, n) == \A c \in Chain : /\ Len(t[c]) <= n
                                  /\ \A i \in DOMAIN t[c] : t[c][i].chain = c

\* Wherever the insertion of a rule is refused, the table is as it was.
LEMMA InsertRuleType ==
    ASSUME NEW t \in Tables, NEW n \in Nat \ {0}, NEW r \in Rule
    PROVE  /\ InsertRule(t, n, r) \in Tables
           /\ InPlace(t, n - 1) => InPlace(InsertRule(t, n, r), n)
  <1> DEFINE u == InsertRule(t, n, r)
             c == r.chain
             more == Append(t[c], r)
  <1>1. c \in Chain
    BY DEF Rule
  <1>2. t[c] \in Seq(Rule)
    BY <1>1 DEF Tables
  <1>3. /\ more \in Seq(Rule) /\ Len(more) = Len(t[c]) + 1
        /\ \A i \in 1..Len(t[c]) : more[i] = t[c][i]
        /\ more[Len(t[c]) + 1] = r
    BY <1>2, AppendProperties
  <1>4. u = t \/ u = [t EXCEPT ![c] = more]
    BY DEF InsertRule
  <1>5. u \in Tables
    BY <1>1, <1>3, <1>4 DEF Tables
  <1>6. ASSUME InPlace(t, n - 1), NEW d \in Chain
        PROVE  Len(u[d]) <= n /\ \A i \in DOMAIN u[d] : u[d][i].chain = d
    <2>1. t[d] \in Seq(Rule) /\ Len(t[d]) \in Nat /\ Len(t[d]) <= n - 1
          /\ \A i \in DOMAIN t[d] : t[d][i].chain = d
      BY <1>6, LenProperties DEF Tables, InPlace
    <2>2. CASE u[d] = t[d]
      BY <2>1, <2>2
    <2>3. CASE d = c /\ u[d] = more
      <3>1. Len(more) <= n
        BY <1>3, <2>1, <2>3
      <3>2. DOMAIN more = 1..(Len(t[c]) + 1) /\ DOMAIN t[c] = 1..Len(t[c])
            /\ Len(t[c]) \in Nat
        BY <1>2, <1>3, LenProperties
      <3>3. \A i \in DOMAIN more : more[i].chain = c
        BY <1>3, <2>1, <2>3, <3>2
      <3>4. QED
        BY <2>3, <3>1, <3>3
    <2>4. QED
      BY <1>1, <1>4, <2>2, <2>3 DEF Tables
  <1>7. QED
    BY <1>5, <1>6 DEF InPlace

\* The tables that the script goes through, one for each of its rules.
LEMMA TablesOfScript ==
    ASSUME NEW s, Len(s) \in Nat, \A n \in 1..Len(s) : s[n] \in Rule
    PROVE  \E table : /\ Inserted(s) = table[Len(s)]
                      /\ \A n \in 0..Len(s) :
                            table[n] = IF n = 0 THEN NoRules
                                       ELSE InsertRule(table[n - 1], n, s[n])
  <1> DEFINE Is(t) == t = [n \in 0..Len(s) |->
                           IF n = 0 THEN NoRules ELSE InsertRule(t[n - 1], n, s[n])]
             D == [n \in 1..Len(s) |-> [t \in Tables |-> InsertRule(t, n, s[n])]]
  <1>1. NoRules \in Tables
    <2>1. <<>> \in Seq(Rule)
      BY EmptySeq
    <2>2. QED
      BY <2>1 DEF NoRules, Tables
  <1>2. D \in [1..Len(s) -> [Tables -> Tables]]
    BY InsertRuleType
  <1>3. PICK g : /\ g[0] = NoRules
                 /\ \A n \in 1..Len(s) : g[n - 1] \in Tables /\ g[n] = D[n][g[n - 1]]
    <2> HIDE DEF D
    <2>1. QED
      BY <1>1, <1>2, Recursion
  <1>4. \A n \in 1..Len(s) : g[n] = InsertRule(g[n - 1], n, s[n])
    BY <1>3
  <1> DEFINE f == [n \in 0..Len(s) |-> g[n]]
  <1>5. Is(f)
    BY <1>3, <1>4
  <1>6. PICK table : Is(table) /\ Inserted(s) = table[Len(s)]
    <2> DEFINE t == CHOOSE t : Is(t)
    <2>1. Is(t)
      BY <1>5
    <2>2. Inserted(s) = t[Len(s)]
      BY DEF Inserted
    <2>3. QED
      BY <2>1, <2>2
  <1>7. QED
    BY <1>6

\* Whatever the list, its rules are in the chains that they name.
LEMMA InsertedType ==
    ASSUME NEW s \in Seq(Rule)
    PROVE  Inserted(s) \in Tables /\ InPlace(Inserted(s), Len(s))
  <1>1. Len(s) \in Nat /\ \A n \in 1..Len(s) : s[n] \in Rule
    BY LenProperties, ElementOfSeq
  <1>2. NoRules \in Tables /\ InPlace(NoRules, 0)
    <2>1. <<>> \in Seq(Rule) /\ Len(<<>>) = 0 /\ DOMAIN <<>> = {}
      BY EmptySeq
    <2>2. QED
      BY <2>1 DEF NoRules, Tables, InPlace
  <1>3. PICK table : /\ Inserted(s) = table[Len(s)]
                     /\ \A n \in 0..Len(s) :
                            table[n] = IF n = 0 THEN NoRules
                                       ELSE InsertRule(table[n - 1], n, s[n])
    BY <1>1, TablesOfScript
  <1> DEFINE Good == {n \in Nat : n <= Len(s) => /\ table[n] \in Tables
                                                 /\ InPlace(table[n], n)}
  <1>4. 0 \in Good
    BY <1>1, <1>2, <1>3
  <1>5. ASSUME NEW n \in Nat, n \in Good PROVE n + 1 \in Good
    <2> SUFFICES ASSUME n + 1 <= Len(s)
                 PROVE  table[n + 1] \in Tables /\ InPlace(table[n + 1], n + 1)
      OBVIOUS
    <2>1. n + 1 \in 1..Len(s) /\ (n + 1) - 1 = n /\ n + 1 \in Nat \ {0}
      BY <1>1
    <2>2. table[n + 1] = InsertRule(table[n], n + 1, s[n + 1])
      BY <1>3, <2>1
    <2>3. table[n] \in Tables /\ InPlace(table[n], n)
      BY <1>5, <2>1
    <2>4. QED
      BY <1>1, <2>1, <2>2, <2>3, InsertRuleType
  <1>6. Len(s) \in Good
    <2> HIDE DEF Good
    <2>1. QED
      BY <1>1, <1>4, <1>5, Induction
  <1>7. QED
    BY <1>1, <1>3, <1>6

\* The rules of one chain are all inserted, one behind the other, if all are fit.
OneChain(s, c) == \A i \in DOMAIN s : s[i].chain = c /\ s[i].target \notin Unfit
FirstOf(s, c, n) == [NoRules EXCEPT ![c] = [i \in 1..n |-> s[i]]]

\* The next rule of such a list goes behind the ones before it.
LEMMA RuleFollows ==
    ASSUME NEW s \in Seq(Rule), NEW c \in Chain, OneChain(s, c), NEW n \in 1..Len(s)
    PROVE  InsertRule(FirstOf(s, c, n - 1), n, s[n]) = FirstOf(s, c, n)
  <1> DEFINE t == FirstOf(s, c, n - 1)
  <1>1. s[n] \in Rule /\ s[n].chain = c /\ s[n].target \notin Unfit /\ n \in DOMAIN s
    BY LenProperties, ElementOfSeq DEF OneChain
  <1>2. t[c] = [i \in 1..(n - 1) |-> s[i]]
    BY DEF FirstOf, NoRules
  <1>3. t[c] \in Seq(Rule) /\ Len(t[c]) = n - 1
    <2>1. n - 1 \in Nat /\ \A i \in 1..(n - 1) : s[i] \in Rule
      BY ElementOfSeq
    <2>2. t[c] \in [1..(n - 1) -> Rule]
      BY <1>2, <2>1
    <2>3. t[c] \in Seq(Rule)
      BY <2>1, <2>2
    <2>4. QED
      BY <2>1, <2>2, <2>3
  <1>4. Append(t[c], s[n]) = [i \in 1..n |-> s[i]]
    <2>1. Append(t[c], s[n]) \in Seq(Rule) /\ Len(Append(t[c], s[n])) = n
      BY <1>1, <1>3, AppendProperties
    <2>2. Append(t[c], s[n]) \in [1..n -> Rule]
      BY <2>1, LenProperties
    <2>3. \A i \in 1..n : Append(t[c], s[n])[i] = s[i]
      BY <1>1, <1>2, <1>3, AppendProperties
    <2>4. QED
      BY <2>2, <2>3
  <1>5. InsertRule(t, n, s[n]) = [t EXCEPT ![c] = Append(t[c], s[n])]
    BY <1>1, <1>3 DEF InsertRule
  <1>6. QED
    BY <1>4, <1>5 DEF FirstOf, NoRules

\* Of a list for one chain, and fit for it, all the rules are in that chain, in their order.
LEMMA OneChainInserted ==
    ASSUME NEW s \in Seq(Rule), NEW c \in Chain, OneChain(s, c)
    PROVE  Inserted(s) = FirstOf(s, c, Len(s))
  <1>1. Len(s) \in Nat /\ \A n \in 1..Len(s) : s[n] \in Rule
    BY LenProperties, ElementOfSeq
  <1>2. FirstOf(s, c, 0) = NoRules
    BY DEF FirstOf, NoRules
  <1>3. PICK table : /\ Inserted(s) = table[Len(s)]
                     /\ \A n \in 0..Len(s) :
                            table[n] = IF n = 0 THEN NoRules
                                       ELSE InsertRule(table[n - 1], n, s[n])
    BY <1>1, TablesOfScript
  <1> DEFINE Same == {n \in Nat : n <= Len(s) => table[n] = FirstOf(s, c, n)}
  <1>4. 0 \in Same
    BY <1>1, <1>2, <1>3
  <1>5. ASSUME NEW n \in Nat, n \in Same PROVE n + 1 \in Same
    <2> SUFFICES ASSUME n + 1 <= Len(s)
                 PROVE  table[n + 1] = FirstOf(s, c, n + 1)
      OBVIOUS
    <2>1. n + 1 \in 1..Len(s) /\ (n + 1) - 1 = n
      BY <1>1
    <2>2. table[n + 1] = InsertRule(table[n], n + 1, s[n + 1])
      BY <1>3, <2>1
    <2>3. table[n] = FirstOf(s, c, n)
      BY <1>5, <2>1
    <2>4. QED
      BY <2>1, <2>2, <2>3, RuleFollows
  <1>6. Len(s) \in Same
    <2> HIDE DEF Same
    <2>1. QED
      BY <1>1, <1>4, <1>5, Induction
  <1>7. QED
    BY <1>1, <1>3, <1>6

\* A script for one chain succeeds.
LEMMA OneChainSucceeds ==
    ASSUME NEW s \in Seq(Rule), NEW c \in Chain, OneChain(s, c)
    PROVE  Succeeds(s)
  <1> SUFFICES ASSUME s # <<>>
               PROVE  \E i \in DOMAIN Inserted(s)[s[Len(s)].chain] : i = Len(s)
    BY DEF Succeeds
  <1>1. Len(s) \in 1..Len(s) /\ s[Len(s)].chain = c
    <2>1. Len(s) \in Nat \ {0} /\ DOMAIN s = 1..Len(s)
      BY EmptySeq, LenProperties
    <2>2. QED
      BY <2>1 DEF OneChain
  <1>2. Inserted(s)[c] = [i \in 1..Len(s) |-> s[i]]
    BY OneChainInserted DEF FirstOf, NoRules
  <1>3. QED
    BY <1>1, <1>2

\* Rules that are not of several chains are of one, if there are any.
LEMMA FewChains ==
    ASSUME NEW s \in Seq(Rule),
           \A i \in DOMAIN s : s[i].target \notin Unfit,
           ~(Cardinality({s[i].chain : i \in DOMAIN s}) > 1)
    PROVE  s = <<>> \/ \E c \in Chain : OneChain(s, c)
  <1> DEFINE chains == {s[i].chain : i \in DOMAIN s}
             f == [i \in DOMAIN s |-> s[i].chain]
  <1>1. DOMAIN s = 1..Len(s) /\ Len(s) \in Nat /\ \A i \in DOMAIN s : s[i] \in Rule
    BY LenProperties, ElementOfSeq
  <1>2. IsFiniteSet(chains)
    <2>1. f \in Surjection(DOMAIN s, chains)
      BY Fun_IsSurj
    <2>2. IsFiniteSet(DOMAIN s)
      BY <1>1, FS_Interval
    <2>3. QED
      BY <2>1, <2>2, FS_Surjection
  <1>3. Cardinality(chains) \in {0, 1}
    <2>1. Cardinality(chains) \in Nat
      BY <1>2, FS_CardinalityType
    <2>2. ~(Cardinality(chains) > 1)
      OBVIOUS
    <2>3. QED
      BY <2>1, <2>2
  <1>4. CASE Cardinality(chains) = 0
    <2>1. chains = {}
      BY <1>2, <1>4, FS_EmptySet
    <2>2. DOMAIN s = {}
      BY <2>1
    <2>3. QED
      BY <1>1, <2>2, EmptySeq
  <1>5. CASE Cardinality(chains) = 1
    <2>1. PICK c : chains = {c}
      BY <1>2, <1>5, FS_Singleton
    <2>2. \A i \in DOMAIN s : s[i].chain = c
      BY <2>1
    <2>3. c \in Chain
      BY <1>1, <2>1 DEF Rule
    <2>4. QED
      BY <2>2, <2>3 DEF OneChain
  <1>6. QED
    BY <1>3, <1>4, <1>5

-----------------------------------------------------------------------------
\* What is in memory while there is no daemon is what will be restored.
Restored == ~Up => /\ forwards = natsaved.forwards
                   /\ snats = natsaved.snats /\ masqs = natsaved.masqs
ComeBack == Restored /\ DaemonComesBack

\* What a start fails over: in the rules of the firewall, and in the lists of nat.
TwoChains == Cardinality({fwsaved.rules[i].chain : i \in DOMAIN fwsaved.rules}) > 1
UnfitRule == \E i \in DOMAIN fwsaved.rules : fwsaved.rules[i].target \in Unfit
UnfitNat == \/ \E i \in DOMAIN natsaved.forwards :
                  LET p == natsaved.forwards[i] IN p.ports > 0 \/ p.forward \in Unfit
            \/ \E i \in DOMAIN natsaved.snats : natsaved.snats[i] \in Unfit
            \/ \E i \in DOMAIN natsaved.masqs : natsaved.masqs[i] \in Unfit

\* Whatever is not inserted to its end has something that is refused.
LEMMA RefusedInList ==
    ASSUME NEW S, NEW list \in Lists(S), NEW refused, Done(list, refused) # DOMAIN list
    PROVE  \E i \in DOMAIN list : list[i] \in refused
  <1>1. DOMAIN list = 1..Len(list) /\ Len(list) \in 0..MaxRules
    BY ListItems
  <1>2. PICK i \in DOMAIN list : i \notin Done(list, refused)
    BY DEF Done
  <1>3. PICK j \in 1..i : list[j] \in refused
    BY <1>2 DEF Done
  <1>4. QED
    BY <1>1, <1>3

\* nat fails for something that its lists have.
LEMMA NatFailsForAReason ==
    ASSUME NatSaved, ~NatSucceeds
    PROVE  \/ \E i \in DOMAIN forwards : forwards[i].ports > 0
                                         \/ forwards[i].forward \in Unfit
           \/ \E i \in DOMAIN snats : snats[i] \in Unfit
           \/ \E i \in DOMAIN masqs : masqs[i] \in Unfit
  <1>1. /\ forwards \in Lists(Port) /\ snats \in Lists(Snat) /\ masqs \in Lists(Masq)
    BY DEF NatSaved
  <1>2. CASE ~PortsIn
    <2>1. PICK i \in DOMAIN forwards : forwards[i] \in RefusedPorts
      BY <1>1, <1>2, RefusedInList DEF PortsIn
    <2>2. forwards[i].ports > 0 \/ forwards[i].forward \in Unfit
      BY <2>1 DEF RefusedPorts, Rendered, Port
    <2>3. QED
      BY <2>1, <2>2
  <1>3. CASE PortsIn /\ ~SnatsIn
    <2>1. Done(snats, Unfit) # DOMAIN snats
      BY <1>3 DEF SnatsIn
    <2>2. QED
      BY <1>1, <2>1, RefusedInList
  <1>4. CASE SnatsIn
    <2>1. Done(masqs, Unfit) # DOMAIN masqs
      BY <1>4 DEF NatSucceeds
    <2>2. QED
      BY <1>1, <2>1, RefusedInList
  <1>5. QED
    BY <1>2, <1>3, <1>4

\* The constructors of a new daemon fail only over a list of two chains, over
\* something that iptables refuses, or over a forward that has a port.
LEMMA BootFailsForAReason ==
    ASSUME IInv, Restored, NEW fw \in BOOLEAN, NEW ns \in BOOLEAN,
           NEW works \in BOOLEAN, Begins(fw, ns, works)
    PROVE  ComeBack'
  <1>1. fwsaved.rules \in Seq(Rule) /\ script = fwsaved.rules
        /\ fwsaved.running = fwrunning /\ natsaved.running = natrunning
    BY ListItems DEF IInv, Saved, NatSaved
  <1>2. /\ natsaved.forwards = forwards
        /\ natsaved.snats = snats /\ natsaved.masqs = masqs
    BY DEF Begins, Restored
  <1>3. UNCHANGED <<fwsaved, natsaved, snats, masqs>>
    BY DEF Begins
  <1>4. Restored'
    <2>1. ~Up' => forwards' = forwards
      BY DEF Begins, Up
    <2>2. QED
      BY <1>2, <1>3, <2>1 DEF Restored
  <1>5. ASSUME daemon' = "failed"
        PROVE  (fwsaved.running /\ (TwoChains \/ UnfitRule))
               \/ (natsaved.running /\ UnfitNat)
    <2>1. (fwrunning /\ ~Succeeds(script)) \/ (natrunning /\ ~NatSucceeds)
      BY <1>5 DEF Begins
    <2>2. ASSUME ~Succeeds(script) PROVE TwoChains \/ UnfitRule
      <3>1. script # <<>>
        BY <2>2 DEF Succeeds
      <3>2. QED
        BY <1>1, <2>2, <3>1, FewChains, OneChainSucceeds DEF TwoChains, UnfitRule
    <2>3. ~NatSucceeds => UnfitNat
      BY <1>2, NatFailsForAReason DEF IInv, UnfitNat
    <2>4. QED
      BY <1>1, <2>1, <2>2, <2>3
  <1>6. DaemonComesBack'
    BY <1>3, <1>5 DEF DaemonComesBack, TwoChains, UnfitRule, UnfitNat
  <1>7. QED
    BY <1>4, <1>6 DEF ComeBack

\* Every step keeps that.
LEMMA ComeBackKept == IInv /\ ComeBack /\ [Next]_vars => ComeBack'
  <1> SUFFICES ASSUME IInv, ComeBack, [Next]_vars PROVE ComeBack'
    OBVIOUS
  <1>1. CASE \E fw, ns, works \in BOOLEAN : Begins(fw, ns, works)
    BY <1>1, BootFailsForAReason DEF ComeBack
  <1>2. CASE \E reboot \in BOOLEAN : Ends(reboot)
    BY <1>2 DEF Ends, Up, ComeBack, Restored, DaemonComesBack
  <1>3. CASE UNCHANGED vars
    BY <1>3 DEF vars, nat, natlists, firewall, Up, ComeBack, Restored, DaemonComesBack
  <1>4. CASE Up /\ Up'
    BY <1>4 DEF Up, ComeBack, Restored, DaemonComesBack
  <1>5. CASE \/ FwEdit \/ NatEdit
             \/ \E i \in 1..MaxRules, f \in Forward : NatUpdate(i, f)
             \/ \E restart \in BOOLEAN : FwStart(restart) \/ NatStart(restart)
             \/ FwStop \/ FwReload \/ FwRollback
             \/ NatStop \/ NatReload \/ NatRollback
             \/ \E works \in BOOLEAN : FwCommit(works) \/ NatCommit(works)
    <2>1. Up /\ Up'
      BY <1>5 DEF FwEdit, FwStart, FwStop, FwReload, FwCommit, FwRollback, NatEdit,
                  NatUpdate, NatStart, NatStop, NatReload, NatCommit, NatRollback,
                  Edit, Command, Up
    <2>2. QED
      BY <1>4, <2>1
  <1>6. QED
    BY <1>1, <1>2, <1>3, <1>5 DEF Next

\* Once iptables works a daemon can be started again, with the services that were
\* running, for lists of any length and any chains: only rules of two chains, a
\* forward that was saved after it was rendered, or a rule, forward, snat or masq
\* that iptables refuses, in the files of a service that runs, stop it
\* (DaemonComesBack of Filters).
THEOREM DaemonAlwaysComesBack == Spec => []DaemonComesBack
  <1>1. Init => ComeBack
    BY DEF Init, ComeBack, Restored, DaemonComesBack, Up
  <1>2. ComeBack => DaemonComesBack
    BY DEF ComeBack
  <1>3. QED
    BY <1>1, <1>2, ComeBackKept, Inductive, PTL DEF Spec

-----------------------------------------------------------------------------
\* What the firewall and nat have of tables, flags and lists.
Typed == /\ script \in Lists(Rule)
         /\ filter \in Tables /\ InPlace(filter, MaxRules)
         /\ pre \in Lists(Port) /\ post \in Seq(Snat \cup Masq)
         /\ fwrunning \in BOOLEAN /\ natrunning \in BOOLEAN
         /\ fwlast \in {"done", "cut", "broken"} /\ natcut \in BOOLEAN
         /\ daemon \in {"up", "down", "failed", "broken"}
         /\ edits \in 0..MaxEdits

\* A script leaves a table, that is no longer than its list.
LEMMA ScriptTyped ==
    ASSUME NEW s \in Lists(Rule)
    PROVE  Inserted(s) \in Tables /\ InPlace(Inserted(s), MaxRules)
  <1>1. s \in Seq(Rule) /\ Len(s) \in 0..MaxRules /\ MaxRules \in Nat
    BY ListItems, FiltersAssumption
  <1>2. Inserted(s) \in Tables /\ InPlace(Inserted(s), Len(s))
    BY <1>1, InsertedType
  <1>3. ASSUME NEW c \in Chain PROVE Len(Inserted(s)[c]) <= MaxRules
    <2>1. Inserted(s)[c] \in Seq(Rule)
      BY <1>2 DEF Tables
    <2>2. Len(Inserted(s)[c]) \in Nat /\ Len(Inserted(s)[c]) <= Len(s)
      BY <1>2, <2>1, LenProperties DEF InPlace
    <2>3. QED
      BY <1>1, <2>2
  <1>4. QED
    BY <1>2, <1>3 DEF InPlace

\* A flushed table is one.
LEMMA FlushedTyped == NoRules \in Tables /\ InPlace(NoRules, MaxRules)
  <1>1. <<>> \in Seq(Rule) /\ Len(<<>>) = 0 /\ DOMAIN <<>> = {}
    BY EmptySeq
  <1>2. QED
    BY <1>1, FiltersAssumption DEF NoRules, Tables, InPlace

\* What is inserted up to the first error is an initial part of the list.
LEMMA DoneIsPrefix ==
    ASSUME NEW S, NEW list \in Lists(S), NEW refused
    PROVE  \E n \in 0..MaxRules : Done(list, refused) = 1..n
  <1> DEFINE Out == {k \in Nat : k \in DOMAIN list /\ list[k] \in refused}
  <1>1. Len(list) \in 0..MaxRules /\ DOMAIN list = 1..Len(list)
    BY ListItems
  <1>2. CASE Out = {}
    <2>1. Done(list, refused) = DOMAIN list
      BY <1>1, <1>2 DEF Done
    <2>2. QED
      BY <1>1, <2>1
  <1>3. CASE Out # {}
    <2>1. PICK k \in Out : \A m \in Out : k <= m
      <3> HIDE DEF Out
      <3>1. Out \in SUBSET Nat
        BY DEF Out
      <3>2. QED
        BY <1>3, <3>1, Least
    <2>2. k \in 1..Len(list) /\ list[k] \in refused
      BY <1>1, <2>1
    <2>3. ASSUME NEW i \in DOMAIN list PROVE i \in Done(list, refused) <=> i < k
      <3>1. CASE i < k
        <4>1. \A j \in 1..i : j \in Nat /\ j \in DOMAIN list /\ ~(k <= j)
          BY <1>1, <2>2, <3>1
        <4>2. \A j \in 1..i : list[j] \notin refused
          BY <2>1, <4>1
        <4>3. QED
          BY <3>1, <4>2 DEF Done
      <3>2. CASE ~(i < k)
        <4>1. k \in 1..i
          BY <1>1, <2>2, <3>2
        <4>2. QED
          BY <2>2, <3>2, <4>1 DEF Done
      <3>3. QED
        BY <3>1, <3>2
    <2>4. Done(list, refused) = 1..(k - 1)
      <3>1. Done(list, refused) \subseteq DOMAIN list
        BY DEF Done
      <3>2. \A i : i \in 1..(k - 1) <=> i \in 1..Len(list) /\ i < k
        BY <1>1, <2>2
      <3>3. QED
        BY <1>1, <2>3, <3>1, <3>2
    <2>5. k - 1 \in 0..MaxRules
      BY <1>1, <2>2, FiltersAssumption
    <2>6. QED
      BY <2>4, <2>5
  <1>4. QED
    BY <1>2, <1>3

\* What nat inserts of its lists, up to the first error.
LEMMA InsertTyped ==
    ASSUME NatSaved, Insert
    PROVE  pre' \in Lists(Port) /\ post' \in Seq(Snat \cup Masq) /\ natcut' \in BOOLEAN
  <1> DEFINE Both == Seq(Snat \cup Masq)
  <1>1. /\ forwards \in Lists(Port) /\ snats \in Lists(Snat) /\ masqs \in Lists(Masq)
        /\ \A i \in DOMAIN forwards : forwards[i] \in Port
    BY ListItems DEF NatSaved
  <1>2. PICK n \in 0..MaxRules : Done(forwards, RefusedPorts) = 1..n
    BY <1>1, DoneIsPrefix
  <1>3. \A i \in 1..n : Rendered(forwards[i]) \in Port
    BY <1>1, <1>2, RenderedIsPort DEF Done
  <1>4. pre' \in [1..n -> Port]
    BY <1>2, <1>3 DEF Insert
  <1>5. pre' \in Lists(Port)
    BY <1>2, <1>4, ListIntro
  <1>6. ASSUME NEW S \in SUBSET (Snat \cup Masq), NEW list \in Lists(S)
        PROVE  list \in Both /\ [i \in Done(list, Unfit) |-> list[i]] \in Both
    <2>1. list \in Seq(S) /\ \A i \in DOMAIN list : list[i] \in S
      BY ListItems
    <2>2. PICK m \in 0..MaxRules : Done(list, Unfit) = 1..m
      BY DoneIsPrefix
    <2>3. m \in Nat /\ \A i \in 1..m : list[i] \in S
      BY <2>1, <2>2, FiltersAssumption DEF Done
    <2>4. [i \in Done(list, Unfit) |-> list[i]] \in Seq(Snat \cup Masq)
      BY <2>2, <2>3
    <2>5. list \in Seq(Snat \cup Masq)
      BY <2>1
    <2>6. QED
      BY <2>4, <2>5
  <1>7. snats \in Both /\ SnatsDone \in Both /\ MasqsDone \in Both
    <2> HIDE DEF Both
    <2>1. QED
      BY <1>1, <1>6 DEF SnatsDone, MasqsDone
  <1>8. post' \in Both
    <2>1. MasqsDone \o snats \in Both
      BY <1>7, ConcatProperties
    <2>2. <<>> \in Both
      BY EmptySeq
    <2>3. QED
      BY <1>7, <2>1, <2>2 DEF Insert
  <1>9. natcut' \in BOOLEAN
    BY DEF Insert
  <1>10. QED
    BY <1>5, <1>8, <1>9

\* Every step keeps the types, as it keeps the invariant.
LEMMA NextTyped ==
    ASSUME IInv, Typed, [Next]_vars
    PROVE  Typed'
  <1> DEFINE FwTyped == /\ script \in Lists(Rule)
                        /\ filter \in Tables /\ InPlace(filter, MaxRules)
                        /\ fwlast \in {"done", "cut", "broken"}
             NatTyped == /\ pre \in Lists(Port) /\ post \in Seq(Snat \cup Masq)
                         /\ natcut \in BOOLEAN
             Counted == daemon \in {"up", "down", "failed", "broken"} /\ edits \in 0..MaxEdits
             FwFew == /\ fwlast' \in {"done", "cut", "broken"}
                      /\ script' \in {script, rules}
                      /\ filter' \in {filter, NoRules} \cup {Inserted(s) : s \in Lists(Rule)}
  <1>1. rules \in Lists(Rule) /\ script \in Lists(Rule) /\ NatSaved /\ FwTyped /\ NatTyped
    BY DEF IInv, Saved, Typed
  <1>2. fwrunning' \in BOOLEAN /\ natrunning' \in BOOLEAN
    BY NextIInv DEF IInv, Saved, NatSaved
  <1>3. ASSUME FwFew PROVE FwTyped'
    BY <1>1, <1>3, ScriptTyped, FlushedTyped
  <1>4. /\ Insert => NatTyped'
        /\ UNCHANGED <<pre, post, natcut>> => NatTyped'
        /\ pre' = <<>> /\ post' = <<>> /\ natcut' = FALSE => NatTyped'
    <2>1. <<>> \in Lists(Port) /\ <<>> \in Seq(Snat \cup Masq)
      BY EmptyList, EmptySeq
    <2>2. ASSUME Insert PROVE NatTyped'
      BY <1>1, <2>2, InsertTyped
    <2>3. ASSUME UNCHANGED <<pre, post, natcut>> PROVE NatTyped'
      BY <1>1, <2>3
    <2>4. ASSUME pre' = <<>>, post' = <<>>, natcut' = FALSE PROVE NatTyped'
      BY <2>1, <2>4
    <2>5. QED
      BY <2>2, <2>3, <2>4
  <1>5. ASSUME Edit \/ Command PROVE Counted'
    <2>1. edits \in 0..MaxEdits /\ daemon' = daemon
      BY <1>5 DEF Edit, Command, Typed
    <2>2. edits' \in 0..MaxEdits
      <3>1. CASE Edit
        <4>1. edits' = edits + 1 /\ edits < MaxEdits
          BY <3>1 DEF Edit
        <4>2. QED
          BY <2>1, <4>1, FiltersAssumption
      <3>2. CASE Command
        BY <2>1, <3>2 DEF Command
      <3>3. QED
        BY <1>5, <3>1, <3>2
    <2>3. QED
      BY <2>1, <2>2 DEF Typed
  <1>6. CASE \/ FwEdit
             \/ \E restart \in BOOLEAN : FwStart(restart)
             \/ FwStop \/ FwReload \/ FwRollback
             \/ \E works \in BOOLEAN : FwCommit(works)
    <2>1. UNCHANGED <<pre, post, natcut>>
      BY <1>6 DEF FwEdit, FwStart, FwStop, FwReload, FwCommit, FwRollback, nat
    <2>2. FwFew
      BY <1>1, <1>6 DEF FwEdit, FwStart, FwStop, FwReload, FwCommit, FwRollback, RunScript
    <2>3. Counted'
      BY <1>6, <1>5 DEF FwEdit, FwStart, FwStop, FwReload, FwCommit, FwRollback
    <2>4. QED
      BY <1>2, <1>3, <1>4, <2>1, <2>2, <2>3 DEF Typed
  <1>7. CASE \/ NatEdit
             \/ \E i \in 1..MaxRules, f \in Forward : NatUpdate(i, f)
             \/ \E restart \in BOOLEAN : NatStart(restart)
             \/ NatStop \/ NatReload \/ NatRollback
             \/ \E works \in BOOLEAN : NatCommit(works)
    <2>1. UNCHANGED <<script, filter, fwlast>>
      BY <1>7 DEF NatEdit, NatUpdate, NatStart, NatStop, NatReload, NatCommit,
                  NatRollback, firewall
    <2>2. NatTyped'
      <3>1. CASE NatEdit \/ NatRollback \/ \E i \in 1..MaxRules, f \in Forward : NatUpdate(i, f)
        <4>1. UNCHANGED <<pre, post, natcut>>
          BY <3>1 DEF NatEdit, NatUpdate, NatRollback
        <4>2. QED
          BY <1>4, <4>1
      <3>2. CASE NatReload \/ \E restart \in BOOLEAN : NatStart(restart)
        <4>1. Insert
          BY <3>2 DEF NatReload, NatStart, Render
        <4>2. QED
          BY <1>4, <4>1
      <3>3. CASE NatStop
        <4>1. pre' = <<>> /\ post' = <<>> /\ natcut' = FALSE
          BY <3>3 DEF NatStop
        <4>2. QED
          BY <1>4, <4>1
      <3>4. ASSUME NEW works \in BOOLEAN, NatCommit(works) PROVE NatTyped'
        <4>1. CASE natrunning /\ works
          <5>1. Insert
            BY <3>4, <4>1 DEF NatCommit, Render
          <5>2. QED
            BY <1>4, <5>1
        <4>2. CASE ~(natrunning /\ works)
          <5>1. UNCHANGED <<pre, post, natcut>>
            BY <3>4, <4>2 DEF NatCommit
          <5>2. QED
            BY <1>4, <5>1
        <4>3. QED
          BY <4>1, <4>2
      <3>5. QED
        BY <1>7, <3>1, <3>2, <3>3, <3>4
    <2>3. Counted'
      BY <1>7, <1>5 DEF NatEdit, NatUpdate, NatStart, NatStop, NatReload, NatCommit,
         NatRollback
    <2>4. FwTyped'
      BY <1>1, <2>1
    <2>5. QED
      BY <1>2, <2>2, <2>3, <2>4 DEF Typed
  <1>8. ASSUME NEW reboot \in BOOLEAN, Ends(reboot) PROVE Typed'
    <2>1. FwFew
      BY <1>1, <1>8 DEF Ends
    <2>2. Counted'
      BY <1>8 DEF Ends, Typed
    <2>3. NatTyped'
      <3>1. CASE reboot
        <4>1. pre' = <<>> /\ post' = <<>> /\ natcut' = FALSE
          BY <1>8, <3>1 DEF Ends
        <4>2. QED
          BY <1>4, <4>1
      <3>2. CASE ~reboot
        <4>1. UNCHANGED <<pre, post, natcut>>
          BY <1>8, <3>2 DEF Ends
        <4>2. QED
          BY <1>4, <4>1
      <3>3. QED
        BY <3>1, <3>2
    <2>4. QED
      BY <1>2, <1>3, <2>1, <2>2, <2>3 DEF Typed
  <1>9. ASSUME NEW fw \in BOOLEAN, NEW ns \in BOOLEAN,
               NEW works \in BOOLEAN, Begins(fw, ns, works)
        PROVE  Typed'
    <2>1. FwFew
      BY <1>1, <1>9 DEF Begins, RunScript
    <2>2. Counted'
      BY <1>9 DEF Begins, Typed
    <2>3. NatTyped'
      <3>1. CASE ns /\ natrunning /\ works
        <4>1. Insert
          BY <1>9, <3>1 DEF Begins
        <4>2. QED
          BY <1>4, <4>1
      <3>2. CASE ~(ns /\ natrunning /\ works)
        <4>1. UNCHANGED <<pre, post, natcut>>
          BY <1>9, <3>2 DEF Begins
        <4>2. QED
          BY <1>4, <4>1
      <3>3. QED
        BY <3>1, <3>2
    <2>4. QED
      BY <1>2, <1>3, <2>1, <2>2, <2>3 DEF Typed
  <1>10. CASE UNCHANGED vars
    BY <1>10 DEF vars, firewall, nat, Typed
  <1>11. QED
    BY <1>6, <1>7, <1>8, <1>9, <1>10 DEF Next

\* Whatever a script did and wherever it stopped, the tables hold rules of the
\* lists that their chains take, no more than a list has, and the lists and their
\* files are lists (FiltersTypeOK of Filters).
THEOREM TypesAlwaysHold == Spec => []FiltersTypeOK
  <1>1. Init => Typed
    <2> SUFFICES ASSUME Init PROVE Typed
      OBVIOUS
    <2>1. script \in Lists(Rule) /\ pre \in Lists(Port) /\ post \in Seq(Snat \cup Masq)
      BY EmptyList, EmptySeq DEF Init
    <2>2. filter \in Tables /\ InPlace(filter, MaxRules)
      BY FlushedTyped DEF Init
    <2>3. edits \in 0..MaxEdits
      BY FiltersAssumption DEF Init
    <2>4. QED
      BY <2>1, <2>2, <2>3 DEF Init, Typed
  <1>2. ASSUME IInv, Typed PROVE FiltersTypeOK
    <2>1. filter \in [Chain -> Lists(Rule)]
      <3>1. ASSUME NEW c \in Chain PROVE filter[c] \in Lists(Rule)
        <4>1. filter[c] \in Seq(Rule) /\ Len(filter[c]) <= MaxRules
          BY <1>2 DEF Typed, Tables, InPlace
        <4>2. Len(filter[c]) \in 0..MaxRules /\ filter[c] \in [1..Len(filter[c]) -> Rule]
          BY <4>1, FiltersAssumption, LenProperties
        <4>3. QED
          BY <4>2, ListIntro
      <3>2. QED
        BY <1>2, <3>1 DEF Typed, Tables
    <2>2. {fwrunning, natrunning, natcut} \subseteq BOOLEAN
      BY <1>2 DEF Typed
    <2>3. QED
      BY <1>2, <2>1, <2>2 DEF IInv, Saved, NatSaved, Typed, FiltersTypeOK
  <1>3. IInv /\ Typed /\ [Next]_vars => Typed'
    BY NextTyped
  <1>4. QED
    BY <1>1, <1>2, <1>3, Inductive, PTL DEF Spec
=============================================================================

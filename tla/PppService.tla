----------------------------- MODULE PppService -----------------------------
(***************************************************************************)
(* services/ppp: the connections, their configuration, and one pppd for    *)
(* each that runs.  A connection is what its pppd is given: `data'.        *)
(*                                                                         *)
(* `pppd call' returns when the link is up, or fails: without a peers      *)
(* file, while another pppd has the line, or for reasons of its own.  A    *)
(* pppd outlives the daemon, and may end at any time.                      *)
(***************************************************************************)
EXTENDS Network, Containers

CONSTANTS Data,     \* what may be configured for a connection
          NewData,  \* what it may be added with: a bound, the rest comes by updates
          None      \* no pppd; no peers file

ASSUME PppAssumption == None \notin Data /\ NewData \subseteq Data

VARIABLES
    conns,     \* PppHandler.conns
    pppd,      \* what the pppd of a connection was started with
    peers,     \* the peers files
    pppsaved,  \* the pickle file of conns
    committed  \* history: what the last commit saved; None when something else
               \* may have been saved since

pppvars == <<conns, pppd, peers, pppsaved, committed>>

Conns == UNION {[ns -> [data : Data, running : BOOLEAN]] : ns \in SUBSET Ppp}
DataOf(cs) == [n \in DOMAIN cs |-> cs[n].data]

Running == {n \in DOMAIN conns : conns[n].running}

PppTypeOK == /\ conns \in Conns
             /\ pppd \in [Ppp -> Data \cup {None}]
             /\ peers \in [Ppp -> Data \cup {None}]
             /\ pppsaved \in Conns
             /\ \A n \in Ppp : pppd[n] # None <=> n \in Seen
             \* What runs, or is taken to run, has the file to start it again.
             /\ \A n \in Ppp : pppd[n] # None \/ n \in Running => peers[n] # None

PppInit == /\ conns = Empty
           /\ pppd = [n \in Ppp |-> None]
           /\ peers = [n \in Ppp |-> None]
           /\ pppsaved = Empty
           /\ committed = Empty

-----------------------------------------------------------------------------
\* conn add, update, delete, clear.  A pppd is left alone.
Connections(new) == /\ conns' = new
                    /\ UNCHANGED <<network, pppd, peers, pppsaved, committed>>

ConnAdd(n, x) == /\ CanAdd(conns, n)
                 /\ Connections(AddItem(conns, n, [data |-> x, running |-> FALSE]))
ConnUpdate(n, x) == /\ n \in Visible(conns)
                    /\ conns[n].data # x
                    /\ Connections(UpdateItem(conns, n, [conns[n] EXCEPT !.data = x]))
ConnDelete(n) == n \in Visible(conns) /\ Connections(DeleteItem(conns, n))
ConnClear == conns # Empty /\ Connections(Cleared)

-----------------------------------------------------------------------------
\* The connections `up' are started and the connections `down' stopped, those
\* in both are restarted; conns' is told, and dumped as it is.  Files are those
\* in `files'.
Processes(down, up, files) ==
    /\ \A n \in up : files[n] # None /\ (n \in down \/ pppd[n] = None)
    /\ pppd' = [n \in Ppp |-> IF n \in up THEN files[n]
                              ELSE IF n \in down THEN None ELSE pppd[n]]
    /\ \E addrs \in {{a} : a \in Addr} :
          Change({n \in down : pppd[n] # None}, up, addrs)
    /\ conns' = [n \in DOMAIN conns |->
                    [conns[n] EXCEPT !.running = n \in up \/ (@ /\ n \notin down)]]
    /\ pppsaved' = conns'

\* All the connections are dumped, with changes that were not committed.
Leak == committed' = IF DataOf(conns) = DataOf(pppsaved) THEN committed ELSE None

\* start, of one or of all: those that are not running, up to the first failure.
PppStart(up) == /\ up # {} /\ up \subseteq DOMAIN conns \ Running
                /\ Processes({}, up, peers)
                /\ Leak
                /\ UNCHANGED <<events, peers>>

\* stop, of one or of all.
PppStop(down) == /\ down # {} /\ down \subseteq Running
                 /\ down = Running \/ \E n \in down : down = {n}
                 /\ Processes(down, {}, peers)
                 /\ Leak
                 /\ UNCHANGED <<events, peers>>

\* A loop of stop() and start() over ns: the connections in `ok' are running
\* again, and one other may have been stopped and then have failed to start.
Rerun(ns, ok, bad, files) == /\ ok \subseteq ns /\ bad \subseteq ns \ ok
                             /\ bad = {} => ok = ns
                             /\ \A m, n \in bad : m = n
                             /\ Processes((ok \cup bad) \cap Running, ok, files)

Bounce(ns, ok, bad) == /\ ok # {} \/ bad \cap Running # {}
                       /\ Rerun(ns, ok, bad, peers)
                       /\ Leak
                       /\ UNCHANGED <<events, peers>>

\* restart, of one or of all; reload, of one or of all that are running.
PppRestart(ok, bad) == \/ \E n \in DOMAIN conns : Bounce({n}, ok, bad)
                       \/ Bounce(DOMAIN conns, ok, bad)
PppReload(ok, bad) == Bounce(Running, ok, bad)

\* A bug: the files of the connections that were deleted are removed.
WrittenExactly == [n \in Ppp |-> IF n \in DOMAIN conns THEN conns[n].data ELSE None]

\* _write_config: files are written for what there is, and none is removed.
Written == [n \in Ppp |-> IF n \in DOMAIN conns THEN conns[n].data ELSE peers[n]]

\* commit: dump, write and reload; `bad' is the connection that fails.
PppCommit(ok, bad) == /\ peers' = Written
                      /\ Rerun(Running, ok, bad, peers')
                      /\ committed' = DataOf(conns)
                      /\ UNCHANGED events

PppRollback == /\ conns' = pppsaved
               /\ UNCHANGED <<network, pppd, peers, pppsaved, committed>>

\* A bug: the tick saves what it has learnt.
PppTickDumps == /\ conns' = [n \in DOMAIN conns |->
                                 [conns[n] EXCEPT !.running = pppd[n] # None]]
                /\ pppsaved' = conns'
                /\ UNCHANGED <<pppd, peers, committed>>

\* handle_timer: pgrep tells which connections have a pppd.
PppTick == /\ conns' = [n \in DOMAIN conns |->
                            [conns[n] EXCEPT !.running = pppd[n] # None]]
           /\ UNCHANGED <<pppd, peers, pppsaved, committed>>

\* A pppd ends: the line is dropped, or somebody kills it.
PppEnds(n) == /\ Event
              /\ pppd[n] # None
              /\ pppd' = [pppd EXCEPT ![n] = None]
              /\ Change({n}, {}, {})
              /\ UNCHANGED <<conns, peers, pppsaved, committed>>
=============================================================================

--------------------------------- MODULE Dns ---------------------------------
(***************************************************************************)
(* services/dns: the zones, their flags, the files of named, and named.    *)
(*                                                                         *)
(* A zone has flags that say what a commit has still to do for it: _add,   *)
(* _update, _delete.  commit dumps everything to the pickle files (flags   *)
(* as they are), looks at the zones one by one, and reloads named if       *)
(* named.conf was written.  rndc and init.d may fail at any point of it,   *)
(* named may end, and the daemon may be restarted.                         *)
(*                                                                         *)
(* The hosts of a zone stand for its mail exchangers and name servers too: *)
(* three instances of the same class.  Of the parameters only that one was *)
(* set is kept: dirty is the attribute _update of the handler.             *)
(***************************************************************************)
EXTENDS Containers

CONSTANTS Zone,       \* names of zones, which are the keys of `zones' too
          Host, Ip,   \* what a zone may contain
          NoFile,     \* a zone file that does not exist, a zone not served
          ZonesHere,  \* is the directory of the zone files the daemon's own?
          MaxEdits,   \* how many commands may change zones
          MaxRestarts

Contents == UNION {[hs -> [ip : Ip]] : hs \in SUBSET Host}

ASSUME DnsAssumption == /\ NoFile \notin Contents
                        /\ ZonesHere \in BOOLEAN
                        /\ MaxEdits \in Nat
                        /\ MaxRestarts \in Nat

Item == [name : Zone, hosts : Contents,
         add : BOOLEAN, update : BOOLEAN, delete : BOOLEAN]
Zones == UNION {[ks -> Item] : ks \in SUBSET Zone}
Served == [Zone -> Contents \cup {NoFile}]

VARIABLES
    zones,     \* DnsHandler.zones
    dirty,     \* DnsHandler._update
    running,   \* _service_running
    saved,     \* the pickle files of zones and _service_running
    zfile,     \* the zone files
    conf,      \* the zones that named.conf lists
    up,        \* is there a named?
    served,    \* what it serves
    pc,        \* what the handler is doing
    todo,      \* the zones that _write_config has not looked at
    gone,      \* its list delete_zones
    loose,     \* history: the zones that were changed behind their flags
    edits,     \* how many commands have changed zones
    restarts   \* how often the daemon was restarted

memory == <<zones, dirty, running>>
disk == <<saved, zfile, conf>>
named == <<up, served>>
control == <<pc, todo, gone>>
history == <<loose, edits, restarts>>
dnsvars == <<memory, disk, named, control, history>>

DnsTypeOK == /\ zones \in Zones
             /\ dirty \in BOOLEAN
             /\ running \in BOOLEAN
             /\ saved \in [zones : Zones, running : BOOLEAN]
             /\ zfile \in Served
             /\ conf \in SUBSET Zone
             /\ up \in BOOLEAN
             /\ served \in Served
             /\ pc \in {"idle", "writing", "reloading"}
             /\ todo \subseteq DOMAIN zones
             /\ gone \in Seq(Zone)
             /\ loose \in SUBSET Zone
             /\ edits \in 0..MaxEdits
             /\ restarts \in 0..MaxRestarts
             /\ pc # "writing" => todo = {} /\ gone = <<>>

\* The first start: no pickle file, so the defaults, which commit dumps.  It
\* writes no named.conf: nothing has changed.
DnsInit == /\ zones = Empty
           /\ dirty = FALSE
           /\ running = FALSE
           /\ saved = [zones |-> Empty, running |-> FALSE]
           /\ zfile = [n \in Zone |-> NoFile]
           /\ conf = {}
           /\ up = FALSE
           /\ served = [n \in Zone |-> NoFile]
           /\ pc = "idle" /\ todo = {} /\ gone = <<>>
           /\ loose = {}
           /\ edits = 0 /\ restarts = 0

Idle == pc = "idle"
NewZone(n) == [name |-> n, hosts |-> Empty,
               add |-> FALSE, update |-> FALSE, delete |-> FALSE]

\* A command that changes nothing but the zones.
Edit(newzones, behind) == /\ Idle
                          /\ edits < MaxEdits
                          /\ edits' = edits + 1
                          /\ zones' = newzones
                          /\ loose' = loose \cup behind
                          /\ UNCHANGED <<dirty, running, disk, named, control,
                                         restarts>>

-----------------------------------------------------------------------------
\* zone add.
ZoneAdd(k) == /\ CanAdd(zones, k)
              /\ Edit(AddItem(zones, k, NewZone(k)), DOMAIN zones \cap {k})

\* zone update: a zone has nothing but its name.  Its key stays.
ZoneUpdate(k, n) == /\ k \in Visible(zones)
                    /\ Edit(UpdateItem(zones, k, [zones[k] EXCEPT !.name = n]),
                            {k, n})

ZoneDelete(k) == k \in Visible(zones) /\ Edit(DeleteItem(zones, k), {})

ZoneClear == Edit(Cleared, DOMAIN zones)

\* A bug: the zone is not marked as updated.
HostsOfUnmarked(k, hosts) == [zones EXCEPT ![k].hosts = hosts]

\* The commands of a zone's containers look at all the zones, deleted or not.
HostsOf(k, hosts) == [zones EXCEPT ![k] = Touched([@ EXCEPT !.hosts = hosts])]

HostAdd(k, h, ip) == /\ k \in DOMAIN zones
                     /\ CanAdd(zones[k].hosts, h)
                     /\ Edit(HostsOf(k, AddItem(zones[k].hosts, h, [ip |-> ip])),
                             {})

HostUpdate(k, h, ip) ==
    /\ k \in DOMAIN zones
    /\ h \in Visible(zones[k].hosts)
    /\ Edit(HostsOf(k, UpdateItem(zones[k].hosts, h, [ip |-> ip])), {})

HostDelete(k, h) == /\ k \in DOMAIN zones
                    /\ h \in Visible(zones[k].hosts)
                    /\ Edit(HostsOf(k, DeleteItem(zones[k].hosts, h)), {})

HostClear(k) == /\ k \in DOMAIN zones
                /\ Edit([zones EXCEPT ![k].hosts = Cleared], {k})

\* set.
SetParam == /\ Idle
            /\ dirty' = TRUE
            /\ UNCHANGED <<zones, running, disk, named, control, history>>

-----------------------------------------------------------------------------
\* named reads its configuration; a zone without a file is not served.
Loaded == [n \in Zone |-> IF n \in conf THEN zfile[n] ELSE NoFile]
NamedStart == /\ up' = TRUE
              /\ served' = IF up THEN served ELSE Loaded

Flag(r) == running' = r /\ saved' = [saved EXCEPT !.running = r]

StartNamed == /\ Idle
              /\ ~running
              /\ NamedStart
              /\ Flag(TRUE)
              /\ UNCHANGED <<zones, dirty, zfile, conf, control, history>>

StopNamed == /\ Idle
             /\ running
             /\ up' = FALSE
             /\ served' = [n \in Zone |-> NoFile]
             /\ Flag(FALSE)
             /\ UNCHANGED <<zones, dirty, zfile, conf, control, history>>

RestartNamed == /\ Idle
                /\ up' = TRUE
                /\ served' = Loaded
                /\ Flag(TRUE)
                /\ UNCHANGED <<zones, dirty, zfile, conf, control, history>>

ReloadNamed == /\ Idle
               /\ running /\ up
               /\ served' = Loaded
               /\ UNCHANGED <<memory, disk, up, control, history>>

\* DnsHandler.handle_timer: pgrep tells whether named is there.
Timer == /\ Idle
         /\ running' = up
         /\ UNCHANGED <<zones, dirty, disk, named, control, history>>

\* Somebody else stops or starts named; it need not be asked when.
NamedEnds == /\ up
             /\ up' = FALSE
             /\ served' = [n \in Zone |-> NoFile]
             /\ UNCHANGED <<memory, disk, control, history>>

NamedStarted == /\ ~up
                /\ NamedStart
                /\ UNCHANGED <<memory, disk, control, history>>

-----------------------------------------------------------------------------
\* commit: everything is dumped, with the flags that are set.
Commit == /\ Idle
          /\ saved' = [zones |-> zones, running |-> running]
          /\ pc' = "writing" /\ todo' = DOMAIN zones /\ gone' = <<>>
          /\ UNCHANGED <<memory, zfile, conf, named, history>>

\* A bug: the list of deleted zones outlives the commit.
AbortKeeps == pc' = "idle" /\ todo' = {} /\ UNCHANGED gone

Abort == pc' = "idle" /\ todo' = {} /\ gone' = <<>>

Writes(z) == z.update \/ z.add
Freezes(z) == z.update /\ ~z.add /\ running

Written(z) == [z EXCEPT !.update = FALSE, !.add = FALSE]
ZfileWith(z) == [zfile EXCEPT ![z.name] = z.hosts]

\* A bug: the file of a deleted zone is unlinked before it is written.
UnlinkedFirst(files, z) == IF Writes(z) \/ ~z.delete THEN files
                           ELSE [files EXCEPT ![z.name] = NoFile]

\* unlink() is given the name of a file without its directory; that there may be
\* no such file is expected.
Unlinked(files, z) == IF z.delete /\ ZonesHere
                      THEN [files EXCEPT ![z.name] = NoFile] ELSE files

\* One zone in the loop of _write_config: its file, and then its deletion.

WriteZone(k) ==
    /\ pc = "writing" /\ k \in todo
    /\ LET z == zones[k] IN
        /\ Freezes(z) => up /\ served[z.name] # NoFile
        /\ zones' = [zones EXCEPT ![k] = IF Writes(z) THEN Written(z) ELSE z]
        /\ zfile' = Unlinked(IF Writes(z) THEN ZfileWith(z) ELSE zfile, z)
        /\ served' = IF Freezes(z) THEN [served EXCEPT ![z.name] = z.hosts]
                     ELSE served
        /\ dirty' = (dirty \/ (Writes(z) /\ ~Freezes(z)) \/ z.delete)
        /\ gone' = IF z.delete THEN Append(gone, z.name) ELSE gone
    /\ todo' = todo \ {k}
    /\ UNCHANGED <<running, saved, conf, up, pc, history>>

\* rndc freeze fails: nothing was done for this zone.
FreezeFails(k) == /\ pc = "writing" /\ k \in todo
                  /\ Freezes(zones[k])
                  /\ Abort
                  /\ UNCHANGED <<memory, disk, named, history>>

\* rndc thaw fails: the file was written, and the flag cleared.
ThawFails(k) ==
    /\ pc = "writing" /\ k \in todo
    /\ Freezes(zones[k])
    /\ zones' = [zones EXCEPT ![k].update = FALSE]
    /\ zfile' = ZfileWith(zones[k])
    /\ Abort
    /\ loose' = loose \cup {zones[k].name}
    /\ UNCHANGED <<dirty, running, saved, conf, named, edits, restarts>>

\* A bug: the loop ends with the first of the deleted zones.
RemovedFirst == {n \in DOMAIN zones : gone # <<>> /\ gone[1] = n}

\* del self.zones[z] for the names in delete_zones; KeyError at the first one
\* that is no key (any more).
Removed == {n \in Zone : \E i \in DOMAIN gone :
                /\ gone[i] = n
                /\ \A j \in 1..i : gone[j] \in DOMAIN zones
                /\ \A j, l \in 1..i : gone[j] = gone[l] => j = l}
AllRemoved == \A i, j \in DOMAIN gone :
                gone[i] \in DOMAIN zones /\ (gone[i] = gone[j] => i = j)

\* A bug: the deleted zones are forgotten, and named.conf is left alone.
EndWriteKeepsConf ==
    /\ pc = "writing" /\ todo = {}
    /\ zones' = Without(zones, Removed)
    /\ dirty' = FALSE
    /\ pc' = IF dirty /\ AllRemoved THEN "reloading" ELSE "idle"
    /\ gone' = <<>>
    /\ UNCHANGED <<running, disk, named, todo, history>>

\* The end of _write_config.
EndWrite ==
    /\ pc = "writing" /\ todo = {}
    /\ zones' = Without(zones, Removed)
    /\ IF dirty /\ AllRemoved
       THEN /\ conf' = {zones'[k].name : k \in DOMAIN zones'}
            /\ dirty' = FALSE
            /\ pc' = "reloading"
       ELSE pc' = "idle" /\ UNCHANGED <<conf, dirty>>
    /\ gone' = <<>>
    /\ UNCHANGED <<running, saved, zfile, named, todo, history>>

\* reload, if the handler believes that named is running.
Reload == /\ pc = "reloading"
          /\ served' = IF running /\ up THEN Loaded ELSE served
          /\ pc' = "idle"
          /\ UNCHANGED <<memory, disk, up, todo, gone, history>>

Rollback == /\ Idle
            /\ zones' = saved.zones
            /\ running' = saved.running
            /\ UNCHANGED <<dirty, disk, named, control, history>>

\* The daemon ends, whatever it is doing, and the next one restores what was
\* dumped; _update is not dumped.
RestartDaemon == /\ restarts < MaxRestarts
                 /\ restarts' = restarts + 1
                 /\ zones' = saved.zones
                 /\ running' = saved.running
                 /\ dirty' = FALSE
                 /\ IF saved.running THEN NamedStart ELSE UNCHANGED named
                 /\ Abort
                 /\ UNCHANGED <<disk, loose, edits>>

-----------------------------------------------------------------------------
ZoneCommand == \/ \E k \in Zone : ZoneAdd(k) \/ ZoneDelete(k) \/ HostClear(k)
               \/ \E k, n \in Zone : ZoneUpdate(k, n)
               \/ ZoneClear

HostCommand == \E k \in Zone, h \in Host :
                  \/ \E ip \in Ip : HostAdd(k, h, ip) \/ HostUpdate(k, h, ip)
                  \/ HostDelete(k, h)

ServiceCommand == \/ SetParam
                  \/ StartNamed
                  \/ StopNamed
                  \/ RestartNamed
                  \/ ReloadNamed
                  \/ Commit
                  \/ Rollback

CommitStep == \/ \E k \in Zone : WriteZone(k) \/ FreezeFails(k) \/ ThawFails(k)
              \/ EndWrite
              \/ Reload

DnsNext == \/ ZoneCommand
           \/ HostCommand
           \/ ServiceCommand
           \/ CommitStep
           \/ Timer
           \/ NamedEnds
           \/ NamedStarted
           \/ RestartDaemon

DnsSpec == DnsInit /\ [][DnsNext]_dnsvars

-----------------------------------------------------------------------------
Names(ks) == {zones[k].name : k \in ks}

\* What the flags do not ask for has been done: the file of a zone that is
\* neither new nor updated says what the zone says, and named.conf lists it, or
\* is about to.  Only the commands that the flags do not tell of (clear, a zone
\* that is added again before the commit of its deletion, a new name) and a
\* failing thaw make exceptions; and a restart may forget `dirty'.
FlagsTellAll ==
    Idle => \A k \in Visible(zones) \ loose :
        /\ Writes(zones[k]) \/ zfile[zones[k].name] = zones[k].hosts
        /\ zones[k].add \/ zones[k].name \in conf \/ dirty \/ restarts > 0

\* When a commit has reloaded named, named serves the zones that there are and
\* no others, and each of them as it is in memory.
ReloadServesZones ==
    [][pc = "reloading" /\ pc' = "idle" /\ running /\ up /\ restarts' = restarts
        => /\ {n \in Zone : served'[n] # NoFile} \subseteq Names(DOMAIN zones)
           /\ \A k \in DOMAIN zones \ loose :
                served'[zones[k].name] = zones[k].hosts]_dnsvars

\* A commit takes away the zones that were deleted, and these alone, and leaves
\* none of their files in the directory it looks at (handler.py:101-114), as long
\* as zones have the names that they were added with: delete_zones has names, and
\* the dictionary that they are removed from has keys.
CommitRemovesDeleted ==
    [][pc = "writing" /\ todo = {} /\ pc' # "writing" /\ restarts' = restarts
        /\ (\A k \in DOMAIN zones : zones[k].name = k)
        => /\ DOMAIN zones' = Visible(zones)
           /\ ZonesHere => \A k \in DOMAIN zones \ DOMAIN zones' :
                             zfile'[k] = NoFile]_dnsvars
=============================================================================

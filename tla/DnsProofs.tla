------------------------------ MODULE DnsProofs ------------------------------
(***************************************************************************)
(* Safety of Dns for any zones, hosts and number of restarts.              *)
(***************************************************************************)
EXTENDS Dns, SequenceTheorems, TLAPS

\* What the flags of zs, in memory or in a pickle file, say of the files.
Named(zs) == \A k \in DOMAIN zs : zs[k].name = k \/ {k, zs[k].name} \subseteq loose
FilesAgree(zs) == \A k \in Visible(zs) \ loose : Writes(zs[k]) \/ zfile[k] = zs[k].hosts
ConfAgrees(zs) == \A k \in Visible(zs) \ loose :
                     zs[k].add \/ k \in conf \/ dirty \/ restarts > 0
Agrees(zs) == Named(zs) /\ FilesAgree(zs) /\ ConfAgrees(zs)

AllNamed == \A k \in DOMAIN zones : zones[k].name = k

\* A commit has dumped the zones, and has changed nothing in them but the flags
\* of those that it has written.
DumpedBefore ==
    pc = "writing" =>
        /\ DOMAIN zones = DOMAIN saved.zones
        /\ \A k \in DOMAIN zones : /\ zones[k].name = saved.zones[k].name
                                   /\ zones[k].delete = saved.zones[k].delete
        /\ \A k \in todo : zones[k] = saved.zones[k]
        /\ \A k \in DOMAIN zones \ todo : ~Writes(zones[k])

\* It knows the zones that it has found deleted, once each, and has unlinked
\* their files.
GoneIsDeleted ==
    pc = "writing" =>
        /\ \A i \in DOMAIN gone : \E k \in DOMAIN zones \ todo :
                zones[k].delete /\ zones[k].name = gone[i]
        /\ \A k \in DOMAIN zones \ todo :
                zones[k].delete => \E i \in DOMAIN gone : gone[i] = zones[k].name
        /\ AllNamed => \A i, j \in DOMAIN gone : gone[i] = gone[j] => i = j
        /\ AllNamed /\ ZonesHere =>
              \A k \in DOMAIN zones \ todo : zones[k].delete => zfile[k] = NoFile

ReadyToReload ==
    pc = "reloading" =>
        /\ conf = Names(DOMAIN zones)
        /\ \A k \in DOMAIN zones \ loose : zfile[k] = zones[k].hosts

IInv == /\ DnsTypeOK
        /\ Agrees(zones)
        /\ Agrees(saved.zones)
        /\ DumpedBefore
        /\ GoneIsDeleted
        /\ ReadyToReload

-----------------------------------------------------------------------------
\* A zone has its three flags.
LEMMA Flags ==
    ASSUME NEW z \in Item, NEW f \in {"add", "update", "delete"}, NEW v \in BOOLEAN
    PROVE  /\ HasFlag(z, f)
           /\ SetFlag(z, f, v) = [z EXCEPT ![f] = v]
           /\ SetFlag(z, f, v) \in Item
           /\ Gone(z) = z.delete
BY DEF Item, HasFlag, SetFlag, Gone

\* A host has none of them.
LEMMA NoFlags ==
    ASSUME NEW x \in [ip : Ip], NEW v \in BOOLEAN
    PROVE  /\ SetFlag(x, "add", v) = x
           /\ SetFlag(x, "update", v) = x
           /\ SetFlag(x, "delete", v) = x
           /\ ~HasFlag(x, "delete")
BY DEF HasFlag, SetFlag

\* A dictionary of zones, and one of hosts.
LEMMA ZonesDef ==
    /\ \A zs \in Zones : /\ DOMAIN zs \subseteq Zone
                         /\ \A k \in DOMAIN zs : zs[k] \in Item
                         /\ zs \in [DOMAIN zs -> Item]
    /\ \A ks \in SUBSET Zone : \A zs \in [ks -> Item] : zs \in Zones
BY DEF Zones

LEMMA ContentsDef ==
    /\ \A hs \in Contents : /\ DOMAIN hs \subseteq Host
                            /\ \A h \in DOMAIN hs : hs[h] \in [ip : Ip]
                            /\ hs \in [DOMAIN hs -> [ip : Ip]]
    /\ \A ks \in SUBSET Host : \A hs \in [ks -> [ip : Ip]] : hs \in Contents
BY DEF Contents

\* The empty dictionary.
LEMMA EmptyDef == Empty \in Zones /\ Empty \in Contents /\ DOMAIN Empty = {}
  <1>1. Empty \in [{} -> Item] /\ Empty \in [{} -> [ip : Ip]] /\ DOMAIN Empty = {}
    BY DEF Empty
  <1>2. QED
    BY <1>1, ZonesDef, ContentsDef

\* The zones that are visible.
LEMMA VisibleZones ==
    ASSUME NEW zs \in Zones
    PROVE  Visible(zs) = {k \in DOMAIN zs : ~zs[k].delete}
  <1>1. \A k \in DOMAIN zs : zs[k] \in Item
    BY ZonesDef
  <1>2. \A k \in DOMAIN zs : Gone(zs[k]) = zs[k].delete
    BY <1>1, Flags
  <1>3. QED
    BY <1>2 DEF Visible

\* An item is put into a dictionary of zones.
LEMMA PutZone ==
    ASSUME NEW zs \in Zones, NEW k \in Zone, NEW z \in Item
    PROVE  /\ Put(zs, k, z) \in Zones
           /\ DOMAIN Put(zs, k, z) = DOMAIN zs \cup {k}
           /\ Put(zs, k, z)[k] = z
           /\ \A j \in DOMAIN zs \ {k} : Put(zs, k, z)[j] = zs[j]
  <1>1. Put(zs, k, z) \in [DOMAIN zs \cup {k} -> Item]
    BY ZonesDef DEF Put
  <1>2. DOMAIN zs \cup {k} \in SUBSET Zone
    BY ZonesDef
  <1>3. QED
    BY <1>1, <1>2, ZonesDef DEF Put

\* The entry of a zone is changed.
LEMMA ExceptZone ==
    ASSUME NEW zs \in Zones, NEW k \in DOMAIN zs, NEW z \in Item
    PROVE  [zs EXCEPT ![k] = z] = Put(zs, k, z)
BY ZonesDef DEF Put

\* Zones are taken out.
LEMMA WithoutZones ==
    ASSUME NEW zs \in Zones, NEW ks
    PROVE  /\ Without(zs, ks) \in Zones
           /\ DOMAIN Without(zs, ks) = DOMAIN zs \ ks
           /\ \A j \in DOMAIN zs \ ks : Without(zs, ks)[j] = zs[j]
  <1>1. Without(zs, ks) \in [DOMAIN zs \ ks -> Item]
    BY ZonesDef DEF Without
  <1>2. DOMAIN zs \ ks \in SUBSET Zone
    BY ZonesDef
  <1>3. QED
    BY <1>1, <1>2, ZonesDef DEF Without

\* The commands of a zone's hosts leave a dictionary of hosts.
LEMMA HostPut ==
    ASSUME NEW hs \in Contents, NEW h \in Host, NEW a \in Ip
    PROVE  /\ CanAdd(hs, h) => AddItem(hs, h, [ip |-> a]) \in Contents
           /\ UpdateItem(hs, h, [ip |-> a]) \in Contents
  <1> DEFINE x == [ip |-> a]
  <1>1. x \in [ip : Ip]
    OBVIOUS
  <1>2. Put(hs, h, x) \in Contents
    <2>1. Put(hs, h, x) \in [DOMAIN hs \cup {h} -> [ip : Ip]]
      BY <1>1, ContentsDef DEF Put
    <2>2. DOMAIN hs \cup {h} \in SUBSET Host
      BY ContentsDef
    <2>3. QED
      BY <2>1, <2>2, ContentsDef
  <1>3. \A y \in DOMAIN hs : ~Gone(hs[y])
    BY ContentsDef, NoFlags DEF Gone
  <1>4. CanAdd(hs, h) => h \notin DOMAIN hs
    BY <1>3 DEF CanAdd, Visible
  <1>5. CanAdd(hs, h) => AddItem(hs, h, x) \in Contents
    BY <1>1, <1>2, <1>4, NoFlags DEF AddItem
  <1>6. UpdateItem(hs, h, x) \in Contents
    BY <1>1, <1>2, NoFlags DEF UpdateItem
  <1>7. QED
    BY <1>5, <1>6

LEMMA HostDeleted ==
    ASSUME NEW hs \in Contents, NEW h \in Visible(hs)
    PROVE  DeleteItem(hs, h) \in Contents
  <1>1. h \in DOMAIN hs /\ ~HasFlag(hs[h], "delete")
    BY ContentsDef, NoFlags DEF Visible
  <1>2. Without(hs, {h}) \in [DOMAIN hs \ {h} -> [ip : Ip]]
    BY ContentsDef DEF Without
  <1>3. DOMAIN hs \ {h} \in SUBSET Host
    BY ContentsDef
  <1>4. QED
    BY <1>1, <1>2, <1>3, ContentsDef DEF DeleteItem

-----------------------------------------------------------------------------
USE DnsAssumption

\* What may be said of zone k, when it becomes z while loose grows to `wide': it
\* has kept its name, and is marked, or its changes are known to be loose.
Accounted(k, z, wide) ==
    /\ z.name = k \/ {k, z.name} \subseteq wide
    /\ \/ k \in wide \/ z.delete \/ z.add
       \/ /\ z.update /\ k \in DOMAIN zones
          /\ z.delete = zones[k].delete /\ z.add = zones[k].add

\* Agreement does not depend on what is not loose.
LEMMA AgreesWiden ==
    ASSUME NEW zs \in Zones, Agrees(zs), loose \subseteq loose', dirty => dirty',
           restarts' >= restarts, restarts \in Nat, restarts' \in Nat,
           UNCHANGED <<zfile, conf>>
    PROVE  /\ \A k \in DOMAIN zs :
                 zs[k].name = k \/ {k, zs[k].name} \subseteq loose'
           /\ \A k \in Visible(zs) \ loose' : Writes(zs[k]) \/ zfile'[k] = zs[k].hosts
           /\ \A k \in Visible(zs) \ loose' :
                 zs[k].add \/ k \in conf' \/ dirty' \/ restarts' > 0
  <1>1. \A k \in DOMAIN zs :
           zs[k].name = k \/ {k, zs[k].name} \subseteq loose'
    BY DEF Agrees, Named
  <1>2. \A k \in Visible(zs) \ loose' : Writes(zs[k]) \/ zfile'[k] = zs[k].hosts
    BY DEF Agrees, FilesAgree
  <1>3. \A k \in Visible(zs) \ loose' :
           zs[k].add \/ k \in conf' \/ dirty' \/ restarts' > 0
    BY DEF Agrees, ConfAgrees
  <1>4. QED
    BY <1>1, <1>2, <1>3

\* A command changes one zone.
LEMMA OneZone ==
    ASSUME IInv, NEW k \in Zone, NEW z \in Item, NEW behind \in SUBSET Zone,
           Edit(Put(zones, k, z), behind), Accounted(k, z, loose \cup behind)
    PROVE  IInv'
  <1>1. /\ zones \in Zones /\ saved.zones \in Zones /\ loose \in SUBSET Zone
        /\ edits \in 0..MaxEdits /\ restarts \in Nat /\ pc = "idle"
        /\ loose' = loose \cup behind /\ zones' = Put(zones, k, z)
        /\ edits' = edits + 1 /\ edits < MaxEdits
        /\ UNCHANGED <<dirty, running, saved, zfile, conf, up, served, pc, todo,
                       gone, restarts>>
    BY DEF IInv, DnsTypeOK, Edit, Idle, disk, named, control
  <1>2. /\ zones' \in Zones /\ DOMAIN zones' = DOMAIN zones \cup {k}
        /\ zones'[k] = z /\ \A j \in DOMAIN zones \ {k} : zones'[j] = zones[j]
    <2> DEFINE new == Put(zones, k, z)
    <2>1. /\ new \in Zones /\ DOMAIN new = DOMAIN zones \cup {k}
          /\ new[k] = z /\ \A j \in DOMAIN zones \ {k} : new[j] = zones[j]
      BY <1>1, PutZone
    <2>2. zones' = new
      BY <1>1
    <2> HIDE DEF new
    <2>3. QED
      BY <2>1, <2>2
  <1>3. DnsTypeOK'
    <2>1. edits' \in 0..MaxEdits /\ loose' \in SUBSET Zone
      BY <1>1
    <2>2. todo' \subseteq DOMAIN zones'
      BY <1>1, <1>2 DEF IInv, DnsTypeOK
    <2>3. QED
      BY <1>1, <1>2, <2>1, <2>2 DEF IInv, DnsTypeOK
  <1>4. Agrees(saved.zones)'
    BY <1>1, AgreesWiden DEF IInv, Agrees, Named, FilesAgree, ConfAgrees
  <1>5. Agrees(zones)'
    <2>1. /\ \A j \in DOMAIN zones :
                zones[j].name = j \/ {j, zones[j].name} \subseteq loose'
          /\ \A j \in Visible(zones) \ loose' :
                Writes(zones[j]) \/ zfile'[j] = zones[j].hosts
          /\ \A j \in Visible(zones) \ loose' :
                zones[j].add \/ j \in conf' \/ dirty' \/ restarts' > 0
      BY <1>1, AgreesWiden DEF IInv
    <2>2. Visible(zones') = {j \in DOMAIN zones' : ~zones'[j].delete}
          /\ Visible(zones) = {j \in DOMAIN zones : ~zones[j].delete}
      BY <1>1, <1>2, VisibleZones
    <2>3. Named(zones)'
      BY <1>1, <1>2, <2>1 DEF Named, Accounted
    <2>4. FilesAgree(zones)'
      BY <1>1, <1>2, <2>1, <2>2 DEF FilesAgree, Accounted, Writes
    <2>5. ConfAgrees(zones)'
      BY <1>1, <1>2, <2>1, <2>2 DEF ConfAgrees, Accounted
    <2>6. QED
      BY <2>3, <2>4, <2>5 DEF Agrees
  <1>6. DumpedBefore' /\ GoneIsDeleted' /\ ReadyToReload'
    BY <1>1 DEF DumpedBefore, GoneIsDeleted, ReadyToReload
  <1>7. QED
    BY <1>3, <1>4, <1>5, <1>6 DEF IInv

\* The commands of a zone.
LEMMA ZoneCommandKeeps == IInv /\ ZoneCommand => IInv'
  <1> SUFFICES ASSUME IInv, ZoneCommand PROVE IInv'
    OBVIOUS
  <1>1. zones \in Zones /\ loose \in SUBSET Zone /\ Named(zones)
    BY DEF IInv, DnsTypeOK, Agrees
  <1>2. \A k \in DOMAIN zones : k \in Zone /\ zones[k] \in Item
    BY <1>1, ZonesDef
  <1>3. ASSUME NEW k \in Zone, ZoneAdd(k) PROVE IInv'
    <2>1. CASE k \in DOMAIN zones
      <3> DEFINE z == [zones[k] EXCEPT !["add"] = FALSE, !["delete"] = FALSE]
      <3>1. z \in Item /\ z.name = zones[k].name
        BY <1>2, <2>1 DEF Item
      <3>2. AddItem(zones, k, NewZone(k)) = Put(zones, k, z)
        <4>1. SetFlag(zones[k], "add", FALSE) = [zones[k] EXCEPT !["add"] = FALSE]
              /\ SetFlag(zones[k], "add", FALSE) \in Item
          BY <1>2, <2>1, Flags
        <4>2. SetFlag(SetFlag(zones[k], "add", FALSE), "delete", FALSE) = z
          BY <4>1, Flags
        <4>3. QED
          BY <2>1, <4>2 DEF AddItem
      <3>3. Edit(Put(zones, k, z), {k})
        BY <1>3, <2>1, <3>2 DEF ZoneAdd
      <3>4. Accounted(k, z, loose \cup {k})
        BY <1>1, <2>1, <3>1 DEF Accounted, Named
      <3>5. QED
        BY <3>1, <3>3, <3>4, OneZone
    <2>2. CASE k \notin DOMAIN zones
      <3> DEFINE z == [NewZone(k) EXCEPT !["add"] = TRUE]
      <3>1. NewZone(k) \in Item
        BY EmptyDef DEF NewZone, Item
      <3>2. z \in Item /\ z.name = k /\ z.add
        BY <3>1 DEF NewZone, Item
      <3>3. Edit(Put(zones, k, z), {})
        <4>1. SetFlag(NewZone(k), "add", TRUE) = z
          BY <3>1, Flags
        <4>2. AddItem(zones, k, NewZone(k)) = Put(zones, k, z)
          BY <2>2, <4>1 DEF AddItem
        <4>3. DOMAIN zones \cap {k} = {}
          BY <2>2
        <4>4. QED
          BY <1>3, <4>2, <4>3 DEF ZoneAdd
      <3>4. Accounted(k, z, loose \cup {})
        BY <3>2 DEF Accounted
      <3>5. QED
        BY <3>2, <3>3, <3>4, OneZone
    <2>3. QED
      BY <2>1, <2>2
  <1>4. ASSUME NEW k \in Zone, ZoneDelete(k) PROVE IInv'
    <2> DEFINE z == [zones[k] EXCEPT !["delete"] = TRUE]
    <2>1. k \in DOMAIN zones
      BY <1>4 DEF ZoneDelete, Visible
    <2>2. z \in Item /\ z.name = zones[k].name /\ z.delete
      BY <1>2, <2>1 DEF Item
    <2>3. Edit(Put(zones, k, z), {})
      BY <1>2, <1>4, <2>1, Flags DEF ZoneDelete, DeleteItem
    <2>4. Accounted(k, z, loose \cup {})
      BY <1>1, <2>1, <2>2 DEF Accounted, Named
    <2>5. QED
      BY <2>2, <2>3, <2>4, OneZone
  <1>5. ASSUME NEW k \in Zone, HostClear(k) PROVE IInv'
    <2> DEFINE z == [zones[k] EXCEPT !.hosts = Cleared]
    <2>1. k \in DOMAIN zones
      BY <1>5 DEF HostClear
    <2>2. z \in Item /\ z.name = zones[k].name
      BY <1>2, <2>1, EmptyDef DEF Item, Cleared
    <2>3. [zones EXCEPT ![k].hosts = Cleared] = Put(zones, k, z)
      BY <1>1, <2>1, <2>2, ExceptZone
    <2>4. Edit(Put(zones, k, z), {k})
      BY <1>5, <2>3 DEF HostClear
    <2>5. Accounted(k, z, loose \cup {k})
      BY <1>1, <2>1, <2>2 DEF Accounted, Named
    <2>6. QED
      BY <2>2, <2>4, <2>5, OneZone
  <1>6. ASSUME NEW k \in Zone, NEW n \in Zone, ZoneUpdate(k, n) PROVE IInv'
    <2> DEFINE y == [zones[k] EXCEPT !.name = n]
               z == [y EXCEPT !["update"] = TRUE]
    <2>1. k \in DOMAIN zones
      BY <1>6 DEF ZoneUpdate, Visible
    <2>2. y \in Item /\ z \in Item /\ z.name = n
      BY <1>2, <2>1 DEF Item
    <2>3. Edit(Put(zones, k, z), {k, n})
      BY <1>6, <2>2, Flags DEF ZoneUpdate, UpdateItem
    <2>4. Accounted(k, z, loose \cup {k, n})
      BY <2>2 DEF Accounted
    <2>5. QED
      BY <2>2, <2>3, <2>4, OneZone
  <1>7. CASE ZoneClear
    <2>1. /\ edits \in 0..MaxEdits /\ restarts \in Nat /\ pc = "idle"
          /\ saved.zones \in Zones /\ todo = {} /\ gone = <<>>
          /\ loose' = loose \cup DOMAIN zones /\ zones' = Empty
          /\ edits' = edits + 1 /\ edits < MaxEdits
          /\ UNCHANGED <<dirty, running, saved, zfile, conf, up, served, pc, todo,
                         gone, restarts>>
      BY <1>7 DEF IInv, DnsTypeOK, ZoneClear, Edit, Idle, disk, named, control,
                  Cleared
    <2>2. DnsTypeOK'
      <3>1. edits' \in 0..MaxEdits
        BY <2>1
      <3>2. loose' \in SUBSET Zone
        BY <1>1, <1>2, <2>1
      <3>3. zones' \in Zones /\ todo' \subseteq DOMAIN zones'
        BY <2>1, EmptyDef
      <3>4. QED
        BY <2>1, <3>1, <3>2, <3>3 DEF IInv, DnsTypeOK
    <2>3. Agrees(saved.zones)'
      BY <2>1, AgreesWiden DEF IInv, Agrees, Named, FilesAgree, ConfAgrees
    <2>4. Agrees(zones)'
      BY <2>1, EmptyDef DEF Agrees, Named, FilesAgree, ConfAgrees, Visible
    <2>5. DumpedBefore' /\ GoneIsDeleted' /\ ReadyToReload'
      BY <2>1 DEF DumpedBefore, GoneIsDeleted, ReadyToReload
    <2>6. QED
      BY <2>2, <2>3, <2>4, <2>5 DEF IInv
  <1>8. QED
    BY <1>3, <1>4, <1>5, <1>6, <1>7 DEF ZoneCommand

\* The commands of a zone's hosts mark it as updated, deleted or not.
LEMMA HostCommandKeeps == IInv /\ HostCommand => IInv'
  <1> SUFFICES ASSUME IInv, HostCommand PROVE IInv'
    OBVIOUS
  <1>1. zones \in Zones /\ loose \in SUBSET Zone /\ Named(zones)
    BY DEF IInv, DnsTypeOK, Agrees
  <1>2. \A k \in DOMAIN zones : k \in Zone /\ zones[k] \in Item
    BY <1>1, ZonesDef
  <1>3. ASSUME NEW k \in DOMAIN zones, NEW hosts \in Contents,
               Edit(HostsOf(k, hosts), {})
        PROVE  IInv'
    <2> DEFINE y == [zones[k] EXCEPT !.hosts = hosts]
               z == [y EXCEPT !["update"] = TRUE]
    <2>1. y \in Item /\ z \in Item /\ z.name = zones[k].name /\ z.update
          /\ z.delete = zones[k].delete /\ z.add = zones[k].add
      BY <1>2 DEF Item
    <2>2. Touched(y) = z
      BY <2>1, Flags DEF Touched
    <2>3. HostsOf(k, hosts) = Put(zones, k, z)
      BY <1>1, <2>1, <2>2, ExceptZone DEF HostsOf
    <2>4. Accounted(k, z, loose \cup {})
      BY <1>1, <2>1 DEF Accounted, Named
    <2>5. QED
      BY <1>2, <1>3, <2>1, <2>3, <2>4, OneZone
  <1>4. PICK k \in Zone, h \in Host :
           \/ \E ip \in Ip : HostAdd(k, h, ip) \/ HostUpdate(k, h, ip)
           \/ HostDelete(k, h)
    BY DEF HostCommand
  <1>5. k \in DOMAIN zones /\ zones[k].hosts \in Contents
    BY <1>2, <1>4 DEF HostAdd, HostUpdate, HostDelete, Item
  <1>6. CASE HostDelete(k, h)
    <2>1. /\ h \in Visible(zones[k].hosts)
          /\ Edit(HostsOf(k, DeleteItem(zones[k].hosts, h)), {})
      BY <1>6 DEF HostDelete
    <2>2. DeleteItem(zones[k].hosts, h) \in Contents
      BY <1>5, <2>1, HostDeleted
    <2>3. QED
      BY <1>3, <1>5, <2>1, <2>2
  <1>7. ASSUME NEW ip \in Ip, HostAdd(k, h, ip) PROVE IInv'
    BY <1>3, <1>5, <1>7, HostPut DEF HostAdd
  <1>8. ASSUME NEW ip \in Ip, HostUpdate(k, h, ip) PROVE IInv'
    BY <1>3, <1>5, <1>8, HostPut DEF HostUpdate
  <1>9. QED
    BY <1>4, <1>6, <1>7, <1>8

-----------------------------------------------------------------------------
\* named is started or stopped, or its flag or that of the handler is set: the
\* zones, their files and what a commit has found stay as they are.
LEMMA OthersKeep ==
    ASSUME IInv,
           UNCHANGED <<zones, zfile, conf, loose, edits, restarts>>,
           saved'.zones = saved.zones, dirty => dirty',
           dirty' \in BOOLEAN, running' \in BOOLEAN, up' \in BOOLEAN,
           saved' \in [zones : Zones, running : BOOLEAN], served' \in Served,
           \/ UNCHANGED <<pc, todo, gone>>
           \/ pc' = "idle" /\ todo' = {} /\ gone' = <<>>
    PROVE  IInv'
  <1>1. DnsTypeOK'
    <2>1. CASE UNCHANGED <<pc, todo, gone>>
      BY <2>1 DEF IInv, DnsTypeOK
    <2>2. CASE pc' = "idle" /\ todo' = {} /\ gone' = <<>>
      BY <2>2 DEF IInv, DnsTypeOK
    <2>3. QED
      BY <2>1, <2>2
  <1>2. Agrees(zones)'
    BY DEF IInv, Agrees, Named, FilesAgree, ConfAgrees
  <1>3. Agrees(saved.zones)'
    BY DEF IInv, Agrees, Named, FilesAgree, ConfAgrees
  <1>4. DumpedBefore' /\ GoneIsDeleted' /\ ReadyToReload'
    <2>1. CASE UNCHANGED <<pc, todo, gone>>
      BY <2>1 DEF IInv, DumpedBefore, GoneIsDeleted, ReadyToReload, AllNamed, Names
    <2>2. CASE pc' = "idle"
      BY <2>2 DEF DumpedBefore, GoneIsDeleted, ReadyToReload
    <2>3. QED
      BY <2>1, <2>2
  <1>5. QED
    BY <1>1, <1>2, <1>3, <1>4 DEF IInv

\* What named reads are zone files.
LEMMA LoadedServed ==
    ASSUME DnsTypeOK
    PROVE  Loaded \in Served /\ [n \in Zone |-> NoFile] \in Served
BY DEF DnsTypeOK, Loaded, Served

\* The flag of the service and its dump.
LEMMA FlagTyped ==
    ASSUME DnsTypeOK, NEW r \in BOOLEAN, Flag(r)
    PROVE  /\ running' \in BOOLEAN /\ saved'.zones = saved.zones
           /\ saved' \in [zones : Zones, running : BOOLEAN]
BY DEF DnsTypeOK, Flag

\* Steps that are about named alone.
LEMMA NamedKeeps ==
    ASSUME IInv,
           \/ SetParam \/ StartNamed \/ StopNamed \/ RestartNamed \/ ReloadNamed
           \/ Timer \/ NamedEnds \/ NamedStarted \/ Reload
           \/ \E k \in Zone : FreezeFails(k)
    PROVE  IInv'
  <1> USE LoadedServed DEF memory, disk, named, control, history
  <1>1. DnsTypeOK
    BY DEF IInv
  <1>2. CASE SetParam
    BY <1>1, <1>2, OthersKeep DEF SetParam, DnsTypeOK
  <1>3. CASE StartNamed
    <2>1. running' \in BOOLEAN /\ saved'.zones = saved.zones
          /\ saved' \in [zones : Zones, running : BOOLEAN]
      BY <1>1, <1>3, FlagTyped DEF StartNamed
    <2>2. up' \in BOOLEAN /\ served' \in Served
      BY <1>1, <1>3 DEF StartNamed, NamedStart, DnsTypeOK
    <2>3. QED
      BY <1>1, <1>3, <2>1, <2>2, OthersKeep DEF StartNamed, DnsTypeOK
  <1>4. CASE StopNamed
    <2>1. running' \in BOOLEAN /\ saved'.zones = saved.zones
          /\ saved' \in [zones : Zones, running : BOOLEAN]
      BY <1>1, <1>4, FlagTyped DEF StopNamed
    <2>2. QED
      BY <1>1, <1>4, <2>1, OthersKeep DEF StopNamed, DnsTypeOK
  <1>5. CASE RestartNamed
    <2>1. running' \in BOOLEAN /\ saved'.zones = saved.zones
          /\ saved' \in [zones : Zones, running : BOOLEAN]
      BY <1>1, <1>5, FlagTyped DEF RestartNamed
    <2>2. QED
      BY <1>1, <1>5, <2>1, OthersKeep DEF RestartNamed, DnsTypeOK
  <1>6. CASE ReloadNamed
    BY <1>1, <1>6, OthersKeep DEF ReloadNamed, DnsTypeOK
  <1>7. CASE Timer
    BY <1>1, <1>7, OthersKeep DEF Timer, DnsTypeOK
  <1>8. CASE NamedEnds
    BY <1>1, <1>8, OthersKeep DEF NamedEnds, DnsTypeOK
  <1>9. CASE NamedStarted
    BY <1>1, <1>9, OthersKeep DEF NamedStarted, NamedStart, DnsTypeOK
  <1>10. CASE Reload
    <2>1. served' \in Served /\ pc' = "idle" /\ todo' = {} /\ gone' = <<>>
      BY <1>1, <1>10 DEF Reload, DnsTypeOK
    <2>2. QED
      BY <1>1, <1>10, <2>1, OthersKeep DEF Reload, DnsTypeOK
  <1>11. CASE \E k \in Zone : FreezeFails(k)
    BY <1>1, <1>11, OthersKeep DEF FreezeFails, Abort, DnsTypeOK
  <1>12. QED
    BY <1>2, <1>3, <1>4, <1>5, <1>6, <1>7, <1>8, <1>9, <1>10, <1>11

\* commit dumps the zones as they are.
LEMMA CommitKeeps == IInv /\ Commit => IInv'
  <1> SUFFICES ASSUME IInv, Commit PROVE IInv'
    OBVIOUS
  <1> USE DEF memory, disk, named, control, history
  <1>1. /\ saved' = [zones |-> zones, running |-> running]
        /\ pc' = "writing" /\ todo' = DOMAIN zones /\ gone' = <<>>
        /\ UNCHANGED <<zones, dirty, running, zfile, conf, up, served, loose,
                       edits, restarts>>
    BY DEF Commit
  <1>2. DnsTypeOK'
    BY <1>1 DEF IInv, DnsTypeOK
  <1>3. Agrees(zones)' /\ Agrees(saved.zones)'
    BY <1>1 DEF IInv, Agrees, Named, FilesAgree, ConfAgrees
  <1>4. DumpedBefore'
    BY <1>1 DEF DumpedBefore
  <1>5. DOMAIN gone' = {} /\ DOMAIN zones' \ todo' = {}
    BY <1>1
  <1>6. GoneIsDeleted' /\ ReadyToReload'
    BY <1>1, <1>5 DEF GoneIsDeleted, ReadyToReload
  <1>7. QED
    BY <1>2, <1>3, <1>4, <1>6 DEF IInv

\* Rollback and a new daemon take what was dumped.
LEMMA RestoreKeeps == IInv /\ (Rollback \/ RestartDaemon) => IInv'
  <1> USE DEF memory, disk, named, control, history
  <1>1. ASSUME IInv, Rollback PROVE IInv'
    <2>1. /\ pc = "idle" /\ zones' = saved.zones /\ running' = saved.running
          /\ UNCHANGED <<dirty, saved, zfile, conf, up, served, pc, todo, gone,
                         loose, edits, restarts>>
      BY <1>1 DEF Rollback, Idle
    <2>2. DnsTypeOK'
      <3>1. saved.zones \in Zones /\ saved.running \in BOOLEAN /\ todo = {}
        BY <1>1, <2>1 DEF IInv, DnsTypeOK
      <3>2. QED
        BY <1>1, <2>1, <3>1 DEF IInv, DnsTypeOK
    <2>3. Agrees(zones)' /\ Agrees(saved.zones)'
      BY <1>1, <2>1 DEF IInv, Agrees, Named, FilesAgree, ConfAgrees
    <2>4. DumpedBefore' /\ GoneIsDeleted' /\ ReadyToReload'
      BY <2>1 DEF DumpedBefore, GoneIsDeleted, ReadyToReload
    <2>5. QED
      BY <2>2, <2>3, <2>4 DEF IInv
  <1>2. ASSUME IInv, RestartDaemon PROVE IInv'
    <2>1. /\ pc' = "idle" /\ todo' = {} /\ gone' = <<>>
          /\ zones' = saved.zones /\ running' = saved.running /\ dirty' = FALSE
          /\ restarts' = restarts + 1 /\ restarts < MaxRestarts
          /\ UNCHANGED <<saved, zfile, conf, loose, edits>>
      BY <1>2 DEF RestartDaemon, Abort
    <2>2. /\ saved.zones \in Zones /\ saved.running \in BOOLEAN
          /\ restarts \in 0..MaxRestarts
      BY <1>2 DEF IInv, DnsTypeOK
    <2>3. up' \in BOOLEAN /\ served' \in Served
      BY <1>2, LoadedServed DEF IInv, DnsTypeOK, RestartDaemon, NamedStart
    <2>4. DnsTypeOK'
      <3>1. restarts' \in 0..MaxRestarts
        BY <2>1, <2>2
      <3>2. gone' \in Seq(Zone) /\ todo' \subseteq DOMAIN zones'
        BY <2>1
      <3>3. zones' \in Zones /\ running' \in BOOLEAN /\ dirty' \in BOOLEAN
        BY <2>1, <2>2
      <3>4. QED
        BY <1>2, <2>1, <2>3, <3>1, <3>2, <3>3 DEF IInv, DnsTypeOK
    <2>5. restarts' > 0
      BY <2>1, <2>2
    <2>6. Agrees(zones)' /\ Agrees(saved.zones)'
      BY <1>2, <2>1, <2>5 DEF IInv, Agrees, Named, FilesAgree, ConfAgrees
    <2>7. DumpedBefore' /\ GoneIsDeleted' /\ ReadyToReload'
      BY <2>1 DEF DumpedBefore, GoneIsDeleted, ReadyToReload
    <2>8. QED
      BY <2>4, <2>6, <2>7 DEF IInv
  <1>3. QED
    BY <1>1, <1>2

-----------------------------------------------------------------------------
\* What a step of a commit finds.
LEMMA Found ==
    ASSUME IInv, pc = "writing"
    PROVE  /\ zones \in Zones /\ saved.zones \in Zones /\ zfile \in Served
           /\ \A k \in DOMAIN zones : k \in Zone /\ zones[k] \in Item
           /\ Visible(zones) = {k \in DOMAIN zones : ~zones[k].delete}
           /\ Visible(saved.zones) = {k \in DOMAIN zones : ~zones[k].delete}
           /\ \A k \in DOMAIN zones :
                 zones[k].name = k \/ {k, zones[k].name} \subseteq loose
           /\ restarts \in Nat
  <1>1. zones \in Zones /\ saved.zones \in Zones /\ zfile \in Served
        /\ restarts \in Nat
    BY DEF IInv, DnsTypeOK
  <1>2. \A k \in DOMAIN zones : k \in Zone /\ zones[k] \in Item
    BY <1>1, ZonesDef
  <1>3. Visible(zones) = {k \in DOMAIN zones : ~zones[k].delete}
    BY <1>1, VisibleZones
  <1>4. Visible(saved.zones) = {k \in DOMAIN zones : ~zones[k].delete}
    BY <1>1, VisibleZones DEF IInv, DumpedBefore
  <1>5. \A k \in DOMAIN zones :
           zones[k].name = k \/ {k, zones[k].name} \subseteq loose
    BY DEF IInv, Agrees, Named
  <1>6. QED
    BY <1>1, <1>2, <1>3, <1>4, <1>5

\* One zone is written.
LEMMA WriteKeeps ==
    ASSUME IInv, NEW k \in Zone, WriteZone(k)
    PROVE  IInv'
  <1> DEFINE z == zones[k]
             y == IF Writes(z) THEN Written(z) ELSE z
  <1>1. /\ pc = "writing" /\ pc' = "writing" /\ k \in todo
        /\ zones' = [zones EXCEPT ![k] = y]
        /\ zfile' = Unlinked(IF Writes(z) THEN ZfileWith(z) ELSE zfile, z)
        /\ dirty' = (dirty \/ (Writes(z) /\ ~Freezes(z)) \/ z.delete)
        /\ gone' = IF z.delete THEN Append(gone, z.name) ELSE gone
        /\ todo' = todo \ {k}
        /\ served' = IF Freezes(z) THEN [served EXCEPT ![z.name] = z.hosts]
                     ELSE served
        /\ UNCHANGED <<running, saved, conf, up, loose, edits, restarts>>
    BY DEF WriteZone, history
  <1>2. /\ k \in DOMAIN zones /\ z \in Item /\ saved.zones[k] = z
        /\ DOMAIN zones = DOMAIN saved.zones
    BY <1>1, Found DEF IInv, DnsTypeOK, DumpedBefore
  <1>3. /\ y \in Item /\ y.name = z.name /\ y.delete = z.delete
        /\ y.hosts = z.hosts /\ ~Writes(y)
        /\ z.name \in Zone /\ z.hosts \in Contents
        /\ Writes(z) <=> z.add \/ z.update
        /\ y.add \/ Writes(z) \/ ~z.add
    BY <1>2 DEF Written, Writes, Item
  <1> HIDE DEF y
  <1>4. /\ zones' = Put(zones, k, y) /\ zones' \in Zones
        /\ DOMAIN zones' = DOMAIN zones /\ zones'[k] = y
        /\ \A j \in DOMAIN zones \ {k} : zones'[j] = zones[j]
    <2>1. [zones EXCEPT ![k] = y] = Put(zones, k, y)
      BY <1>1, <1>2, <1>3, Found, ExceptZone
    <2> DEFINE new == Put(zones, k, y)
    <2>2. /\ new \in Zones /\ DOMAIN new = DOMAIN zones \cup {k}
          /\ new[k] = y /\ \A j \in DOMAIN zones \ {k} : new[j] = zones[j]
      <3>1. zones \in Zones /\ y \in Item
        BY <1>1, <1>3, Found
      <3>2. QED
        BY <3>1, PutZone
    <2>3. zones' = new
      BY <1>1, <2>1
    <2> HIDE DEF new
    <2>4. DOMAIN zones \cup {k} = DOMAIN zones
      BY <1>2
    <2>5. QED
      BY <1>1, <2>1, <2>2, <2>3, <2>4
  <1>5. /\ zfile' \in Served
        /\ \A j \in Zone : j # z.name => zfile'[j] = zfile[j]
        /\ ~z.delete /\ Writes(z) => zfile'[z.name] = z.hosts
        /\ ~z.delete /\ ~Writes(z) => zfile' = zfile
        /\ z.delete /\ ZonesHere => zfile'[z.name] = NoFile
    <2> DEFINE files == IF Writes(z) THEN ZfileWith(z) ELSE zfile
    <2>1. /\ files \in Served
          /\ \A j \in Zone : j # z.name => files[j] = zfile[j]
          /\ Writes(z) => files[z.name] = z.hosts
          /\ ~Writes(z) => files = zfile
      BY <1>1, <1>3, Found DEF ZfileWith, Served
    <2>2. zfile' = Unlinked(files, z)
      BY <1>1
    <2> HIDE DEF files
    <2>3. CASE z.delete /\ ZonesHere
      <3>1. zfile' = [files EXCEPT ![z.name] = NoFile]
        BY <2>2, <2>3 DEF Unlinked
      <3>2. QED
        BY <1>3, <2>1, <2>3, <3>1 DEF Served
    <2>4. CASE ~(z.delete /\ ZonesHere)
      <3>1. zfile' = files
        BY <2>2, <2>4 DEF Unlinked
      <3>2. QED
        BY <2>1, <2>4, <3>1
    <2>5. QED
      BY <2>3, <2>4
  <1>6. DnsTypeOK'
    <2>1. gone' \in Seq(Zone)
      BY <1>1, <1>3, AppendProperties DEF IInv, DnsTypeOK
    <2>2. served' \in Served
      BY <1>1, <1>3 DEF IInv, DnsTypeOK, Served
    <2>3. todo' \subseteq DOMAIN zones' /\ dirty' \in BOOLEAN
      BY <1>1, <1>2, <1>3, <1>4 DEF IInv, DnsTypeOK, Item, Freezes, Writes
    <2>4. QED
      BY <1>1, <1>4, <1>5, <2>1, <2>2, <2>3 DEF IInv, DnsTypeOK
  <1>7. \A j \in DOMAIN zones \ loose : j # k => zfile'[j] = zfile[j]
    <2>1. \A j \in DOMAIN zones \ loose : j # k => j # z.name
      BY <1>1, <1>2, Found
    <2>2. QED
      BY <1>1, <1>5, <2>1, Found
  <1>8. k \notin loose => z.name = k
    BY <1>1, <1>2, Found
  <1>9. /\ Visible(zones') = Visible(zones)
        /\ Visible(zones) = {j \in DOMAIN zones : ~zones[j].delete}
        /\ Visible(saved.zones) = Visible(zones)
    <2>1. Visible(zones') = {j \in DOMAIN zones' : ~zones'[j].delete}
      BY <1>4, VisibleZones
    <2>2. QED
      BY <1>1, <1>3, <1>4, <2>1, Found
  <1>10. Agrees(zones)'
    <2>1. Named(zones)'
      BY <1>1, <1>3, <1>4 DEF IInv, Agrees, Named
    <2>2. FilesAgree(zones)'
      <3>1. ASSUME NEW j \in Visible(zones) \ loose
            PROVE  Writes(zones'[j]) \/ zfile'[j] = zones'[j].hosts
        <4>1. j \in DOMAIN zones
          BY <3>1, <1>9
        <4>2. Writes(zones[j]) \/ zfile[j] = zones[j].hosts
          BY <3>1 DEF IInv, Agrees, FilesAgree
        <4>3. CASE j = k
          BY <1>3, <1>4, <1>5, <1>8, <1>9, <3>1, <4>2, <4>3
        <4>4. CASE j # k
          BY <1>4, <1>7, <3>1, <4>1, <4>2, <4>4
        <4>5. QED
          BY <4>3, <4>4
      <3>2. QED
        BY <1>1, <1>9, <3>1 DEF FilesAgree
    <2>3. ConfAgrees(zones)'
      <3>1. ASSUME NEW j \in Visible(zones) \ loose
            PROVE  zones'[j].add \/ j \in conf \/ dirty' \/ restarts > 0
        <4>1. j \in DOMAIN zones
          BY <3>1, <1>9
        <4>2. zones[j].add \/ j \in conf \/ dirty \/ restarts > 0
          BY <3>1 DEF IInv, Agrees, ConfAgrees
        <4>3. CASE j = k
          <5>1. CASE z.add
            BY <1>1, <1>3, <5>1 DEF Freezes
          <5>2. CASE ~z.add
            BY <1>1, <4>2, <4>3, <5>2
          <5>3. QED
            BY <5>1, <5>2
        <4>4. CASE j # k
          BY <1>1, <1>4, <4>1, <4>2, <4>4
        <4>5. QED
          BY <4>3, <4>4
      <3>2. QED
        BY <1>1, <1>9, <3>1 DEF ConfAgrees
    <2>4. QED
      BY <2>1, <2>2, <2>3 DEF Agrees
  <1>11. Agrees(saved.zones)'
    <2>1. Named(saved.zones)'
      BY <1>1 DEF IInv, Agrees, Named
    <2>2. FilesAgree(saved.zones)'
      <3>1. ASSUME NEW j \in Visible(saved.zones) \ loose
            PROVE  Writes(saved.zones[j]) \/ zfile'[j] = saved.zones[j].hosts
        <4>1. j \in DOMAIN zones
          BY <3>1, <1>9
        <4>2. Writes(saved.zones[j]) \/ zfile[j] = saved.zones[j].hosts
          BY <3>1 DEF IInv, Agrees, FilesAgree
        <4>3. CASE j = k
          BY <1>2, <1>5, <1>9, <3>1, <4>2, <4>3
        <4>4. CASE j # k
          BY <1>7, <3>1, <4>1, <4>2, <4>4
        <4>5. QED
          BY <4>3, <4>4
      <3>2. QED
        BY <1>1, <3>1 DEF FilesAgree
    <2>3. ConfAgrees(saved.zones)'
      BY <1>1 DEF IInv, Agrees, ConfAgrees
    <2>4. QED
      BY <2>1, <2>2, <2>3 DEF Agrees
  <1>12. DumpedBefore'
    <2>1. \A j \in DOMAIN zones' : /\ zones'[j].name = saved.zones[j].name
                                   /\ zones'[j].delete = saved.zones[j].delete
      BY <1>1, <1>2, <1>3, <1>4 DEF IInv, DumpedBefore
    <2>2. \A j \in todo' : zones'[j] = saved.zones[j]
      BY <1>1, <1>4 DEF IInv, DnsTypeOK, DumpedBefore
    <2>3. \A j \in DOMAIN zones' \ todo' : ~Writes(zones'[j])
      BY <1>1, <1>3, <1>4 DEF IInv, DumpedBefore
    <2>4. QED
      BY <1>1, <1>2, <1>4, <2>1, <2>2, <2>3 DEF DumpedBefore
  <1>13. GoneIsDeleted'
    <2>1. /\ gone \in Seq(Zone) /\ Len(gone) \in Nat /\ DOMAIN gone = 1..Len(gone)
      BY LenProperties DEF IInv, DnsTypeOK
    <2>2. /\ z.delete => /\ DOMAIN gone' = 1..(Len(gone) + 1)
                         /\ gone'[Len(gone) + 1] = z.name
                         /\ \A i \in 1..Len(gone) : gone'[i] = gone[i]
          /\ ~z.delete => gone' = gone
      <3>1. CASE z.delete
        <4>1. gone' = Append(gone, z.name)
          BY <1>1, <3>1
        <4>2. /\ Append(gone, z.name) \in Seq(Zone)
              /\ Len(Append(gone, z.name)) = Len(gone) + 1
              /\ Append(gone, z.name)[Len(gone) + 1] = z.name
              /\ \A i \in 1..Len(gone) : Append(gone, z.name)[i] = gone[i]
          BY <1>3, <2>1, AppendProperties
        <4>3. DOMAIN gone' = 1..(Len(gone) + 1)
          BY <4>1, <4>2, LenProperties
        <4>4. QED
          BY <3>1, <4>1, <4>2, <4>3
      <3>2. CASE ~z.delete
        BY <1>1, <3>2
      <3>3. QED
        BY <3>1, <3>2
    <2>3. \A i \in DOMAIN gone : i \in DOMAIN gone' /\ gone'[i] = gone[i]
      BY <2>1, <2>2
    <2>4. \A i \in DOMAIN gone' : i \notin DOMAIN gone =>
                z.delete /\ i = Len(gone) + 1 /\ gone'[i] = z.name
      BY <2>1, <2>2
    <2>5. /\ \A i \in DOMAIN gone : \E j \in DOMAIN zones \ todo :
                zones[j].delete /\ zones[j].name = gone[i]
          /\ \A j \in DOMAIN zones \ todo :
                zones[j].delete => \E i \in DOMAIN gone : gone[i] = zones[j].name
          /\ AllNamed => \A i, j \in DOMAIN gone : gone[i] = gone[j] => i = j
          /\ AllNamed /\ ZonesHere =>
                \A j \in DOMAIN zones \ todo : zones[j].delete => zfile[j] = NoFile
      BY <1>1 DEF IInv, GoneIsDeleted
    <2>6. \A j \in DOMAIN zones \ todo : /\ j \in DOMAIN zones' \ todo'
                                         /\ zones'[j] = zones[j]
      BY <1>1, <1>4
    <2>7. k \in DOMAIN zones' \ todo'
      BY <1>1, <1>2, <1>4
    <2>8. \A i \in DOMAIN gone' : \E j \in DOMAIN zones' \ todo' :
                zones'[j].delete /\ zones'[j].name = gone'[i]
      BY <1>3, <1>4, <2>3, <2>4, <2>5, <2>6, <2>7
    <2>9. \A j \in DOMAIN zones' \ todo' :
                zones'[j].delete => \E i \in DOMAIN gone' : gone'[i] = zones'[j].name
      <3>1. TAKE j \in DOMAIN zones' \ todo'
      <3>2. CASE j = k
        <4>1. z.delete => Len(gone) + 1 \in DOMAIN gone'
          BY <2>1, <2>2
        <4>2. QED
          BY <1>3, <1>4, <2>2, <3>2, <4>1
      <3>3. CASE j # k
        <4>1. j \in DOMAIN zones \ todo /\ zones'[j] = zones[j]
          BY <1>1, <1>4, <3>1, <3>3
        <4>2. QED
          BY <2>3, <2>5, <4>1
      <3>4. QED
        BY <3>2, <3>3
    <2>10. AllNamed' => \A i, j \in DOMAIN gone' : gone'[i] = gone'[j] => i = j
      <3>1. SUFFICES ASSUME AllNamed', NEW i \in DOMAIN gone', NEW j \in DOMAIN gone',
                            gone'[i] = gone'[j]
                     PROVE  i = j
        OBVIOUS
      <3>2. AllNamed /\ z.name = k
        BY <1>2, <1>3, <1>4, <3>1 DEF AllNamed
      <3>3. \A l \in DOMAIN gone : gone[l] # k
        BY <1>1, <2>5, <3>2 DEF AllNamed
      <3>4. CASE i \in DOMAIN gone /\ j \in DOMAIN gone
        BY <2>3, <2>5, <3>1, <3>2, <3>4
      <3>5. CASE i \in DOMAIN gone /\ j \notin DOMAIN gone
        BY <2>3, <2>4, <3>1, <3>2, <3>3, <3>5
      <3>6. CASE i \notin DOMAIN gone /\ j \in DOMAIN gone
        BY <2>3, <2>4, <3>1, <3>2, <3>3, <3>6
      <3>7. CASE i \notin DOMAIN gone /\ j \notin DOMAIN gone
        BY <2>4, <3>7
      <3>8. QED
        BY <3>4, <3>5, <3>6, <3>7
    <2>11. AllNamed' /\ ZonesHere =>
              \A j \in DOMAIN zones' \ todo' : zones'[j].delete => zfile'[j] = NoFile
      <3>1. SUFFICES ASSUME AllNamed', ZonesHere, NEW j \in DOMAIN zones' \ todo',
                            zones'[j].delete
                     PROVE  zfile'[j] = NoFile
        OBVIOUS
      <3>2. AllNamed /\ z.name = k
        BY <1>2, <1>3, <1>4, <3>1 DEF AllNamed
      <3>3. CASE j = k
        BY <1>3, <1>4, <1>5, <3>1, <3>2, <3>3
      <3>4. CASE j # k
        <4>1. j \in DOMAIN zones \ todo /\ zones'[j] = zones[j] /\ j \in Zone
          BY <1>1, <1>4, <3>1, <3>4, Found
        <4>2. zfile[j] = NoFile
          BY <2>5, <3>1, <3>2, <4>1
        <4>3. QED
          BY <1>5, <3>2, <3>4, <4>1, <4>2
      <3>5. QED
        BY <3>3, <3>4
    <2>12. QED
      BY <2>8, <2>9, <2>10, <2>11 DEF GoneIsDeleted
  <1>14. ReadyToReload'
    BY <1>1 DEF ReadyToReload
  <1>15. QED
    BY <1>6, <1>10, <1>11, <1>12, <1>13, <1>14 DEF IInv

\* A zone is written, and its thaw fails: what was changed is known to be loose.
LEMMA ThawKeeps ==
    ASSUME IInv, NEW k \in Zone, ThawFails(k)
    PROVE  IInv'
  <1> DEFINE z == zones[k]
             y == [z EXCEPT !.update = FALSE]
  <1>1. /\ pc = "writing" /\ pc' = "idle" /\ todo' = {} /\ gone' = <<>>
        /\ k \in todo
        /\ zones' = [zones EXCEPT ![k] = y]
        /\ zfile' = ZfileWith(z) /\ loose' = loose \cup {z.name}
        /\ UNCHANGED <<dirty, running, saved, conf, up, served, edits, restarts>>
    BY DEF ThawFails, Abort, named
  <1>2. k \in DOMAIN zones /\ z \in Item /\ DOMAIN zones = DOMAIN saved.zones
    BY <1>1, Found DEF IInv, DnsTypeOK, DumpedBefore
  <1>3. y \in Item /\ y.name = z.name /\ y.delete = z.delete
        /\ z.name \in Zone /\ z.hosts \in Contents
    BY <1>2 DEF Item
  <1> HIDE DEF y
  <1>4. /\ zones' \in Zones /\ DOMAIN zones' = DOMAIN zones /\ zones'[k] = y
        /\ \A j \in DOMAIN zones \ {k} : zones'[j] = zones[j]
    <2>1. zones \in Zones
      BY <1>1, Found
    <2> DEFINE new == Put(zones, k, y)
    <2>3. zones' = new
      BY <1>2, <1>3, <1>1, <2>1, ExceptZone
    <2>4. /\ new \in Zones /\ DOMAIN new = DOMAIN zones \cup {k}
          /\ new[k] = y /\ \A j \in DOMAIN zones \ {k} : new[j] = zones[j]
      BY <1>3, <2>1, PutZone
    <2> HIDE DEF new
    <2>5. DOMAIN zones \cup {k} = DOMAIN zones
      BY <1>2
    <2>6. QED
      BY <2>3, <2>4, <2>5
  <1>5. zfile' \in Served /\ \A j \in Zone : j # z.name => zfile'[j] = zfile[j]
    BY <1>1, <1>3, Found DEF ZfileWith, Served
  <1>6. DnsTypeOK'
    <2>1. loose' \in SUBSET Zone
      BY <1>1, <1>3 DEF IInv, DnsTypeOK
    <2>2. gone' \in Seq(Zone) /\ todo' \subseteq DOMAIN zones'
      BY <1>1
    <2>3. QED
      BY <1>1, <1>4, <1>5, <2>1, <2>2 DEF IInv, DnsTypeOK
  <1>7. \A j \in DOMAIN zones \ loose' :
           j # k /\ j \notin loose /\ zones'[j] = zones[j] /\ zfile'[j] = zfile[j]
    <2>1. TAKE j \in DOMAIN zones \ loose'
    <2>2. j \notin loose /\ j # z.name
      BY <1>1, <2>1
    <2>3. j # k
      BY <1>1, <1>2, <2>2, Found
    <2>4. j \in Zone
      BY <1>1, <2>1, Found
    <2>5. QED
      BY <1>4, <1>5, <2>1, <2>2, <2>3, <2>4
  <1>8. /\ Visible(zones') = Visible(zones)
        /\ Visible(zones) = {j \in DOMAIN zones : ~zones[j].delete}
        /\ Visible(saved.zones) = Visible(zones)
    <2>1. Visible(zones') = {j \in DOMAIN zones' : ~zones'[j].delete}
      BY <1>4, VisibleZones
    <2>2. \A j \in DOMAIN zones : zones'[j].delete = zones[j].delete
      BY <1>3, <1>4
    <2>3. QED
      BY <1>1, <1>4, <2>1, <2>2, Found
  <1>9. Agrees(zones)'
    <2>1. Named(zones)'
      BY <1>1, <1>3, <1>4 DEF IInv, Agrees, Named
    <2>2. FilesAgree(zones)'
      BY <1>7, <1>8 DEF IInv, Agrees, FilesAgree
    <2>3. ConfAgrees(zones)'
      BY <1>1, <1>7, <1>8 DEF IInv, Agrees, ConfAgrees
    <2>4. QED
      BY <2>1, <2>2, <2>3 DEF Agrees
  <1>10. Agrees(saved.zones)'
    <2>1. Named(saved.zones)'
      BY <1>1 DEF IInv, Agrees, Named
    <2>2. FilesAgree(saved.zones)'
      BY <1>1, <1>7, <1>8 DEF IInv, Agrees, FilesAgree
    <2>3. ConfAgrees(saved.zones)'
      BY <1>1, <1>7, <1>8 DEF IInv, Agrees, ConfAgrees
    <2>4. QED
      BY <2>1, <2>2, <2>3 DEF Agrees
  <1>11. DumpedBefore' /\ GoneIsDeleted' /\ ReadyToReload'
    BY <1>1 DEF DumpedBefore, GoneIsDeleted, ReadyToReload
  <1>12. QED
    BY <1>6, <1>9, <1>10, <1>11 DEF IInv

\* What is removed at the end of _write_config: names of zones that were deleted.
LEMMA RemovedZones ==
    ASSUME IInv, pc = "writing", todo = {}
    PROVE  /\ \A n \in Removed : \E j \in DOMAIN zones :
                 zones[j].delete /\ zones[j].name = n
           /\ \A j \in Visible(zones) \ loose : j \notin Removed
           /\ AllRemoved => \A j \in DOMAIN zones :
                 zones[j].delete => zones[j].name \in Removed
           /\ AllNamed => AllRemoved
  <1>1. /\ \A i \in DOMAIN gone : \E j \in DOMAIN zones :
              zones[j].delete /\ zones[j].name = gone[i]
        /\ \A j \in DOMAIN zones :
              zones[j].delete => \E i \in DOMAIN gone : gone[i] = zones[j].name
        /\ AllNamed => \A i, j \in DOMAIN gone : gone[i] = gone[j] => i = j
    BY DEF IInv, GoneIsDeleted
  <1>2. \A n \in Removed : \E j \in DOMAIN zones :
           zones[j].delete /\ zones[j].name = n
    BY <1>1 DEF Removed
  <1>3. \A j \in Visible(zones) \ loose : j \notin Removed
    <2>1. Visible(zones) = {j \in DOMAIN zones : ~zones[j].delete}
      BY Found
    <2>2. \A j \in DOMAIN zones :
             zones[j].name = j \/ {j, zones[j].name} \subseteq loose
      BY Found
    <2>3. QED
      BY <1>2, <2>1, <2>2
  <1>4. AllRemoved => \A j \in DOMAIN zones :
           zones[j].delete => zones[j].name \in Removed
    <2>1. SUFFICES ASSUME AllRemoved, NEW j \in DOMAIN zones, zones[j].delete
                   PROVE  zones[j].name \in Removed
      OBVIOUS
    <2>2. PICK i \in DOMAIN gone : gone[i] = zones[j].name
      BY <1>1, <2>1
    <2>3. /\ DOMAIN gone = 1..Len(gone) /\ Len(gone) \in Nat
          /\ zones[j].name \in Zone
      <3>1. gone \in Seq(Zone) /\ zones[j] \in Item
        BY Found DEF IInv, DnsTypeOK
      <3>2. QED
        BY <3>1, LenProperties DEF Item
    <2>4. i \in 1..Len(gone) /\ 1..i \subseteq DOMAIN gone
      BY <2>2, <2>3
    <2>5. \A l \in 1..i : gone[l] \in DOMAIN zones
      BY <2>1, <2>2, <2>4 DEF AllRemoved
    <2>6. \A l, m \in 1..i : gone[l] = gone[m] => l = m
      BY <2>1, <2>4 DEF AllRemoved
    <2>7. QED
      BY <2>2, <2>3, <2>5, <2>6 DEF Removed
  <1>5. AllNamed => AllRemoved
    BY <1>1 DEF AllNamed, AllRemoved
  <1>6. QED
    BY <1>2, <1>3, <1>4, <1>5

\* The deleted zones are removed and named.conf is written.
LEMMA EndKeeps ==
    ASSUME IInv, EndWrite
    PROVE  IInv'
  <1>1. /\ pc = "writing" /\ todo = {} /\ todo' = {} /\ gone' = <<>>
        /\ zones' = Without(zones, Removed)
        /\ UNCHANGED <<running, saved, zfile, up, served, loose, edits, restarts>>
    BY DEF EndWrite, named, history
  <1>2. \/ /\ dirty /\ AllRemoved /\ dirty' = FALSE /\ pc' = "reloading"
           /\ conf' = {zones'[k].name : k \in DOMAIN zones'}
        \/ pc' = "idle" /\ UNCHANGED <<conf, dirty>>
    BY DEF EndWrite
  <1>3. /\ zones' \in Zones /\ DOMAIN zones' = DOMAIN zones \ Removed
        /\ \A j \in DOMAIN zones' : j \in DOMAIN zones /\ zones'[j] = zones[j]
    <2> DEFINE new == Without(zones, Removed)
    <2>1. zones \in Zones
      BY <1>1, Found
    <2>2. /\ new \in Zones /\ DOMAIN new = DOMAIN zones \ Removed
          /\ \A j \in DOMAIN zones \ Removed : new[j] = zones[j]
      BY <2>1, WithoutZones
    <2>3. zones' = new
      BY <1>1
    <2> HIDE DEF new
    <2>4. QED
      BY <2>2, <2>3
  <1>4. \A j \in DOMAIN zones : j \in Zone /\ zones[j] \in Item
    BY <1>1, Found
  <1>5. DnsTypeOK'
    <2>1. conf' \in SUBSET Zone
      <3>1. \A j \in DOMAIN zones' : zones'[j].name \in Zone
        BY <1>3, <1>4 DEF Item
      <3>2. QED
        BY <1>2, <3>1 DEF IInv, DnsTypeOK
    <2>2. dirty' \in BOOLEAN /\ pc' \in {"idle", "writing", "reloading"}
      BY <1>2 DEF IInv, DnsTypeOK
    <2>3. gone' \in Seq(Zone) /\ todo' \subseteq DOMAIN zones'
      BY <1>1
    <2>4. QED
      BY <1>1, <1>3, <2>1, <2>2, <2>3 DEF IInv, DnsTypeOK
  <1>6. /\ Visible(zones) = {j \in DOMAIN zones : ~zones[j].delete}
        /\ Visible(saved.zones) = Visible(zones)
        /\ Visible(zones') \subseteq Visible(zones)
    <2>1. Visible(zones') = {j \in DOMAIN zones' : ~zones'[j].delete}
      BY <1>3, VisibleZones
    <2>2. QED
      BY <1>1, <1>3, <2>1, Found
  <1>7. \A j \in Visible(zones) \ loose :
           j \in DOMAIN zones' /\ zones'[j] = zones[j] /\ zones[j].name = j
    <2>1. \A j \in Visible(zones) \ loose : j \in DOMAIN zones'
      BY <1>1, <1>3, <1>6, RemovedZones
    <2>2. QED
      BY <1>1, <1>3, <1>6, <2>1, Found
  <1>8. \A j \in Visible(zones) \ loose : j \in conf' \/ (conf' = conf /\ dirty' = dirty)
    BY <1>2, <1>7
  <1>9. Agrees(zones)'
    <2>1. Named(zones)'
      BY <1>1, <1>3 DEF IInv, Agrees, Named
    <2>2. FilesAgree(zones)'
      BY <1>1, <1>6, <1>7 DEF IInv, Agrees, FilesAgree
    <2>3. ConfAgrees(zones)'
      BY <1>1, <1>6, <1>7, <1>8 DEF IInv, Agrees, ConfAgrees
    <2>4. QED
      BY <2>1, <2>2, <2>3 DEF Agrees
  <1>10. Agrees(saved.zones)'
    <2>1. Named(saved.zones)' /\ FilesAgree(saved.zones)'
      BY <1>1 DEF IInv, Agrees, Named, FilesAgree
    <2>2. ConfAgrees(saved.zones)'
      BY <1>1, <1>6, <1>8 DEF IInv, Agrees, ConfAgrees
    <2>3. QED
      BY <2>1, <2>2 DEF Agrees
  <1>11. ReadyToReload'
    <2>1. SUFFICES ASSUME pc' = "reloading" PROVE ReadyToReload'
      BY DEF ReadyToReload
    <2>2. AllRemoved /\ conf' = {zones'[k].name : k \in DOMAIN zones'}
      BY <1>2, <2>1
    <2>3. ASSUME NEW j \in DOMAIN zones' \ loose PROVE zfile[j] = zones'[j].hosts
      <3>1. j \in DOMAIN zones /\ zones'[j] = zones[j] /\ ~Writes(zones[j])
        BY <1>1, <1>3, <2>3 DEF IInv, DumpedBefore
      <3>2. zones[j].name = j
        BY <1>1, <2>3, <3>1, Found
      <3>3. ~zones[j].delete
        BY <1>1, <1>3, <2>2, <2>3, <3>1, <3>2, RemovedZones
      <3>4. QED
        BY <1>6, <2>3, <3>1, <3>3 DEF IInv, Agrees, FilesAgree
    <2>4. QED
      BY <1>1, <2>2, <2>3 DEF ReadyToReload, Names
  <1>12. DumpedBefore' /\ GoneIsDeleted'
    BY <1>2 DEF DumpedBefore, GoneIsDeleted
  <1>13. QED
    BY <1>5, <1>9, <1>10, <1>11, <1>12 DEF IInv

-----------------------------------------------------------------------------
LEMMA InitIInv == DnsInit => IInv
  <1> SUFFICES ASSUME DnsInit PROVE IInv
    OBVIOUS
  <1>1. /\ zones = Empty /\ saved.zones = Empty /\ saved.running = FALSE
        /\ DOMAIN zones = {} /\ DOMAIN saved.zones = {} /\ pc = "idle"
    BY EmptyDef DEF DnsInit
  <1>2. DnsTypeOK
    <2>1. [n \in Zone |-> NoFile] \in Served
      BY DEF Served
    <2>2. saved \in [zones : Zones, running : BOOLEAN]
      BY EmptyDef DEF DnsInit
    <2>3. edits \in 0..MaxEdits /\ restarts \in 0..MaxRestarts
      BY DEF DnsInit
    <2>4. gone \in Seq(Zone) /\ todo \subseteq DOMAIN zones
      BY DEF DnsInit
    <2>5. zones \in Zones
      BY <1>1, EmptyDef
    <2>6. QED
      BY <2>1, <2>2, <2>3, <2>4, <2>5 DEF DnsInit, DnsTypeOK
  <1>3. Agrees(zones) /\ Agrees(saved.zones)
    BY <1>1 DEF Agrees, Named, FilesAgree, ConfAgrees, Visible
  <1>4. DumpedBefore /\ GoneIsDeleted /\ ReadyToReload
    BY <1>1 DEF DumpedBefore, GoneIsDeleted, ReadyToReload
  <1>5. QED
    BY <1>2, <1>3, <1>4 DEF IInv

LEMMA NextIInv == IInv /\ [DnsNext]_dnsvars => IInv'
  <1>1. ASSUME IInv, UNCHANGED dnsvars PROVE IInv'
    <2>1. UNCHANGED <<zones, dirty, running, saved, zfile, conf, up, served, pc,
                      todo, gone, loose, edits, restarts>>
      BY <1>1 DEF dnsvars, memory, disk, named, control, history
    <2>2. /\ dirty \in BOOLEAN /\ running \in BOOLEAN /\ up \in BOOLEAN
          /\ saved \in [zones : Zones, running : BOOLEAN] /\ served \in Served
      BY <1>1 DEF IInv, DnsTypeOK
    <2>3. QED
      BY <1>1, <2>1, <2>2, OthersKeep
  <1>2. ASSUME IInv, CommitStep PROVE IInv'
    <2>1. CASE \E k \in Zone : FreezeFails(k)
      BY <1>2, <2>1, NamedKeeps
    <2>2. CASE \E k \in Zone : WriteZone(k)
      BY <1>2, <2>2, WriteKeeps
    <2>3. CASE \E k \in Zone : ThawFails(k)
      BY <1>2, <2>3, ThawKeeps
    <2>4. CASE EndWrite
      BY <1>2, <2>4, EndKeeps
    <2>5. CASE Reload
      BY <1>2, <2>5, NamedKeeps
    <2>6. QED
      BY <1>2, <2>1, <2>2, <2>3, <2>4, <2>5 DEF CommitStep
  <1>3. ASSUME IInv, ServiceCommand PROVE IInv'
    BY <1>3, NamedKeeps, CommitKeeps, RestoreKeeps DEF ServiceCommand
  <1>4. ASSUME IInv, Timer \/ NamedEnds \/ NamedStarted PROVE IInv'
    BY <1>4, NamedKeeps
  <1>5. QED
    BY <1>1, <1>2, <1>3, <1>4, ZoneCommandKeeps, HostCommandKeeps, RestoreKeeps
       DEF DnsNext

\* The invariant of the DNS service: what the flags of the zones say of the files,
\* also of the zones that were dumped, and what a commit has done so far.
THEOREM Inductive == DnsSpec => []IInv
  <1>1. QED
    BY InitIInv, NextIInv, PTL DEF DnsSpec

\* Types: a commit that is interrupted anywhere leaves no rest of it behind.
THEOREM TypeCorrect == DnsSpec => []DnsTypeOK
  <1>1. IInv => DnsTypeOK
    BY DEF IInv
  <1>2. QED
    BY <1>1, Inductive, PTL

\* The flags tell all that is to do: a zone whose flags are clear is in its file
\* and in named.conf, but for the commands that set no flag.
THEOREM FlagsAlwaysTell == DnsSpec => []FlagsTellAll
  <1>1. IInv => FlagsTellAll
    <2> SUFFICES ASSUME IInv, NEW k \in Visible(zones) \ loose
                 PROVE  /\ Writes(zones[k]) \/ zfile[zones[k].name] = zones[k].hosts
                        /\ \/ zones[k].add \/ zones[k].name \in conf \/ dirty
                           \/ restarts > 0
      BY DEF FlagsTellAll
    <2>1. zones[k].name = k
      BY DEF IInv, Agrees, Named, Visible
    <2>2. Writes(zones[k]) \/ zfile[k] = zones[k].hosts
      BY DEF IInv, Agrees, FilesAgree
    <2>3. zones[k].add \/ k \in conf \/ dirty \/ restarts > 0
      BY DEF IInv, Agrees, ConfAgrees
    <2>4. QED
      BY <2>1, <2>2, <2>3
  <1>2. QED
    BY <1>1, Inductive, PTL

\* named serves what there is when a commit has reloaded it.
THEOREM ReloadServes == DnsSpec => ReloadServesZones
  <1> DEFINE Served2 ==
        pc = "reloading" /\ pc' = "idle" /\ running /\ up /\ restarts' = restarts
          => /\ {n \in Zone : served'[n] # NoFile} \subseteq Names(DOMAIN zones)
             /\ \A k \in DOMAIN zones \ loose :
                  served'[zones[k].name] = zones[k].hosts
  <1>1. IInv /\ [DnsNext]_dnsvars => [Served2]_dnsvars
    <2> SUFFICES ASSUME IInv, DnsNext, pc = "reloading", pc' = "idle", running, up,
                        restarts' = restarts
                 PROVE  /\ {n \in Zone : served'[n] # NoFile}
                              \subseteq Names(DOMAIN zones)
                        /\ \A k \in DOMAIN zones \ loose :
                              served'[zones[k].name] = zones[k].hosts
      OBVIOUS
    <2>1. Reload
      <3>1. ~ZoneCommand /\ ~HostCommand
        BY DEF ZoneCommand, HostCommand, ZoneAdd, ZoneDelete, HostClear, ZoneUpdate,
               ZoneClear, HostAdd, HostUpdate, HostDelete, Edit, Idle
      <3>2. ~ServiceCommand /\ ~Timer
        BY DEF ServiceCommand, SetParam, StartNamed, StopNamed, RestartNamed,
               ReloadNamed, Commit, Rollback, Timer, Idle
      <3>3. ~NamedEnds /\ ~NamedStarted
        BY DEF NamedEnds, NamedStarted, control
      <3>4. ~RestartDaemon
        BY DEF RestartDaemon, IInv, DnsTypeOK
      <3>5. ~EndWrite /\ \A k \in Zone : ~WriteZone(k) /\ ~FreezeFails(k) /\ ~ThawFails(k)
        BY DEF EndWrite, WriteZone, FreezeFails, ThawFails
      <3>6. QED
        BY <3>1, <3>2, <3>3, <3>4, <3>5 DEF DnsNext, CommitStep
    <2>2. served' = Loaded
      BY <2>1 DEF Reload
    <2>3. conf = Names(DOMAIN zones)
          /\ \A k \in DOMAIN zones \ loose : zfile[k] = zones[k].hosts
      BY DEF IInv, ReadyToReload
    <2>4. {n \in Zone : served'[n] # NoFile} \subseteq Names(DOMAIN zones)
      BY <2>2, <2>3 DEF Loaded
    <2>5. ASSUME NEW k \in DOMAIN zones \ loose
          PROVE  served'[zones[k].name] = zones[k].hosts
      <3>1. zones[k].name = k /\ k \in Zone
        BY <2>5, ZonesDef DEF IInv, DnsTypeOK, Agrees, Named
      <3>2. k \in conf
        BY <2>3, <2>5, <3>1 DEF Names
      <3>3. QED
        BY <2>2, <2>3, <2>5, <3>1, <3>2 DEF Loaded
    <2>6. QED
      BY <2>4, <2>5
  <1>2. QED
    BY <1>1, Inductive, PTL DEF DnsSpec, ReloadServesZones

\* A commit that is not cut off removes the deleted zones and no other, and their
\* files if it looks in their directory, while the names of the zones are their
\* keys.
THEOREM CommitRemoves == DnsSpec => CommitRemovesDeleted
  <1> DEFINE Done ==
        pc = "writing" /\ todo = {} /\ pc' # "writing" /\ restarts' = restarts
          /\ (\A k \in DOMAIN zones : zones[k].name = k)
          => /\ DOMAIN zones' = Visible(zones)
             /\ ZonesHere => \A k \in DOMAIN zones \ DOMAIN zones' :
                               zfile'[k] = NoFile
  <1>1. IInv /\ [DnsNext]_dnsvars => [Done]_dnsvars
    <2> SUFFICES ASSUME IInv, DnsNext, pc = "writing", todo = {}, pc' # "writing",
                        restarts' = restarts,
                        \A k \in DOMAIN zones : zones[k].name = k
                 PROVE  /\ DOMAIN zones' = Visible(zones)
                        /\ ZonesHere => \A k \in DOMAIN zones \ DOMAIN zones' :
                                          zfile'[k] = NoFile
      OBVIOUS
    <2>1. EndWrite
      <3>1. ~ZoneCommand /\ ~HostCommand
        BY DEF ZoneCommand, HostCommand, ZoneAdd, ZoneDelete, HostClear, ZoneUpdate,
               ZoneClear, HostAdd, HostUpdate, HostDelete, Edit, Idle
      <3>2. ~ServiceCommand /\ ~Timer
        BY DEF ServiceCommand, SetParam, StartNamed, StopNamed, RestartNamed,
               ReloadNamed, Commit, Rollback, Timer, Idle
      <3>3. ~NamedEnds /\ ~NamedStarted
        BY DEF NamedEnds, NamedStarted, control
      <3>4. ~RestartDaemon
        BY DEF RestartDaemon, IInv, DnsTypeOK
      <3>5. ~Reload /\ \A k \in Zone : ~WriteZone(k) /\ ~FreezeFails(k) /\ ~ThawFails(k)
        BY DEF Reload, WriteZone, FreezeFails, ThawFails
      <3>6. QED
        BY <3>1, <3>2, <3>3, <3>4, <3>5 DEF DnsNext, CommitStep
    <2>2. DOMAIN zones' = DOMAIN zones \ Removed
      BY <2>1, Found, WithoutZones DEF EndWrite
    <2>3. AllNamed /\ AllRemoved
      BY RemovedZones DEF AllNamed
    <2>4. \A j \in DOMAIN zones : j \in Removed <=> zones[j].delete
      BY <2>3, RemovedZones DEF AllNamed
    <2>5. Visible(zones) = {j \in DOMAIN zones : ~zones[j].delete}
      BY Found
    <2>6. DOMAIN zones' = Visible(zones)
      BY <2>2, <2>4, <2>5
    <2>7. zfile' = zfile
      BY <2>1 DEF EndWrite
    <2>8. ZonesHere => \A k \in DOMAIN zones \ DOMAIN zones' : zfile[k] = NoFile
      BY <2>2, <2>3, <2>4 DEF IInv, GoneIsDeleted
    <2>9. QED
      BY <2>6, <2>7, <2>8
  <1>2. QED
    BY <1>1, Inductive, PTL DEF DnsSpec, CommitRemovesDeleted
=============================================================================

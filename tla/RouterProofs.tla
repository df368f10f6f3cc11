---------------------------- MODULE RouterProofs ----------------------------
(***************************************************************************)
(* Proofs about Router, for any devices, connections, addresses, routes    *)
(* and classes, and any number of commands and events.                     *)
(***************************************************************************)
EXTENDS Router, TLAPS

\* A connection that will be taken to run after a rollback or by the next daemon
\* has a peers file as well.
SavedCanStart == \A n \in DOMAIN pppsaved : pppsaved[n].running => peers[n] # None

\* What the last commit saved is still what is saved, or known not to be.
SavedIsCommitted == committed \in {None, DataOf(pppsaved)}

PppInv == PppTypeOK /\ SavedCanStart /\ SavedIsCommitted

OwnTypeOK == /\ alive \in BOOLEAN
             /\ rolledback \in BOOLEAN
             /\ edits \in 0..MaxEdits

IInv == NetworkTypeOK /\ IpTypeOK /\ PppInv /\ QosTypeOK /\ OwnTypeOK

USE NetworkAssumption, PppAssumption, RouterAssumption DEF Dev

-----------------------------------------------------------------------------
\* Dictionaries of devices and of connections.
Links == UNION {[ds -> Link] : ds \in SUBSET Dev}

LEMMA LinksDef ==
    /\ \A l \in Links : /\ DOMAIN l \subseteq Dev
                        /\ \A d \in DOMAIN l : l[d] \in Link
                        /\ l = [d \in DOMAIN l |-> l[d]]
    /\ \A ds \in SUBSET Dev : \A l \in [ds -> Link] : l \in Links
BY DEF Links

LEMMA DevicesDef ==
    /\ \A ds \in IpDevices : /\ DOMAIN ds \subseteq Dev
                             /\ \A d \in DOMAIN ds : ds[d] \in IpDevice
                             /\ ds = [d \in DOMAIN ds |-> ds[d]]
    /\ \A ks \in SUBSET Dev : \A ds \in [ks -> IpDevice] : ds \in IpDevices
BY DEF IpDevices

Conn == [data : Data, running : BOOLEAN]

LEMMA ConnsDef ==
    /\ \A cs \in Conns : /\ DOMAIN cs \subseteq Ppp
                         /\ \A n \in DOMAIN cs : cs[n] \in Conn
                         /\ cs = [n \in DOMAIN cs |-> cs[n]]
    /\ \A ns \in SUBSET Ppp : \A cs \in [ns -> Conn] : cs \in Conns
BY DEF Conns, Conn

LEMMA ShapesDef ==
    /\ \A ss \in Shapes : /\ DOMAIN ss \subseteq Dev
                          /\ \A d \in DOMAIN ss : ss[d] \in SUBSET Class
    /\ \A ds \in SUBSET Dev : \A ss \in [ds -> SUBSET Class] : ss \in Shapes
BY DEF Shapes

\* A device that has just come, and one whose attributes were changed.
LEMMA LinkValues ==
    /\ \A addrs \in SUBSET Addr : Plugged(addrs) \in Link
    /\ \A l \in Link, device \in IpDevice : \A no :
          /\ Configured(l, device, no) \in Link
          /\ Configured(l, device, no).addrs \subseteq device.addrs
          /\ Configured(l, device, no).classes = l.classes
    /\ \A l \in Link, cs \in SUBSET Class : \A no :
          /\ Shaped(l, cs, no) \in Link
          /\ Shaped(l, cs, no).classes \subseteq cs
          /\ Shaped(l, cs, no).addrs = l.addrs
  <1>1. \A addrs \in SUBSET Addr : Plugged(addrs) \in Link
    BY DEF Plugged, Link
  <1>2. ASSUME NEW l \in Link, NEW device \in IpDevice, NEW no
        PROVE  /\ Configured(l, device, no) \in Link
               /\ Configured(l, device, no).addrs \subseteq device.addrs
               /\ Configured(l, device, no).classes = l.classes
    BY DEF Configured, Link, IpDevice
  <1>3. ASSUME NEW l \in Link, NEW cs \in SUBSET Class, NEW no
        PROVE  /\ Shaped(l, cs, no) \in Link
               /\ Shaped(l, cs, no).classes \subseteq cs
               /\ Shaped(l, cs, no).addrs = l.addrs
    BY DEF Shaped, Link
  <1>4. QED
    BY <1>1, <1>2, <1>3

\* What ip and qos do to the devices.
LEMMA ConfigureKeeps ==
    ASSUME NEW l \in Links, devices \in IpDevices, NEW ds, ds \subseteq Known, NEW no
    PROVE  /\ Configure(l, ds, no) \in Links
           /\ DOMAIN Configure(l, ds, no) = DOMAIN l
           /\ \A d \in DOMAIN l : /\ Configure(l, ds, no)[d].classes = l[d].classes
                                  /\ d \notin ds => Configure(l, ds, no)[d] = l[d]
           /\ \A d \in DOMAIN l \cap ds :
                 Configure(l, ds, no)[d].addrs \subseteq devices[d].addrs
  <1>1. \A d \in DOMAIN l : l[d] \in Link
    BY LinksDef
  <1>2. \A d \in ds : devices[d] \in IpDevice
    BY DevicesDef DEF Known
  <1>3. Configure(l, ds, no) \in [DOMAIN l -> Link]
    BY <1>1, <1>2, LinkValues DEF Configure
  <1>4. DOMAIN l \in SUBSET Dev
    BY LinksDef
  <1>5. \A d \in DOMAIN l : /\ Configure(l, ds, no)[d].classes = l[d].classes
                            /\ d \notin ds => Configure(l, ds, no)[d] = l[d]
    BY <1>1, <1>2, LinkValues DEF Configure
  <1>6. \A d \in DOMAIN l \cap ds : Configure(l, ds, no)[d].addrs \subseteq devices[d].addrs
    BY <1>1, <1>2, LinkValues DEF Configure
  <1>7. QED
    BY <1>3, <1>4, <1>5, <1>6, LinksDef

LEMMA ShapeKeeps ==
    ASSUME NEW l \in Links, NEW ss \in Shapes, NEW no
    PROVE  /\ ShapeAll(l, ss, no) \in Links
           /\ DOMAIN ShapeAll(l, ss, no) = DOMAIN l
           /\ \A d \in DOMAIN l : /\ ShapeAll(l, ss, no)[d].addrs = l[d].addrs
                                  /\ d \notin DOMAIN ss => ShapeAll(l, ss, no)[d] = l[d]
           /\ \A d \in DOMAIN l \cap DOMAIN ss :
                 ShapeAll(l, ss, no)[d].classes \subseteq ss[d]
  <1>1. \A d \in DOMAIN l : l[d] \in Link
    BY LinksDef
  <1>2. \A d \in DOMAIN ss : ss[d] \in SUBSET Class
    BY ShapesDef
  <1>3. ShapeAll(l, ss, no) \in [DOMAIN l -> Link]
    BY <1>1, <1>2, LinkValues DEF ShapeAll
  <1>4. DOMAIN l \in SUBSET Dev
    BY LinksDef
  <1>5. \A d \in DOMAIN l : /\ ShapeAll(l, ss, no)[d].addrs = l[d].addrs
                            /\ d \notin DOMAIN ss => ShapeAll(l, ss, no)[d] = l[d]
    BY <1>1, <1>2, LinkValues DEF ShapeAll
  <1>6. \A d \in DOMAIN l \cap DOMAIN ss : ShapeAll(l, ss, no)[d].classes \subseteq ss[d]
    BY <1>1, <1>2, LinkValues DEF ShapeAll
  <1>7. QED
    BY <1>3, <1>4, <1>5, <1>6, LinksDef

-----------------------------------------------------------------------------
\* One service at a time: what leaves a service alone keeps its invariant.
LEMMA NetworkOther ==
    NetworkTypeOK /\ UNCHANGED network => NetworkTypeOK'
BY DEF NetworkTypeOK, network

LEMMA IpOther == IpTypeOK /\ UNCHANGED ipvars => IpTypeOK'
BY DEF IpTypeOK, ipvars

LEMMA QosOther == QosTypeOK /\ UNCHANGED qosvars => QosTypeOK'
BY DEF QosTypeOK, qosvars

LEMMA PppOther ==
    PppInv /\ UNCHANGED pppvars /\ Seen' \cap Ppp = Seen \cap Ppp => PppInv'
  <1> SUFFICES ASSUME PppInv, UNCHANGED pppvars, Seen' \cap Ppp = Seen \cap Ppp
               PROVE  PppInv'
    OBVIOUS
  <1>1. UNCHANGED <<conns, pppd, peers, pppsaved, committed>>
    BY DEF pppvars
  <1>2. PppTypeOK'
    BY <1>1 DEF PppInv, PppTypeOK, Running
  <1>3. QED
    BY <1>1, <1>2 DEF PppInv, SavedCanStart, SavedIsCommitted

LEMMA EditsTyped ==
    edits \in 0..MaxEdits /\ (Counted \/ UNCHANGED edits) => edits' \in 0..MaxEdits
BY DEF Counted

\* The devices that are there, of a network of the right type.
LEMMA SeenDevices ==
    ASSUME NetworkTypeOK
    PROVE  link \in Links /\ Seen \subseteq Dev /\ \A d \in Seen : link[d] \in Link
BY LinksDef DEF NetworkTypeOK, Seen, Links

\* Devices go and come.
LEMMA ChangeKeeps ==
    ASSUME NetworkTypeOK, NEW going, NEW coming \in SUBSET Dev,
           NEW addrs \in SUBSET Addr, Change(going, coming, addrs),
           events' \in 0..MaxEvents
    PROVE  NetworkTypeOK' /\ Seen' = (Seen \ going) \cup coming
  <1>1. link' = [d \in (Seen \ going) \cup coming |->
                    IF d \in coming THEN Plugged(addrs) ELSE link[d]]
    BY DEF Change
  <1>2. (Seen \ going) \cup coming \in SUBSET Dev
    BY SeenDevices
  <1>3. link' \in [(Seen \ going) \cup coming -> Link]
    BY <1>1, SeenDevices, LinkValues
  <1>4. link' \in Links
    BY <1>2, <1>3, LinksDef
  <1>5. routes' \in SUBSET Route /\ default' \in BOOLEAN /\ refused' \in SUBSET Dev
    BY DEF Change, NetworkTypeOK
  <1>6. Seen' = (Seen \ going) \cup coming
    BY <1>1 DEF Seen
  <1>7. QED
    BY <1>4, <1>5, <1>6 DEF NetworkTypeOK, Links

-----------------------------------------------------------------------------
LEMMA InitIInv == Init => IInv
  <1> SUFFICES ASSUME Init PROVE IInv
    OBVIOUS
  <1>1. NetworkTypeOK /\ Seen = Eth
    <2>1. link = [d \in Eth |-> Plugged({})] /\ Seen = Eth
      BY DEF Init, NetworkInit, Seen
    <2>2. link \in [Eth -> Link]
      BY <2>1, LinkValues
    <2>3. link \in Links
      BY <2>2, LinksDef
    <2>4. events \in 0..MaxEvents /\ routes \in SUBSET Route
      BY DEF Init, NetworkInit
    <2>5. default = FALSE /\ refused = {}
      BY DEF Init, NetworkInit
    <2>6. QED
      BY <2>1, <2>3, <2>4, <2>5 DEF NetworkTypeOK, Links
  <1>2. IpTypeOK
    <2>1. devices \in [Eth -> IpDevice]
      BY <1>1 DEF Init, IpInit, NewDevice, IpDevice
    <2>2. devices \in IpDevices
      BY <2>1, DevicesDef
    <2>3. QED
      BY <2>2 DEF Init, IpInit, IpTypeOK, IpSaved
  <1>3. PppInv
    <2>1. conns = Empty /\ pppsaved = Empty /\ committed = Empty /\ DOMAIN Empty = {}
      BY DEF Init, PppInit, Empty
    <2>2. Empty \in Conns
      <3>1. Empty \in [{} -> Conn]
        BY DEF Empty
      <3>2. QED
        BY <3>1, ConnsDef
    <2>3. \A n \in Ppp : pppd[n] = None /\ n \notin Seen /\ n \notin Running
      BY <1>1, <2>1 DEF Init, PppInit, Running
    <2>4. PppTypeOK
      BY <2>1, <2>2, <2>3 DEF Init, PppInit, PppTypeOK
    <2>5. DataOf(Empty) = Empty
      BY DEF DataOf, Empty
    <2>6. QED
      BY <2>1, <2>4, <2>5 DEF PppInv, SavedCanStart, SavedIsCommitted
  <1>4. QosTypeOK
    <2>1. shaped \in [Eth -> SUBSET Class]
      BY <1>1 DEF Init, QosInit
    <2>2. shaped \in Shapes
      BY <2>1, ShapesDef
    <2>3. QED
      BY <2>2 DEF Init, QosInit, QosTypeOK
  <1>5. edits \in 0..MaxEdits
    BY DEF Init
  <1>6. alive = TRUE /\ rolledback = FALSE
    BY DEF Init
  <1>7. QED
    BY <1>1, <1>2, <1>3, <1>4, <1>5, <1>6 DEF IInv, OwnTypeOK

-----------------------------------------------------------------------------
\* The commands and the timer of ip.
LEMMA ConfigureTyped ==
    ASSUME NetworkTypeOK, IpTypeOK, NEW ds, ds \subseteq Known, NEW no,
           link' = Configure(link, ds, no), UNCHANGED events,
           refused' \in SUBSET Dev, UNCHANGED routes \/ BringUp(nodev),
           default' \in BOOLEAN
    PROVE  NetworkTypeOK' /\ Seen' = Seen
  <1>1. link' \in Links /\ DOMAIN link' = DOMAIN link
    BY SeenDevices, ConfigureKeeps DEF IpTypeOK
  <1>2. routes' \in SUBSET Route
    BY DEF NetworkTypeOK, IpTypeOK, BringUp
  <1>3. QED
    BY <1>1, <1>2 DEF NetworkTypeOK, Seen, Links

\* A device is set up or down.
LEMMA LinkIsSet ==
    ASSUME NetworkTypeOK, NEW d \in Seen, NEW l \in Link,
           link' = [link EXCEPT ![d] = l], routes' \in SUBSET Route,
           UNCHANGED <<default, refused, events>>
    PROVE  NetworkTypeOK' /\ Seen' = Seen
  <1>1. link' \in [Seen -> Link] /\ DOMAIN link' = Seen
    BY SeenDevices, LinksDef DEF Seen
  <1>2. link' \in Links
    BY <1>1, SeenDevices, LinksDef
  <1>3. QED
    BY <1>1, <1>2 DEF NetworkTypeOK, Seen, Links

LEMMA IpStepKeeps == ASSUME IInv, IpStep PROVE IInv'
  <1>1. NetworkTypeOK /\ IpTypeOK /\ devices \in IpDevices
    BY DEF IInv, IpTypeOK
  <1>2. UNCHANGED <<pppvars, qosvars, alive>>
    BY DEF IpStep
  <1>3. OwnTypeOK'
    <2>1. rolledback' \in BOOLEAN /\ (Counted \/ UNCHANGED edits)
      BY DEF IInv, OwnTypeOK, IpStep
    <2>2. QED
      BY <1>2, <2>1, EditsTyped DEF IInv, OwnTypeOK
  <1>4. IpTypeOK' /\ NetworkTypeOK' /\ Seen' = Seen
    <2>1. CASE IpEdit
      <3>1. UNCHANGED network
        BY <2>1 DEF IpEdit, AddrsOf, RoutesOf, Hops, NoDevRoutes
      <3>2. NetworkTypeOK' /\ Seen' = Seen
        BY <1>1, <3>1, NetworkOther DEF network, Seen
      <3>3. ASSUME NEW d \in Dev, NEW device \in IpDevice, d \in Known,
                   devices' = [devices EXCEPT ![d] = device],
                   UNCHANGED <<hops, nodev, ipsaved>>
            PROVE  IpTypeOK'
        <4>1. devices' \in [DOMAIN devices -> IpDevice] /\ DOMAIN devices \in SUBSET Dev
          BY <1>1, <3>3, DevicesDef
        <4>2. QED
          BY <1>1, <3>3, <4>1, DevicesDef DEF IpTypeOK
      <3>4. ASSUME NEW d \in Dev, NEW addrs \in SUBSET Addr, AddrsOf(d, addrs)
            PROVE  IpTypeOK'
        <4>1. d \in Known /\ devices[d] \in IpDevice
          BY <1>1, <3>4, DevicesDef DEF AddrsOf, Known
        <4>2. [devices[d] EXCEPT !.addrs = addrs] \in IpDevice
          BY <4>1 DEF IpDevice
        <4>3. QED
          BY <3>3, <3>4, <4>1, <4>2 DEF AddrsOf
      <3>5. ASSUME NEW d \in Dev, NEW rs \in SUBSET Route, RoutesOf(d, rs)
            PROVE  IpTypeOK'
        <4>1. d \in Known /\ devices[d] \in IpDevice
          BY <1>1, <3>5, DevicesDef DEF RoutesOf, Known
        <4>2. [devices[d] EXCEPT !.routes = rs] \in IpDevice
          BY <4>1 DEF IpDevice
        <4>3. QED
          BY <3>3, <3>5, <4>1, <4>2 DEF RoutesOf
      <3>6. ASSUME NEW d \in Dev, Hops(d) PROVE IpTypeOK'
        BY <1>1, <3>6 DEF IpTypeOK, Hops
      <3>7. ASSUME NEW r \in Route, NoDevRoutes(r) PROVE IpTypeOK'
        BY <1>1, <3>7 DEF IpTypeOK, NoDevRoutes
      <3>8. QED
        BY <2>1, <3>2, <3>4, <3>5, <3>6, <3>7 DEF IpEdit
    <2>2. CASE \E d \in Dev : DeviceUp(d) \/ DeviceDown(d)
      <3>1. IpTypeOK' /\ routes' \in SUBSET Route /\ UNCHANGED <<default, refused, events>>
        BY <1>1, <2>2, IpOther DEF DeviceUp, DeviceDown, BringUp, NetworkTypeOK,
           IpTypeOK
      <3>2. PICK d \in Dev : DeviceUp(d) \/ DeviceDown(d)
        BY <2>2
      <3>3. d \in Seen /\ link[d] \in Link /\ devices[d] \in IpDevice
        BY <1>1, <3>2, SeenDevices, DevicesDef DEF DeviceUp, DeviceDown, Known
      <3>4. \E l \in Link : link' = [link EXCEPT ![d] = l]
        <4>1. CASE DeviceUp(d)
          <5>0. PICK new \in SUBSET devices[d].routes :
                    link' = [link EXCEPT ![d].up = TRUE, ![d].routes = @ \cup new]
            BY <4>1 DEF DeviceUp
          <5> DEFINE l == [link[d] EXCEPT !.up = TRUE, !.routes = @ \cup new]
          <5>1. l \in Link
            BY <3>3 DEF Link, IpDevice
          <5>2. link' = [link EXCEPT ![d] = l]
            BY <3>3, <5>0 DEF Link
          <5>3. QED
            BY <5>1, <5>2
        <4>2. CASE DeviceDown(d)
          <5> DEFINE l == [link[d] EXCEPT !.up = FALSE, !.routes = {}]
          <5>1. l \in Link
            BY <3>3 DEF Link
          <5>2. link' = [link EXCEPT ![d] = l]
            BY <3>3, <4>2 DEF DeviceDown, Link
          <5>3. QED
            BY <5>1, <5>2
        <4>3. QED
          BY <3>2, <4>1, <4>2
      <3>5. QED
        BY <1>1, <3>1, <3>3, <3>4, LinkIsSet
    <2>3. CASE IpCommit
      <3>1. IpTypeOK'
        BY <1>1, <2>3 DEF IpTypeOK, IpSaved, IpCommit
      <3>2. default' \in BOOLEAN /\ refused' \in SUBSET Dev
        BY <1>1, <2>3 DEF IpCommit, WriteHops, NetworkTypeOK
      <3>3. PICK no : link' = Configure(link, Active \cap Seen, no)
        BY <2>3 DEF IpCommit
      <3>4. Active \cap Seen \subseteq Known /\ UNCHANGED events /\ BringUp(nodev)
        BY <2>3 DEF IpCommit, Active
      <3>5. QED
        BY <1>1, <3>1, <3>2, <3>3, <3>4, ConfigureTyped
    <2>4. CASE IpRollback
      <3>1. IpTypeOK'
        BY <1>1, <2>4 DEF IpTypeOK, IpSaved, IpRollback
      <3>2. QED
        BY <1>1, <2>4, <3>1, NetworkOther DEF IpRollback, network, Seen
    <2>5. QED
      BY <2>1, <2>2, <2>3, <2>4 DEF IpStep
  <1>5. PppInv' /\ QosTypeOK'
    BY <1>2, <1>4, PppOther, QosOther DEF IInv
  <1>6. QED
    BY <1>3, <1>2, <1>4, <1>5 DEF IInv

-----------------------------------------------------------------------------
\* Connections have no flags: they are added, updated and deleted at once.
LEMMA ConnFlags ==
    ASSUME NEW c \in Conn, NEW v \in BOOLEAN
    PROVE  /\ ~HasFlag(c, "delete") /\ ~Gone(c)
           /\ SetFlag(c, "add", v) = c /\ SetFlag(c, "update", v) = c
BY DEF Conn, HasFlag, SetFlag, Gone

LEMMA VisibleConns == ASSUME PppInv PROVE Visible(conns) = DOMAIN conns
  <1>1. \A n \in DOMAIN conns : conns[n] \in Conn
    BY ConnsDef DEF PppInv, PppTypeOK
  <1>2. QED
    BY <1>1, ConnFlags DEF Visible

\* Connections change in memory alone: none is taken to run but those that were.
LEMMA ConnsChange ==
    ASSUME PppInv, conns' \in Conns,
           \A n \in DOMAIN conns' : conns'[n].running => peers[n] # None,
           UNCHANGED <<link, pppd, peers, pppsaved, committed>>
    PROVE  PppInv'
  <1>1. PppTypeOK'
    <2>1. \A n \in Ppp : pppd'[n] # None \/ n \in Running' => peers'[n] # None
      BY DEF PppInv, PppTypeOK, Running
    <2>2. \A n \in Ppp : pppd'[n] # None <=> n \in Seen'
      BY DEF PppInv, PppTypeOK, Seen
    <2>3. QED
      BY <2>1, <2>2 DEF PppInv, PppTypeOK
  <1>2. QED
    BY <1>1 DEF PppInv, SavedCanStart, SavedIsCommitted

LEMMA PutConn ==
    ASSUME PppInv, NEW n \in Ppp, NEW c \in Conn, c.running => peers[n] # None,
           Connections(Put(conns, n, c))
    PROVE  PppInv'
  <1>1. /\ conns' = [j \in DOMAIN conns \cup {n} |-> IF j = n THEN c ELSE conns[j]]
        /\ UNCHANGED <<link, pppd, peers, pppsaved, committed>>
    BY DEF Connections, Put, network
  <1>2. /\ DOMAIN conns \subseteq Ppp /\ \A j \in DOMAIN conns : conns[j] \in Conn
        /\ \A j \in DOMAIN conns : conns[j].running => peers[j] # None
    BY ConnsDef DEF PppInv, PppTypeOK, Running
  <1>3. conns' \in [DOMAIN conns \cup {n} -> Conn]
    BY <1>1, <1>2
  <1>4. conns' \in Conns
    BY <1>2, <1>3, ConnsDef
  <1>5. \A j \in DOMAIN conns' : conns'[j].running => peers[j] # None
    BY <1>1, <1>2
  <1>6. QED
    BY <1>1, <1>4, <1>5, ConnsChange

LEMMA PppEditKeeps == ASSUME PppInv, PppEdit PROVE PppInv' /\ UNCHANGED network
  <1>1. /\ DOMAIN conns \subseteq Ppp /\ \A n \in DOMAIN conns : conns[n] \in Conn
        /\ \A n \in DOMAIN conns : conns[n].running => peers[n] # None
        /\ Visible(conns) = DOMAIN conns
    BY ConnsDef, VisibleConns DEF PppInv, PppTypeOK, Running
  <1>2. ASSUME NEW n \in Ppp, NEW x \in NewData, ConnAdd(n, x)
        PROVE  PppInv' /\ UNCHANGED network
    <2> DEFINE c == [data |-> x, running |-> FALSE]
    <2>1. c \in Conn /\ c.running = FALSE
      BY DEF Conn
    <2>2. n \notin DOMAIN conns
      BY <1>1, <1>2 DEF ConnAdd, CanAdd
    <2>3. AddItem(conns, n, c) = Put(conns, n, c)
      BY <2>1, <2>2, ConnFlags DEF AddItem
    <2>4. Connections(Put(conns, n, c))
      BY <1>2, <2>3 DEF ConnAdd
    <2>5. QED
      BY <2>1, <2>4, PutConn DEF Connections
  <1>3. ASSUME NEW n \in Ppp, NEW x \in Data, ConnUpdate(n, x)
        PROVE  PppInv' /\ UNCHANGED network
    <2> DEFINE c == [conns[n] EXCEPT !.data = x]
    <2>1. n \in DOMAIN conns
      BY <1>1, <1>3 DEF ConnUpdate
    <2>2. c \in Conn /\ c.running = conns[n].running
      BY <1>1, <2>1 DEF Conn
    <2>3. UpdateItem(conns, n, c) = Put(conns, n, c)
      BY <2>2, ConnFlags DEF UpdateItem
    <2>4. Connections(Put(conns, n, c))
      BY <1>3, <2>3 DEF ConnUpdate
    <2>5. QED
      BY <1>1, <2>1, <2>2, <2>4, PutConn DEF Connections
  <1>4. ASSUME NEW n \in Ppp, ConnDelete(n) PROVE PppInv' /\ UNCHANGED network
    <2>1. n \in DOMAIN conns /\ ~HasFlag(conns[n], "delete")
      BY <1>1, <1>4, ConnFlags DEF ConnDelete
    <2>2. /\ conns' = [j \in DOMAIN conns \ {n} |-> conns[j]]
          /\ UNCHANGED <<network, pppd, peers, pppsaved, committed>>
      BY <1>4, <2>1 DEF ConnDelete, DeleteItem, Without, Connections
    <2>3. conns' \in [DOMAIN conns \ {n} -> Conn] /\ DOMAIN conns \ {n} \in SUBSET Ppp
      BY <1>1, <2>2
    <2>4. conns' \in Conns
      BY <2>3, ConnsDef
    <2>5. QED
      BY <1>1, <2>2, <2>4, ConnsChange DEF network
  <1>5. CASE ConnClear
    <2>1. conns' = Empty /\ UNCHANGED <<network, pppd, peers, pppsaved, committed>>
      BY <1>5 DEF ConnClear, Connections, Cleared
    <2>2. Empty \in [{} -> Conn] /\ DOMAIN Empty = {}
      BY DEF Empty
    <2>3. Empty \in Conns
      BY <2>2, ConnsDef
    <2>4. QED
      BY <2>1, <2>2, <2>3, ConnsChange DEF network
  <1>6. QED
    BY <1>2, <1>3, <1>4, <1>5 DEF PppEdit

\* Connections are started and stopped.
LEMMA ProcessesKeep ==
    ASSUME NetworkTypeOK, PppInv, NEW down, NEW up, up \subseteq DOMAIN conns,
           NEW files \in [Ppp -> Data \cup {None}], Processes(down, up, files),
           \A n \in Ppp : peers[n] # None => files[n] # None,
           peers' = files, committed' \in {None, DataOf(conns)}, UNCHANGED events
    PROVE  NetworkTypeOK' /\ PppInv'
  <1>1. /\ conns \in Conns /\ DOMAIN conns \subseteq Ppp
        /\ \A n \in DOMAIN conns : conns[n] \in Conn
        /\ pppd \in [Ppp -> Data \cup {None}]
        /\ \A n \in Ppp : pppd[n] # None <=> n \in Seen
        /\ \A n \in Ppp : pppd[n] # None \/ n \in Running => peers[n] # None
    BY ConnsDef DEF PppInv, PppTypeOK
  <1>2. /\ \A n \in up : files[n] # None
        /\ pppd' = [n \in Ppp |-> IF n \in up THEN files[n]
                                  ELSE IF n \in down THEN None ELSE pppd[n]]
        /\ conns' = [n \in DOMAIN conns |->
                       [conns[n] EXCEPT !.running = n \in up \/ (@ /\ n \notin down)]]
        /\ pppsaved' = conns'
    BY DEF Processes
  <1> DEFINE going == {n \in down : pppd[n] # None}
  <1>3. PICK a \in Addr : Change(going, up, {a})
    BY DEF Processes
  <1>4. NetworkTypeOK' /\ Seen' = (Seen \ going) \cup up
    <2>1. up \in SUBSET Dev /\ events' \in 0..MaxEvents /\ {a} \in SUBSET Addr
      BY <1>1, <1>3 DEF NetworkTypeOK
    <2> HIDE DEF going
    <2>2. QED
      BY <1>3, <2>1, ChangeKeeps
  <1>5. pppd' \in [Ppp -> Data \cup {None}]
    BY <1>1, <1>2
  <1>6. \A n \in Ppp : pppd'[n] # None <=> n \in Seen'
    BY <1>1, <1>2, <1>4
  <1>7. \A n \in DOMAIN conns :
           /\ conns'[n] \in Conn /\ conns'[n].data = conns[n].data
           /\ conns'[n].running => n \in up \/ conns[n].running
    BY <1>1, <1>2 DEF Conn
  <1>8. conns' \in Conns
    <2>1. conns' \in [DOMAIN conns -> Conn]
      BY <1>2, <1>7
    <2>2. QED
      BY <1>1, <2>1, ConnsDef
  <1>9. DataOf(conns') = DataOf(conns)
    BY <1>2, <1>7 DEF DataOf
  <1>10. \A n \in DOMAIN conns' : conns'[n].running => peers'[n] # None
    BY <1>1, <1>2, <1>7 DEF Running
  <1>11. \A n \in Ppp : pppd'[n] # None \/ n \in Running' => peers'[n] # None
    <2>1. \A n \in Ppp : n \in Running' => peers'[n] # None
      BY <1>10 DEF Running
    <2>2. \A n \in Ppp : pppd'[n] # None => peers'[n] # None
      BY <1>1, <1>2
    <2>3. QED
      BY <2>1, <2>2
  <1>12. PppTypeOK'
    BY <1>2, <1>5, <1>6, <1>8, <1>11 DEF PppTypeOK
  <1>13. SavedCanStart'
    BY <1>2, <1>10 DEF SavedCanStart
  <1>14. SavedIsCommitted'
    BY <1>2, <1>9 DEF SavedIsCommitted
  <1>15. QED
    BY <1>4, <1>12, <1>13, <1>14 DEF PppInv

\* A start, a stop or a restart saves what there is in memory.
LEMMA LeakTyped == ASSUME PppInv, Leak PROVE committed' \in {None, DataOf(conns)}
BY DEF PppInv, SavedIsCommitted, Leak

LEMMA BounceKeeps ==
    ASSUME NetworkTypeOK, PppInv, NEW ns, ns \subseteq DOMAIN conns, NEW ok, NEW bad,
           Bounce(ns, ok, bad)
    PROVE  NetworkTypeOK' /\ PppInv'
  <1>1. /\ Processes((ok \cup bad) \cap Running, ok, peers) /\ ok \subseteq DOMAIN conns
        /\ peers' = peers /\ UNCHANGED events /\ Leak
    BY DEF Bounce, Rerun
  <1>2. peers \in [Ppp -> Data \cup {None}]
    BY DEF PppInv, PppTypeOK
  <1>3. QED
    BY <1>1, <1>2, LeakTyped, ProcessesKeep

LEMMA WrittenTyped ==
    ASSUME PppInv
    PROVE  /\ Written \in [Ppp -> Data \cup {None}]
           /\ \A n \in Ppp : peers[n] # None => Written[n] # None
           /\ \A n \in DOMAIN conns : Written[n] = conns[n].data
  <1>1. /\ DOMAIN conns \subseteq Ppp /\ \A n \in DOMAIN conns : conns[n] \in Conn
        /\ peers \in [Ppp -> Data \cup {None}]
    BY ConnsDef DEF PppInv, PppTypeOK
  <1>2. QED
    BY <1>1 DEF Written, Conn

LEMMA PppCommandKeeps ==
    ASSUME NetworkTypeOK, PppInv, PppCommand
    PROVE  NetworkTypeOK' /\ PppInv'
  <1>1. peers \in [Ppp -> Data \cup {None}] /\ Running \subseteq DOMAIN conns
    BY DEF PppInv, PppTypeOK, Running
  <1>2. ASSUME NEW up, PppStart(up) PROVE NetworkTypeOK' /\ PppInv'
    <2>1. /\ up \subseteq DOMAIN conns /\ Processes({}, up, peers) /\ Leak
          /\ peers' = peers /\ UNCHANGED events
      BY <1>2 DEF PppStart
    <2>2. QED
      BY <1>1, <2>1, LeakTyped, ProcessesKeep
  <1>3. ASSUME NEW down, PppStop(down) PROVE NetworkTypeOK' /\ PppInv'
    <2>1. /\ Processes(down, {}, peers) /\ Leak
          /\ peers' = peers /\ UNCHANGED events
      BY <1>3 DEF PppStop
    <2>2. QED
      BY <1>1, <2>1, LeakTyped, ProcessesKeep
  <1>4. ASSUME NEW ok, NEW bad, PppRestart(ok, bad) \/ PppReload(ok, bad)
        PROVE  NetworkTypeOK' /\ PppInv'
    BY <1>1, <1>4, BounceKeeps DEF PppRestart, PppReload
  <1>5. ASSUME NEW ok, NEW bad, PppCommit(ok, bad) PROVE NetworkTypeOK' /\ PppInv'
    <2>1. /\ Processes((ok \cup bad) \cap Running, ok, peers')
          /\ ok \subseteq DOMAIN conns /\ peers' = Written
          /\ committed' = DataOf(conns) /\ UNCHANGED events
      BY <1>1, <1>5 DEF PppCommit, Rerun
    <2>2. Processes((ok \cup bad) \cap Running, ok, Written)
      BY <2>1 DEF Processes
    <2>3. committed' \in {None, DataOf(conns)}
      BY <2>1
    <2>4. QED
      BY <2>1, <2>2, <2>3, WrittenTyped, ProcessesKeep
  <1>6. CASE PppRollback
    <2>1. /\ conns' = pppsaved
          /\ UNCHANGED <<network, pppd, peers, pppsaved, committed>>
      BY <1>6 DEF PppRollback
    <2>2. conns' \in Conns /\ \A n \in DOMAIN conns' : conns'[n].running => peers[n] # None
      BY <2>1 DEF PppInv, PppTypeOK, SavedCanStart
    <2>3. QED
      BY <2>1, <2>2, ConnsChange, NetworkOther DEF network
  <1>7. QED
    BY <1>2, <1>3, <1>4, <1>5, <1>6 DEF PppCommand

LEMMA PppStepKeeps == ASSUME IInv, PppStep PROVE IInv'
  <1>1. NetworkTypeOK /\ PppInv
    BY DEF IInv
  <1>2. UNCHANGED <<ipvars, qosvars, alive, rolledback>>
    BY DEF PppStep
  <1>3. NetworkTypeOK' /\ PppInv'
    BY <1>1, PppEditKeeps, PppCommandKeeps, NetworkOther DEF PppStep
  <1>4. IpTypeOK' /\ QosTypeOK'
    BY <1>2, IpOther, QosOther DEF IInv
  <1>5. OwnTypeOK'
    <2>1. Counted \/ UNCHANGED edits
      BY DEF PppStep
    <2>2. QED
      BY <1>2, <2>1, EditsTyped DEF IInv, OwnTypeOK
  <1>6. QED
    BY <1>3, <1>4, <1>5 DEF IInv

-----------------------------------------------------------------------------
\* The commands of qos.
LEMMA ShapeTyped ==
    ASSUME NetworkTypeOK, QosTypeOK, NEW no, link' = ShapeAll(link, shaped, no),
           UNCHANGED <<routes, default, refused, events>>
    PROVE  NetworkTypeOK' /\ Seen' = Seen
  <1>1. link' \in Links /\ DOMAIN link' = DOMAIN link
    BY SeenDevices, ShapeKeeps DEF QosTypeOK
  <1>2. QED
    BY <1>1 DEF NetworkTypeOK, Seen, Links

LEMMA QosStepKeeps == ASSUME IInv, QosStep PROVE IInv'
  <1>1. NetworkTypeOK /\ QosTypeOK
    BY DEF IInv
  <1>2. UNCHANGED <<ipvars, pppvars, alive, rolledback>>
    BY DEF QosStep
  <1>3. NetworkTypeOK' /\ QosTypeOK' /\ Seen' = Seen
    <2>1. ASSUME NEW d \in Dev, NEW cs \in SUBSET Class, ClassesOf(d, cs)
          PROVE  NetworkTypeOK' /\ QosTypeOK' /\ Seen' = Seen
      <3>1. /\ shaped' = [shaped EXCEPT ![d] = cs] /\ d \in DOMAIN shaped
            /\ UNCHANGED <<network, qossaved>>
        BY <2>1 DEF ClassesOf
      <3>2. /\ DOMAIN shaped \in SUBSET Dev
            /\ \A e \in DOMAIN shaped : shaped[e] \in SUBSET Class
        BY <1>1, ShapesDef DEF QosTypeOK
      <3>3. shaped' \in [DOMAIN shaped -> SUBSET Class]
        <4>1. shaped = [e \in DOMAIN shaped |-> shaped[e]]
          BY <1>1 DEF QosTypeOK, Shapes
        <4>2. QED
          BY <3>1, <3>2, <4>1
      <3>4. shaped' \in Shapes
        BY <3>2, <3>3, ShapesDef
      <3>5. QED
        BY <1>1, <3>1, <3>4, NetworkOther DEF QosTypeOK, network, Seen
    <2>2. ASSUME NEW d \in Dev, ShapeDown(d)
          PROVE  NetworkTypeOK' /\ QosTypeOK' /\ Seen' = Seen
      <3>1. d \in Seen /\ link[d] \in Link
        BY <1>1, <2>2, SeenDevices DEF ShapeDown
      <3> DEFINE l == [link[d] EXCEPT !.classes = {}]
      <3>2. l \in Link
        BY <3>1 DEF Link
      <3>3. link' = [link EXCEPT ![d] = l]
        BY <2>2, <3>1 DEF ShapeDown, Link
      <3>4. routes' \in SUBSET Route /\ UNCHANGED <<default, refused, events, qosvars>>
        BY <1>1, <2>2 DEF ShapeDown, NetworkTypeOK
      <3> HIDE DEF l
      <3>5. QED
        BY <1>1, <3>1, <3>2, <3>3, <3>4, LinkIsSet, QosOther
    <2>3. CASE QosCommit
      <3>1. QosTypeOK'
        BY <1>1, <2>3 DEF QosCommit, QosTypeOK
      <3>2. QED
        BY <1>1, <2>3, <3>1, ShapeTyped DEF QosCommit
    <2>4. CASE QosRollback
      <3>1. QosTypeOK' /\ UNCHANGED network
        BY <1>1, <2>4 DEF QosRollback, QosTypeOK
      <3>2. QED
        BY <1>1, <3>1, NetworkOther DEF network, Seen
    <2>5. QED
      BY <2>1, <2>2, <2>3, <2>4 DEF QosStep
  <1>4. IpTypeOK' /\ PppInv'
    BY <1>2, <1>3, IpOther, PppOther DEF IInv
  <1>5. OwnTypeOK'
    <2>1. Counted \/ UNCHANGED edits
      BY DEF QosStep
    <2>2. QED
      BY <1>2, <2>1, EditsTyped DEF IInv, OwnTypeOK
  <1>6. QED
    BY <1>3, <1>4, <1>5 DEF IInv

-----------------------------------------------------------------------------
\* The timer of the three services.
LEMMA TickKeeps == ASSUME IInv, Tick PROVE IInv'
  <1>1. NetworkTypeOK /\ IpTypeOK /\ PppInv /\ QosTypeOK
        /\ IpTick /\ PppTick /\ QosTick /\ UNCHANGED own
    BY DEF IInv, Tick
  <1>2. Seen \subseteq Dev /\ \A d \in Seen : link[d] \in Link
    BY <1>1, SeenDevices
  <1>3. /\ devices \in IpDevices /\ Known \subseteq Dev
        /\ \A d \in Known : devices[d] \in IpDevice
    BY <1>1, DevicesDef DEF IpTypeOK, Known
  <1>4. IpTypeOK'
    <2>1. devices' = [d \in Known \cup Seen |->
                        IF d \notin Known THEN NewDevice(d)
                        ELSE [devices[d] EXCEPT !.active = @ /\ d \in Seen]]
          /\ UNCHANGED <<hops, nodev, ipsaved>>
      BY <1>1 DEF IpTick, Refresh
    <2>2. \A d \in Seen : NewDevice(d) \in IpDevice
      BY <1>2 DEF NewDevice, Link, IpDevice
    <2>3. \A d \in Known :
             [devices[d] EXCEPT !.active = @ /\ d \in Seen] \in IpDevice
      BY <1>3 DEF IpDevice
    <2>4. devices' \in [Known \cup Seen -> IpDevice] /\ Known \cup Seen \in SUBSET Dev
      BY <1>2, <1>3, <2>1, <2>2, <2>3
    <2>5. devices' \in IpDevices
      BY <2>4, DevicesDef
    <2>6. QED
      BY <1>1, <2>1, <2>5 DEF IpTypeOK
  <1>5. NetworkTypeOK' /\ Seen' = Seen
    <2>1. PICK no : /\ link' = Configure(link, Back, no)
                    /\ refused' = (refused \ Back) \cup {d \in Back : no[d] # {}}
      BY <1>1 DEF IpTick, Refresh
    <2>2. Back \subseteq Known /\ UNCHANGED events
          /\ (UNCHANGED routes \/ BringUp(nodev))
      BY <1>1 DEF IpTick, Refresh, Back
    <2>3. default' \in BOOLEAN
      BY <1>1 DEF IpTick, Refresh, WriteHops, NetworkTypeOK
    <2>4. refused' \in SUBSET Dev
      BY <1>1, <1>3, <2>1, <2>2 DEF NetworkTypeOK
    <2>5. QED
      BY <1>1, <2>1, <2>2, <2>3, <2>4, ConfigureTyped
  <1>6. PppInv'
    <2>1. conns' = [n \in DOMAIN conns |->
                      [conns[n] EXCEPT !.running = pppd[n] # None]]
          /\ UNCHANGED <<pppd, peers, pppsaved, committed>>
      BY <1>1 DEF PppTick
    <2>2. /\ DOMAIN conns \in SUBSET Ppp /\ \A n \in DOMAIN conns : conns[n] \in Conn
          /\ \A n \in Ppp : pppd[n] # None => peers[n] # None
          /\ \A n \in Ppp : pppd[n] # None <=> n \in Seen
      BY <1>1, ConnsDef DEF PppInv, PppTypeOK
    <2>3. \A n \in DOMAIN conns :
             /\ [conns[n] EXCEPT !.running = pppd[n] # None] \in Conn
             /\ [conns[n] EXCEPT !.running = pppd[n] # None].running = (pppd[n] # None)
      BY <2>2 DEF Conn
    <2>4. conns' \in [DOMAIN conns -> Conn]
      BY <2>1, <2>3
    <2>5. conns' \in Conns
      BY <2>2, <2>4, ConnsDef
    <2>6. \A n \in DOMAIN conns' : conns'[n].running => peers[n] # None
      BY <2>1, <2>2, <2>3
    <2>7. PppTypeOK'
      <3>1. \A n \in Ppp : pppd'[n] # None \/ n \in Running' => peers'[n] # None
        BY <2>1, <2>2, <2>6 DEF Running
      <3>2. \A n \in Ppp : pppd'[n] # None <=> n \in Seen'
        BY <1>5, <2>1, <2>2
      <3>3. QED
        BY <1>1, <2>1, <2>5, <3>1, <3>2 DEF PppInv, PppTypeOK
    <2>8. QED
      BY <1>1, <2>1, <2>7 DEF PppInv, SavedCanStart, SavedIsCommitted
  <1>7. QosTypeOK'
    <2>1. shaped' = [d \in Seen |-> IF d \in DOMAIN shaped THEN shaped[d] ELSE {}]
          /\ qossaved' = qossaved
      BY <1>1 DEF QosTick
    <2>2. \A d \in DOMAIN shaped : shaped[d] \in SUBSET Class
      BY <1>1, ShapesDef DEF QosTypeOK
    <2>3. shaped' \in [Seen -> SUBSET Class] /\ Seen \in SUBSET Dev
      BY <1>2, <2>1, <2>2
    <2>4. shaped' \in Shapes
      BY <2>3, ShapesDef
    <2>5. QED
      BY <1>1, <2>1, <2>4 DEF QosTypeOK
  <1>8. OwnTypeOK'
    BY <1>1 DEF IInv, OwnTypeOK, own
  <1>9. QED
    BY <1>4, <1>5, <1>6, <1>7, <1>8 DEF IInv

\* The daemon ends, and the next one has what was saved.
LEMMA EndsKeeps == ASSUME IInv, Ends PROVE IInv'
  <1>1. NetworkTypeOK /\ IpTypeOK /\ PppInv /\ QosTypeOK
    BY DEF IInv
  <1>2. NetworkTypeOK'
    BY <1>1, NetworkOther DEF Ends
  <1>3. IpTypeOK'
    BY <1>1 DEF Ends, IpTypeOK, IpSaved
  <1>4. QosTypeOK'
    BY <1>1 DEF Ends, QosTypeOK
  <1>5. PppInv'
    <2>1. conns' \in Conns /\ \A n \in DOMAIN conns' : conns'[n].running => peers[n] # None
      BY <1>1 DEF Ends, PppInv, PppTypeOK, SavedCanStart
    <2>2. QED
      BY <1>1, <2>1, ConnsChange DEF Ends, network
  <1>6. OwnTypeOK'
    BY DEF Ends, IInv, OwnTypeOK
  <1>7. QED
    BY <1>2, <1>3, <1>4, <1>5, <1>6 DEF IInv

LEMMA BeginsKeeps ==
    ASSUME IInv, NEW up \in SUBSET Ppp, NEW early \in BOOLEAN, Begins(up, early)
    PROVE  IInv'
  <1>1. NetworkTypeOK /\ IpTypeOK /\ PppInv /\ QosTypeOK
    BY DEF IInv
  <1>2. /\ \A n \in up : peers[n] # None /\ pppd[n] = None
        /\ pppd' = [n \in Ppp |-> IF n \in up THEN peers[n] ELSE pppd[n]]
        /\ alive' = (up = Running)
        /\ refused' = refused \ up
        /\ UNCHANGED <<events, devices, hops, ipsaved, conns, peers, pppsaved,
                       committed, qosvars, rolledback, edits>>
    BY DEF Begins
  <1> DEFINE there == Active \cap (IF early THEN Seen ELSE Seen \cup up)
             Configd(l, no, cs) == ShapeAll(Configure(l, there, no), shaped, cs)
             Started(l, a) == [d \in DOMAIN l \cup up |->
                                 IF d \in up THEN Plugged({a}) ELSE l[d]]
  <1>3. ASSUME NEW l \in Links, NEW no, NEW cs
        PROVE  Configd(l, no, cs) \in Links /\ DOMAIN Configd(l, no, cs) = DOMAIN l
    <2> DEFINE m == Configure(l, there, no)
    <2>1. there \subseteq Known
      BY DEF Active
    <2>2. m \in Links /\ DOMAIN m = DOMAIN l
      <3> HIDE DEF there
      <3>1. QED
        BY <1>1, <1>3, <2>1, ConfigureKeeps DEF IpTypeOK
    <2> HIDE DEF m
    <2>3. ShapeAll(m, shaped, cs) \in Links /\ DOMAIN ShapeAll(m, shaped, cs) = DOMAIN l
      BY <1>1, <2>2, ShapeKeeps DEF QosTypeOK
    <2>4. QED
      BY <2>3 DEF m
  <1>4. ASSUME NEW l \in Links, NEW a \in Addr
        PROVE  Started(l, a) \in Links /\ DOMAIN Started(l, a) = DOMAIN l \cup up
    <2>1. DOMAIN l \subseteq Dev /\ \A d \in DOMAIN l : l[d] \in Link
      BY <1>4, LinksDef
    <2>2. Plugged({a}) \in Link
      BY LinkValues
    <2>3. Started(l, a) \in [DOMAIN l \cup up -> Link]
      BY <2>1, <2>2
    <2>4. DOMAIN l \cup up \in SUBSET Dev
      BY <2>1
    <2>5. QED
      BY <2>3, <2>4, LinksDef
  <1>5. link \in Links
    BY <1>1, SeenDevices
  <1>6. PICK a \in Addr, no \in Refusals(there), cs \in NoClasses(shaped) :
           link' = IF early THEN Started(Configd(link, no, cs), a)
                   ELSE IF up = Running THEN Configd(Started(link, a), no, cs)
                   ELSE Started(link, a)
    BY DEF Begins
  <1> HIDE DEF Configd, Started
  <1>7. link' \in Links /\ DOMAIN link' = DOMAIN link \cup up
    <2>1. Configd(link, no, cs) \in Links /\ DOMAIN Configd(link, no, cs) = DOMAIN link
      BY <1>3, <1>5
    <2>2. Started(link, a) \in Links /\ DOMAIN Started(link, a) = DOMAIN link \cup up
      BY <1>4, <1>5
    <2>3. Started(Configd(link, no, cs), a) \in Links
          /\ DOMAIN Started(Configd(link, no, cs), a) = DOMAIN link \cup up
      BY <1>4, <2>1
    <2>4. Configd(Started(link, a), no, cs) \in Links
          /\ DOMAIN Configd(Started(link, a), no, cs) = DOMAIN link \cup up
      BY <1>3, <2>2
    <2>5. QED
      BY <1>6, <2>2, <2>3, <2>4
  <1>8. routes' \in SUBSET Route /\ refused' \in SUBSET Dev
    <2>1. BringUp(nodev) \/ routes' = routes
      BY DEF Begins
    <2>2. QED
      BY <1>1, <1>2, <2>1 DEF NetworkTypeOK, IpTypeOK, BringUp
  <1>9. default' \in BOOLEAN
    BY <1>1 DEF Begins, WriteHops, NetworkTypeOK
  <1>10. NetworkTypeOK'
    BY <1>1, <1>2, <1>7, <1>8, <1>9 DEF NetworkTypeOK, Links
  <1>11. nodev' \in SUBSET Route
    BY <1>1 DEF Begins, IpTypeOK
  <1>12. IpTypeOK'
    BY <1>1, <1>2, <1>11 DEF IpTypeOK
  <1>13. QosTypeOK'
    BY <1>1, <1>2, QosOther
  <1>14. PppInv'
    <2>1. /\ pppd \in [Ppp -> Data \cup {None}] /\ peers \in [Ppp -> Data \cup {None}]
          /\ \A n \in Ppp : pppd[n] # None <=> n \in Seen
          /\ \A n \in Ppp : pppd[n] # None \/ n \in Running => peers[n] # None
      BY <1>1 DEF PppInv, PppTypeOK
    <2>2. \A n \in Ppp : pppd'[n] # None <=> n \in Seen'
      BY <1>2, <1>7, <2>1 DEF Seen
    <2>3. \A n \in Ppp : pppd'[n] # None \/ n \in Running' => peers'[n] # None
      BY <1>2, <2>1 DEF Running
    <2>4. pppd' \in [Ppp -> Data \cup {None}]
      BY <1>2, <2>1
    <2>5. PppTypeOK'
      BY <1>1, <1>2, <2>2, <2>3, <2>4 DEF PppInv, PppTypeOK
    <2>6. QED
      BY <1>1, <1>2, <2>5 DEF PppInv, SavedCanStart, SavedIsCommitted
  <1>15. OwnTypeOK'
    BY <1>2 DEF IInv, OwnTypeOK
  <1>16. QED
    BY <1>10, <1>12, <1>13, <1>14, <1>15 DEF IInv

\* Devices go and come, and a pppd ends.
LEMMA OutsideKeeps == ASSUME IInv, Outside PROVE IInv'
  <1>1. NetworkTypeOK /\ PppInv /\ events \in 0..MaxEvents
    BY DEF IInv, NetworkTypeOK
  <1>2. Event => events' \in 0..MaxEvents
    BY <1>1 DEF Event
  <1>3. NetworkTypeOK' /\ PppInv'
    <2>1. ASSUME NEW d \in Eth, LinkComes(d) \/ LinkGoes(d), UNCHANGED pppvars
          PROVE  NetworkTypeOK' /\ PppInv'
      <3>1. events' \in 0..MaxEvents
        BY <1>2, <2>1 DEF LinkComes, LinkGoes
      <3>2. Change({}, {d}, {}) \/ Change({d}, {}, {})
        BY <2>1 DEF LinkComes, LinkGoes
      <3>3. CASE Change({}, {d}, {})
        <4>1. NetworkTypeOK' /\ Seen' = (Seen \ {}) \cup {d}
          BY <1>1, <2>1, <3>1, <3>3, ChangeKeeps
        <4>2. QED
          BY <1>1, <2>1, <4>1, PppOther
      <3>4. CASE Change({d}, {}, {})
        <4>1. NetworkTypeOK' /\ Seen' = (Seen \ {d}) \cup {}
          BY <1>1, <2>1, <3>1, <3>4, ChangeKeeps
        <4>2. QED
          BY <1>1, <2>1, <4>1, PppOther
      <3>5. QED
        BY <3>2, <3>3, <3>4
    <2>2. ASSUME DefaultAppears, UNCHANGED pppvars PROVE NetworkTypeOK' /\ PppInv'
      <3>1. events' \in 0..MaxEvents /\ default' = TRUE /\ UNCHANGED <<link, routes, refused>>
        BY <1>2, <2>2 DEF DefaultAppears
      <3>2. NetworkTypeOK' /\ Seen' = Seen
        BY <1>1, <3>1 DEF NetworkTypeOK, Seen
      <3>3. QED
        BY <1>1, <2>2, <3>2, PppOther
    <2>3. ASSUME NEW n \in Ppp, PppEnds(n) PROVE NetworkTypeOK' /\ PppInv'
      <3>1. /\ events' \in 0..MaxEvents /\ pppd' = [pppd EXCEPT ![n] = None]
            /\ Change({n}, {}, {}) /\ UNCHANGED <<conns, peers, pppsaved, committed>>
        BY <1>2, <2>3 DEF PppEnds
      <3>2. NetworkTypeOK' /\ Seen' = (Seen \ {n}) \cup {}
        BY <1>1, <3>1, ChangeKeeps
      <3>3. PppTypeOK'
        <4>1. /\ pppd \in [Ppp -> Data \cup {None}]
              /\ \A j \in Ppp : pppd[j] # None <=> j \in Seen
              /\ \A j \in Ppp : pppd[j] # None \/ j \in Running => peers[j] # None
          BY <1>1 DEF PppInv, PppTypeOK
        <4>2. pppd' \in [Ppp -> Data \cup {None}]
          BY <3>1, <4>1
        <4>3. \A j \in Ppp : pppd'[j] # None <=> j \in Seen'
          BY <3>1, <3>2, <4>1
        <4>4. \A j \in Ppp : pppd'[j] # None \/ j \in Running' => peers'[j] # None
          BY <3>1, <4>1 DEF Running
        <4>5. QED
          BY <1>1, <3>1, <4>2, <4>3, <4>4 DEF PppInv, PppTypeOK
      <3>4. QED
        BY <1>1, <3>1, <3>2, <3>3 DEF PppInv, SavedCanStart, SavedIsCommitted
    <2>4. QED
      BY <2>1, <2>2, <2>3 DEF Outside
  <1>4. UNCHANGED <<ipvars, qosvars, own>>
    BY DEF Outside
  <1>5. IpTypeOK' /\ QosTypeOK'
    BY <1>4, IpOther, QosOther DEF IInv
  <1>6. OwnTypeOK'
    BY <1>4 DEF IInv, OwnTypeOK, own
  <1>7. QED
    BY <1>3, <1>5, <1>6 DEF IInv

-----------------------------------------------------------------------------
\* The services of the router keep to their types together: the devices of the
\* connections are those that have a pppd, and what is to run has its file.
THEOREM Inductive == Spec => []IInv
  <1>1. IInv /\ [Next]_vars => IInv'
    <2> SUFFICES ASSUME IInv, [Next]_vars PROVE IInv'
      OBVIOUS
    <2>1. CASE UNCHANGED vars
      <3>1. UNCHANGED <<network, ipvars, pppvars, qosvars, own>>
        BY <2>1 DEF vars
      <3>2. Seen' = Seen
        BY <3>1 DEF network, Seen
      <3>3. NetworkTypeOK' /\ IpTypeOK' /\ PppInv' /\ QosTypeOK'
        BY <3>1, <3>2, NetworkOther, IpOther, PppOther, QosOther DEF IInv
      <3>4. OwnTypeOK'
        BY <3>1 DEF IInv, OwnTypeOK, own
      <3>5. QED
        BY <3>3, <3>4 DEF IInv
    <2>2. QED
      BY <2>1, IpStepKeeps, PppStepKeeps, QosStepKeeps, TickKeeps, EndsKeeps,
         BeginsKeeps, OutsideKeeps DEF Next
  <1>2. Spec => Init /\ [][Next]_vars
    BY PTL DEF Spec
  <1>3. QED
    BY <1>1, <1>2, InitIInv, PTL

\* Types, and that a connection has a device if and only if it has a pppd.
THEOREM TypeCorrect == Spec => []RouterTypeOK
  <1>1. IInv => RouterTypeOK
    BY DEF IInv, PppInv, OwnTypeOK, RouterTypeOK
  <1>2. QED
    BY <1>1, Inductive, PTL

-----------------------------------------------------------------------------
\* What qos has put in force was saved.  A device that it does not list has come
\* since the last tick, with no classes.
QosInv == /\ \A d \in Seen : \A c \in link[d].classes :
                d \in DOMAIN qossaved /\ c \in qossaved[d]
          /\ \A d \in Seen \ DOMAIN shaped : link[d].classes = {}
          /\ ~alive => shaped = qossaved

\* The addresses of a device that ip takes for active were saved.  What it does
\* not list was never saved.
IpInv == /\ DOMAIN ipsaved.devices \subseteq Known
         /\ ~alive => devices = ipsaved.devices
         /\ alive /\ ~rolledback =>
               \A d \in Eth \cap Seen \cap Active \cap DOMAIN ipsaved.devices :
                   link[d].addrs \subseteq ipsaved.devices[d].addrs

\* No device has more than it had.
LessClasses == \A d \in Seen' : \A c \in link'[d].classes :
                   d \in Seen /\ c \in link[d].classes
LessAddrs == \A d \in Eth \cap Seen' : \A a \in link'[d].addrs :
                 d \in Seen /\ a \in link[d].addrs

LEMMA ClassesLess ==
    ASSUME QosInv, LessClasses, UNCHANGED <<qosvars, alive>>
    PROVE  QosInv'
  <1>1. shaped' = shaped /\ qossaved' = qossaved /\ alive' = alive
    BY DEF qosvars
  <1>2. ASSUME NEW d \in Seen', NEW c \in link'[d].classes
        PROVE  d \in DOMAIN qossaved /\ c \in qossaved[d] /\ d \in DOMAIN shaped
    BY <1>2 DEF QosInv, LessClasses
  <1>3. QED
    BY <1>1, <1>2 DEF QosInv

LEMMA AddrsLess ==
    ASSUME IpInv, LessAddrs, UNCHANGED <<devices, ipsaved, alive, rolledback>>
    PROVE  IpInv'
  <1>1. Known' = Known /\ Active' = Active
    BY DEF Known, Active
  <1>2. QED
    BY <1>1 DEF IpInv, LessAddrs

\* Devices that come have nothing, but for those of the connections.
LEMMA ChangeLess ==
    ASSUME NEW going, NEW coming, NEW addrs, Change(going, coming, addrs),
           addrs = {} \/ coming \subseteq Ppp
    PROVE  LessClasses /\ LessAddrs
  <1>1. link' = [d \in (Seen \ going) \cup coming |->
                    IF d \in coming THEN Plugged(addrs) ELSE link[d]]
    BY DEF Change
  <1>2. Plugged(addrs).classes = {} /\ Plugged(addrs).addrs = addrs
    BY DEF Plugged
  <1>3. Seen' = (Seen \ going) \cup coming
    BY <1>1 DEF Seen
  <1>4. LessClasses
    BY <1>1, <1>2, <1>3 DEF LessClasses
  <1>5. ASSUME NEW d \in Eth \cap Seen', NEW a \in link'[d].addrs
        PROVE  d \in Seen /\ a \in link[d].addrs
    <2>1. d \notin coming
      BY <1>1, <1>2, <1>3, <1>5
    <2>2. QED
      BY <1>1, <1>3, <1>5, <2>1
  <1>6. QED
    BY <1>4, <1>5 DEF LessAddrs

LEMMA SameLess == UNCHANGED link => LessClasses /\ LessAddrs
BY DEF Seen, LessClasses, LessAddrs

-----------------------------------------------------------------------------
LEMMA IpStepCommitted ==
    ASSUME IInv, QosInv, IpInv, IpStep
    PROVE  QosInv' /\ IpInv'
  <1>1. link \in Links /\ devices \in IpDevices /\ \A d \in Seen : link[d] \in Link
    BY SeenDevices DEF IInv, IpTypeOK
  <1>2. \A d \in Known : devices[d] \in IpDevice
    BY <1>1, DevicesDef DEF Known
  <1>3. UNCHANGED <<qosvars, alive>> /\ alive
    BY DEF IpStep
  <1>4. CASE IpEdit /\ UNCHANGED rolledback
    <2>1. UNCHANGED <<link, ipsaved>>
      BY <1>4 DEF IpEdit, AddrsOf, RoutesOf, Hops, NoDevRoutes, network
    <2>2. Known' = Known /\ \A d \in Known : devices'[d].active = devices[d].active
      BY <1>2, <1>4 DEF IpEdit, AddrsOf, RoutesOf, Hops, NoDevRoutes, Known, IpDevice
    <2>3. Active' = Active
      BY <2>2 DEF Active
    <2>4. IpInv'
      BY <1>3, <1>4, <2>1, <2>2, <2>3 DEF IpInv, Seen
    <2>5. QED
      BY <1>3, <2>1, <2>4, SameLess, ClassesLess
  <1>5. CASE (\E d \in Dev : DeviceUp(d) \/ DeviceDown(d)) /\ UNCHANGED rolledback
    <2>1. PICK d \in Dev : DeviceUp(d) \/ DeviceDown(d)
      BY <1>5
    <2>2. d \in Seen /\ link[d] \in Link /\ UNCHANGED <<devices, ipsaved>>
      BY <1>1, <2>1 DEF DeviceUp, DeviceDown, ipvars
    <2>3. /\ DOMAIN link' = DOMAIN link
          /\ \A e \in Seen : link'[e].classes = link[e].classes
                             /\ link'[e].addrs = link[e].addrs
      <3>1. CASE DeviceUp(d)
        <4>1. PICK new : link' = [link EXCEPT ![d].up = TRUE, ![d].routes = @ \cup new]
          BY <3>1 DEF DeviceUp
        <4>2. \A e \in Seen : link'[e] = IF e = d THEN [link[d] EXCEPT !.up = TRUE,
                                                                    !.routes = @ \cup new]
                                         ELSE link[e]
          BY <1>1, <2>2, <4>1 DEF Seen
        <4>3. /\ [link[d] EXCEPT !.up = TRUE, !.routes = @ \cup new].classes = link[d].classes
              /\ [link[d] EXCEPT !.up = TRUE, !.routes = @ \cup new].addrs = link[d].addrs
          BY <2>2 DEF Link
        <4>4. DOMAIN link' = DOMAIN link
          BY <4>1
        <4>5. QED
          BY <4>2, <4>3, <4>4
      <3>2. CASE DeviceDown(d)
        <4>1. link' = [link EXCEPT ![d].up = FALSE, ![d].routes = {}]
          BY <3>2 DEF DeviceDown
        <4>2. \A e \in Seen : link'[e] = IF e = d THEN [link[d] EXCEPT !.up = FALSE,
                                                                    !.routes = {}]
                                         ELSE link[e]
          BY <1>1, <2>2, <4>1 DEF Seen
        <4>3. /\ [link[d] EXCEPT !.up = FALSE, !.routes = {}].classes = link[d].classes
              /\ [link[d] EXCEPT !.up = FALSE, !.routes = {}].addrs = link[d].addrs
          BY <2>2 DEF Link
        <4>4. DOMAIN link' = DOMAIN link
          BY <4>1
        <4>5. QED
          BY <4>2, <4>3, <4>4
      <3>3. QED
        BY <2>1, <3>1, <3>2
    <2>4. LessClasses /\ LessAddrs
      BY <2>3 DEF LessClasses, LessAddrs, Seen
    <2>5. QED
      BY <1>3, <1>5, <2>2, <2>4, ClassesLess, AddrsLess
  <1>6. CASE IpCommit
    <2>1. ipsaved'.devices = devices /\ devices' = devices
      BY <1>6 DEF IpCommit
    <2>2. PICK no : link' = Configure(link, Active \cap Seen, no)
      BY <1>6 DEF IpCommit
    <2>3. Active \subseteq Known /\ Active' = Active /\ Known' = Known
      BY <2>1 DEF Active, Known
    <2>4. /\ DOMAIN link' = DOMAIN link
          /\ \A d \in DOMAIN link : link'[d].classes = link[d].classes
          /\ \A d \in DOMAIN link \cap (Active \cap Seen) :
                link'[d].addrs \subseteq devices[d].addrs
      <3> DEFINE ds == Active \cap Seen
      <3>1. ds \subseteq Known /\ link' = Configure(link, ds, no)
        BY <2>2, <2>3
      <3> HIDE DEF ds
      <3>2. /\ DOMAIN Configure(link, ds, no) = DOMAIN link
            /\ \A d \in DOMAIN link : Configure(link, ds, no)[d].classes = link[d].classes
            /\ \A d \in DOMAIN link \cap ds :
                  Configure(link, ds, no)[d].addrs \subseteq devices[d].addrs
        <4>1. link \in Links /\ devices \in IpDevices /\ ds \subseteq Known
          BY <1>1, <3>1
        <4>2. DOMAIN Configure(link, ds, no) = DOMAIN link
          BY <4>1, ConfigureKeeps
        <4>3. \A d \in DOMAIN link : Configure(link, ds, no)[d].classes = link[d].classes
          BY <4>1, ConfigureKeeps
        <4>4. \A d \in DOMAIN link \cap ds :
                 Configure(link, ds, no)[d].addrs \subseteq devices[d].addrs
          BY <4>1, ConfigureKeeps
        <4>5. QED
          BY <4>2, <4>3, <4>4
      <3>3. QED
        BY <3>1, <3>2 DEF ds
    <2>5. LessClasses
      BY <2>4 DEF LessClasses, Seen
    <2>6. IpInv'
      BY <1>3, <2>1, <2>3, <2>4 DEF IpInv, Seen, Known
    <2>7. QED
      BY <1>3, <2>5, <2>6, ClassesLess
  <1>7. CASE IpRollback /\ rolledback' = TRUE
    <2>1. devices' = ipsaved.devices /\ ipsaved' = ipsaved /\ link' = link
      BY <1>7 DEF IpRollback, network
    <2>2. IpInv'
      BY <1>3, <1>7, <2>1 DEF IpInv, Known
    <2>3. QED
      BY <1>3, <2>1, <2>2, SameLess, ClassesLess
  <1>8. QED
    BY <1>4, <1>5, <1>6, <1>7 DEF IpStep

LEMMA PppStepCommitted ==
    ASSUME IInv, QosInv, IpInv, PppStep
    PROVE  QosInv' /\ IpInv'
  <1>1. UNCHANGED <<ipvars, qosvars, alive, rolledback>> /\ PppInv
    BY DEF PppStep, IInv
  <1>2. ASSUME NEW down, NEW up, up \subseteq DOMAIN conns, NEW files,
               Processes(down, up, files)
        PROVE  LessClasses /\ LessAddrs
    <2>1. up \subseteq Ppp
      BY <1>1, <1>2, ConnsDef DEF PppInv, PppTypeOK
    <2>2. PICK addrs : Change({n \in down : pppd[n] # None}, up, addrs)
      BY <1>2 DEF Processes
    <2>3. QED
      BY <2>1, <2>2, ChangeLess
  <1>3. LessClasses /\ LessAddrs
    <2>1. CASE PppEdit
      BY <1>1, <2>1, PppEditKeeps, SameLess DEF network
    <2>2. CASE PppRollback
      BY <2>2, SameLess DEF PppRollback, network
    <2>3. ASSUME NEW ns, PppStart(ns) \/ PppStop(ns) PROVE LessClasses /\ LessAddrs
      BY <1>2, <2>3 DEF PppStart, PppStop
    <2>4. ASSUME NEW ns, ns \subseteq DOMAIN conns, NEW ok, NEW bad, Bounce(ns, ok, bad)
          PROVE  LessClasses /\ LessAddrs
      BY <1>2, <2>4 DEF Bounce, Rerun
    <2>5. ASSUME NEW ok, NEW bad, PppRestart(ok, bad) \/ PppReload(ok, bad)
          PROVE  LessClasses /\ LessAddrs
      BY <2>4, <2>5 DEF PppRestart, PppReload, Running
    <2>6. ASSUME NEW ok, NEW bad, PppCommit(ok, bad) PROVE LessClasses /\ LessAddrs
      BY <1>2, <2>6 DEF PppCommit, Rerun, Running
    <2>7. QED
      BY <2>1, <2>2, <2>3, <2>5, <2>6 DEF PppStep, PppCommand
  <1>4. QED
    BY <1>1, <1>3, ClassesLess, AddrsLess DEF ipvars

LEMMA QosStepCommitted ==
    ASSUME IInv, QosInv, IpInv, QosStep
    PROVE  QosInv' /\ IpInv'
  <1>1. link \in Links /\ shaped \in Shapes /\ \A d \in Seen : link[d] \in Link
    BY SeenDevices DEF IInv, QosTypeOK
  <1>2. UNCHANGED <<devices, ipsaved, alive, rolledback>> /\ alive
    BY DEF QosStep, ipvars
  <1>3. ASSUME NEW d \in Dev, NEW cs, ClassesOf(d, cs) PROVE QosInv' /\ IpInv'
    <2>1. UNCHANGED <<link, qossaved>> /\ DOMAIN shaped' = DOMAIN shaped
      BY <1>3 DEF ClassesOf, network
    <2>2. QosInv'
      BY <1>2, <2>1 DEF QosInv, Seen
    <2>3. QED
      BY <1>2, <2>1, <2>2, SameLess, AddrsLess
  <1>4. ASSUME NEW d \in Dev, ShapeDown(d) PROVE QosInv' /\ IpInv'
    <2>1. /\ DOMAIN link' = DOMAIN link
          /\ \A e \in Seen : link'[e].classes \subseteq link[e].classes
                             /\ link'[e].addrs = link[e].addrs
      BY <1>1, <1>4 DEF ShapeDown, Seen, Link
    <2>2. LessClasses /\ LessAddrs
      BY <2>1 DEF LessClasses, LessAddrs, Seen
    <2>3. QED
      BY <1>2, <1>4, <2>2, ClassesLess, AddrsLess DEF ShapeDown
  <1>5. CASE QosCommit
    <2>1. PICK no : link' = ShapeAll(link, shaped, no)
      BY <1>5 DEF QosCommit
    <2>2. qossaved' = shaped /\ shaped' = shaped
      BY <1>5 DEF QosCommit
    <2>3. /\ DOMAIN link' = DOMAIN link
          /\ \A d \in DOMAIN link : link'[d].addrs = link[d].addrs
                                    /\ (d \notin DOMAIN shaped => link'[d] = link[d])
          /\ \A d \in DOMAIN link \cap DOMAIN shaped : link'[d].classes \subseteq shaped[d]
      BY <1>1, <2>1, ShapeKeeps
    <2>4. QosInv'
      BY <1>2, <2>2, <2>3 DEF QosInv, Seen
    <2>5. LessAddrs
      BY <2>3 DEF LessAddrs, Seen
    <2>6. QED
      BY <1>2, <2>4, <2>5, AddrsLess
  <1>6. CASE QosRollback
    <2>1. shaped' = qossaved /\ qossaved' = qossaved /\ link' = link
      BY <1>6 DEF QosRollback, network
    <2>2. \A d \in Seen \ DOMAIN qossaved : link[d].classes = {}
      BY DEF QosInv
    <2>3. QosInv'
      BY <1>2, <2>1, <2>2 DEF QosInv, Seen
    <2>4. QED
      BY <1>2, <2>1, <2>3, SameLess, AddrsLess
  <1>7. QED
    BY <1>3, <1>4, <1>5, <1>6 DEF QosStep

LEMMA TickCommitted ==
    ASSUME IInv, QosInv, IpInv, Tick
    PROVE  QosInv' /\ IpInv'
  <1>1. link \in Links /\ devices \in IpDevices
    BY SeenDevices DEF IInv, IpTypeOK
  <1>2. /\ alive /\ UNCHANGED <<alive, rolledback, ipsaved, qossaved>>
        /\ shaped' = [d \in Seen |-> IF d \in DOMAIN shaped THEN shaped[d] ELSE {}]
    BY DEF Tick, own, IpTick, Refresh, QosTick
  <1>3. PICK no : link' = Configure(link, Back, no)
    BY DEF Tick, IpTick, Refresh
  <1>4. /\ DOMAIN link' = DOMAIN link
        /\ \A d \in DOMAIN link : /\ link'[d].classes = link[d].classes
                                  /\ d \notin Back => link'[d] = link[d]
    <2>1. Back \subseteq Known
      BY DEF Back
    <2>2. QED
      BY <1>1, <1>3, <2>1, ConfigureKeeps
  <1>5. QosInv'
    BY <1>2, <1>4 DEF QosInv, Seen
  <1>6. /\ Known' = Known \cup Seen
        /\ \A d \in Known : devices'[d].active = (devices[d].active /\ d \in Seen)
    <2>1. devices' = [d \in Known \cup Seen |->
                         IF d \notin Known THEN NewDevice(d)
                         ELSE [devices[d] EXCEPT !.active = @ /\ d \in Seen]]
      BY DEF Tick, IpTick, Refresh
    <2>2. \A d \in Known : devices[d] \in IpDevice
      BY <1>1, DevicesDef DEF Known
    <2>3. QED
      BY <2>1, <2>2 DEF Known, IpDevice
  <1>7. ASSUME NEW d \in Eth \cap Seen' \cap Active' \cap DOMAIN ipsaved.devices
        PROVE  d \in Seen \cap Active /\ link'[d] = link[d]
    <2>1. d \in Seen /\ d \in Known
      BY <1>4 DEF IpInv, Seen
    <2>2. devices[d].active
      BY <1>6, <2>1 DEF Active
    <2>3. QED
      BY <1>4, <2>1, <2>2 DEF Active, Back, Seen
  <1>8. IpInv'
    <2>1. DOMAIN ipsaved'.devices \subseteq Known'
      BY <1>2, <1>6 DEF IpInv
    <2>2. ~rolledback =>
             \A d \in Eth \cap Seen' \cap Active' \cap DOMAIN ipsaved.devices :
                 link'[d].addrs \subseteq ipsaved.devices[d].addrs
      BY <1>2, <1>7 DEF IpInv
    <2>3. QED
      BY <1>2, <2>1, <2>2 DEF IpInv
  <1>9. QED
    BY <1>5, <1>8

\* The next daemon restores what was saved, and configures that.
LEMMA BeginsCommitted ==
    ASSUME IInv, QosInv, IpInv, NEW up \in SUBSET Ppp, NEW early \in BOOLEAN,
           Begins(up, early)
    PROVE  QosInv' /\ IpInv'
  <1>1. link \in Links /\ devices \in IpDevices /\ shaped \in Shapes
    BY SeenDevices DEF IInv, IpTypeOK, QosTypeOK
  <1>2. /\ ~alive /\ shaped = qossaved /\ devices = ipsaved.devices
        /\ UNCHANGED <<devices, ipsaved, shaped, qossaved>>
        /\ alive' = (up = Running)
    BY DEF Begins, QosInv, IpInv, qosvars
  <1> DEFINE there == Active \cap (IF early THEN Seen ELSE Seen \cup up)
             Configd(l, no, cs) == ShapeAll(Configure(l, there, no), shaped, cs)
             Started(l, a) == [d \in DOMAIN l \cup up |->
                                 IF d \in up THEN Plugged({a}) ELSE l[d]]
             Classes(l) == \A d \in DOMAIN l : \A c \in l[d].classes :
                               d \in DOMAIN qossaved /\ c \in qossaved[d]
             Addrs(l) == \A d \in Eth \cap DOMAIN l \cap Active :
                             l[d].addrs \subseteq devices[d].addrs
  <1>3. PICK a \in Addr, no \in Refusals(there), cs \in NoClasses(shaped) :
           link' = IF early THEN Started(Configd(link, no, cs), a)
                   ELSE IF up = Running THEN Configd(Started(link, a), no, cs)
                   ELSE Started(link, a)
    BY DEF Begins
  <1>4. ASSUME NEW l \in Links, Classes(l)
        PROVE  /\ Configd(l, no, cs) \in Links /\ DOMAIN Configd(l, no, cs) = DOMAIN l
               /\ Classes(Configd(l, no, cs))
               /\ DOMAIN l \cap Active \subseteq there => Addrs(Configd(l, no, cs))
    <2> DEFINE m == Configure(l, there, no)
    <2>1. there \subseteq Known
      BY DEF Active
    <2>2. /\ m \in Links /\ DOMAIN m = DOMAIN l
          /\ \A d \in DOMAIN l : m[d].classes = l[d].classes
          /\ \A d \in DOMAIN l \cap there : m[d].addrs \subseteq devices[d].addrs
      <3> HIDE DEF there
      <3>1. QED
        BY <1>1, <1>4, <2>1, ConfigureKeeps
    <2> HIDE DEF m, there
    <2> DEFINE k == ShapeAll(m, shaped, cs)
    <2>3. /\ k \in Links /\ DOMAIN k = DOMAIN m
          /\ \A d \in DOMAIN m : k[d].addrs = m[d].addrs
                                 /\ (d \notin DOMAIN shaped => k[d] = m[d])
          /\ \A d \in DOMAIN m \cap DOMAIN shaped : k[d].classes \subseteq shaped[d]
      BY <1>1, <2>2, ShapeKeeps
    <2> HIDE DEF k
    <2>4. Classes(k)
      BY <1>2, <1>4, <2>2, <2>3
    <2>5. DOMAIN l \cap Active \subseteq there => Addrs(k)
      BY <2>2, <2>3
    <2>6. QED
      BY <2>2, <2>3, <2>4, <2>5 DEF k, m
  <1>5. ASSUME NEW l \in Links, Classes(l)
        PROVE  /\ Started(l, a) \in Links /\ DOMAIN Started(l, a) = DOMAIN l \cup up
               /\ Classes(Started(l, a))
               /\ Addrs(l) => Addrs(Started(l, a))
    <2>1. DOMAIN l \subseteq Dev /\ \A d \in DOMAIN l : l[d] \in Link
      BY <1>5, LinksDef
    <2>2. Plugged({a}) \in Link /\ Plugged({a}).classes = {}
      BY LinkValues DEF Plugged
    <2>3. Started(l, a) \in [DOMAIN l \cup up -> Link] /\ DOMAIN l \cup up \in SUBSET Dev
      BY <2>1, <2>2
    <2>4. Started(l, a) \in Links
      BY <2>3, LinksDef
    <2>5. Classes(Started(l, a))
      BY <1>5, <2>2
    <2>6. \A d \in Eth : d \notin up
      OBVIOUS
    <2>7. Addrs(l) => Addrs(Started(l, a))
      BY <2>6
    <2>8. QED
      BY <2>4, <2>5, <2>7
  <1>6. Classes(link)
    BY DEF QosInv, Seen
  <1> HIDE DEF Configd, Started, Classes, Addrs
  <1>7. Classes(link') /\ (up = Running => Addrs(link'))
    <2>1. CASE early
      <3>1. DOMAIN link \cap Active \subseteq there
        BY <2>1 DEF Seen
      <3>2. /\ Configd(link, no, cs) \in Links
            /\ Classes(Configd(link, no, cs)) /\ Addrs(Configd(link, no, cs))
        BY <1>1, <1>4, <1>6, <3>1
      <3>3. QED
        BY <1>3, <1>5, <2>1, <3>2
    <2>2. CASE ~early
      <3>1. Started(link, a) \in Links /\ Classes(Started(link, a))
            /\ DOMAIN Started(link, a) = DOMAIN link \cup up
        BY <1>1, <1>5, <1>6
      <3>2. DOMAIN Started(link, a) \cap Active \subseteq there
        BY <2>2, <3>1 DEF Seen
      <3>3. QED
        BY <1>3, <1>4, <2>2, <3>1, <3>2
    <2>3. QED
      BY <2>1, <2>2
  <1>8. Active' = Active /\ Known' = Known
    BY <1>2 DEF Active, Known
  <1>9. QosInv'
    <2>1. \A d \in Seen' : \A c \in link'[d].classes :
             d \in DOMAIN qossaved /\ c \in qossaved[d]
      BY <1>7 DEF Classes, Seen
    <2>2. QED
      BY <1>2, <2>1 DEF QosInv
  <1>10. IpInv'
    BY <1>2, <1>7, <1>8 DEF IpInv, Addrs, Seen
  <1>11. QED
    BY <1>9, <1>10

LEMMA RestCommitted ==
    ASSUME IInv, QosInv, IpInv, Ends \/ Outside \/ UNCHANGED vars
    PROVE  QosInv' /\ IpInv'
  <1>1. CASE Ends
    <2>1. /\ ~alive' /\ link' = link /\ devices' = ipsaved.devices /\ shaped' = qossaved
          /\ UNCHANGED <<ipsaved, qossaved>>
      BY <1>1 DEF Ends, network
    <2>2. \A d \in Seen \ DOMAIN qossaved : link[d].classes = {}
      BY DEF QosInv
    <2>3. QosInv'
      BY <2>1, <2>2 DEF QosInv, Seen
    <2>4. IpInv'
      BY <2>1 DEF IpInv, Known
    <2>5. QED
      BY <2>3, <2>4
  <1>2. CASE Outside
    <2>1. UNCHANGED <<devices, ipsaved, qosvars, alive, rolledback>>
      BY <1>2 DEF Outside, ipvars, own
    <2>2. LessClasses /\ LessAddrs
      <3>1. ASSUME NEW d, Change({}, {d}, {}) \/ Change({d}, {}, {})
            PROVE  LessClasses /\ LessAddrs
        BY <3>1, ChangeLess
      <3>2. CASE DefaultAppears
        BY <3>2, SameLess DEF DefaultAppears
      <3>3. QED
        BY <1>2, <3>1, <3>2 DEF Outside, LinkComes, LinkGoes, PppEnds
    <2>3. QED
      BY <2>1, <2>2, ClassesLess, AddrsLess
  <1>3. CASE UNCHANGED vars
    <2>1. UNCHANGED <<link, devices, ipsaved, qosvars, alive, rolledback>>
      BY <1>3 DEF vars, network, ipvars, own
    <2>2. QED
      BY <2>1, SameLess, ClassesLess, AddrsLess
  <1>4. QED
    BY <1>1, <1>2, <1>3

\* What was not committed is not in force: classes at no time, addresses unless the
\* device was gone for a tick or ip has rolled back (OnlyCommitted of Router).
THEOREM OnlyCommittedInForce == Spec => []OnlyCommitted
  <1>1. Init => QosInv /\ IpInv
    <2> SUFFICES ASSUME Init PROVE QosInv /\ IpInv
      OBVIOUS
    <2>1. /\ link = [d \in Eth |-> Plugged({})] /\ alive = TRUE
          /\ ipsaved.devices = devices
      BY DEF Init, NetworkInit, IpInit
    <2>2. \A d \in Seen : link[d].classes = {} /\ link[d].addrs = {}
      BY <2>1 DEF Seen, Plugged
    <2>3. QosInv
      BY <2>1, <2>2 DEF QosInv
    <2>4. IpInv
      BY <2>1, <2>2 DEF IpInv, Known
    <2>5. QED
      BY <2>3, <2>4
  <1>2. IInv /\ QosInv /\ IpInv /\ [Next]_vars => QosInv' /\ IpInv'
    BY IpStepCommitted, PppStepCommitted, QosStepCommitted, TickCommitted,
       BeginsCommitted, RestCommitted DEF Next
  <1>3. QosInv /\ IpInv => OnlyCommitted
    BY DEF QosInv, IpInv, OnlyCommitted
  <1>4. Spec => Init /\ [][Next]_vars
    BY PTL DEF Spec
  <1>5. QED
    BY <1>1, <1>2, <1>3, <1>4, Inductive, PTL

\* A rollback of ppp discards what was not committed, if nothing else was saved.
THEOREM RollbacksDiscard == Spec => RollbackDiscards
  <1> DEFINE Discards == PppRollback => committed \in {None, DataOf(conns')}
  <1>1. IInv /\ [Next]_vars => [Discards]_vars
    <2>1. ASSUME IInv PROVE Discards
      BY <2>1 DEF PppRollback, IInv, PppInv, SavedIsCommitted
    <2>2. QED
      BY <2>1
  <1>2. Spec => Init /\ [][Next]_vars
    BY PTL DEF Spec
  <1>3. QED
    BY <1>1, <1>2, Inductive, PTL DEF RollbackDiscards
=============================================================================

------------------------------ MODULE IpService ------------------------------
(***************************************************************************)
(* services/ip: devices, their addresses and routes, the routes without a  *)
(* device, and hops.                                                       *)
(*                                                                         *)
(* A container holds the addresses of a device, and another one its        *)
(* routes: sets here, since neither order nor index matters to the kernel. *)
(* A command of ip(8) on a device that is not there fails, and so does a   *)
(* route on a device that is down.  The kernel may refuse any address or   *)
(* route, a gateway that it cannot reach say; the code goes on.  Nothing   *)
(* calls device_up_hook, so _restart_services has no services to restart.  *)
(***************************************************************************)
EXTENDS Network

VARIABLES
    devices,  \* IpHandler.devices
    hops,     \* IpHandler.hops: the devices that were given for them
    nodev,    \* IpHandler.no_device_routes
    ipsaved   \* the pickle files of the three

ipvars == <<devices, hops, nodev, ipsaved>>

IpDevice == [active : BOOLEAN, addrs : SUBSET Addr, routes : SUBSET Route]
IpDevices == UNION {[ds -> IpDevice] : ds \in SUBSET Dev}
IpSaved == [devices : IpDevices, hops : SUBSET Dev, nodev : SUBSET Route]

IpTypeOK == /\ devices \in IpDevices
            /\ hops \in SUBSET Dev
            /\ nodev \in SUBSET Route
            /\ ipsaved \in IpSaved

Known == DOMAIN devices

\* Device.__init__; a PPP device is listed with the address that it has.
NewDevice(d) == [active |-> TRUE, routes |-> {},
                 addrs |-> IF d \in Ppp THEN link[d].addrs ELSE {}]

IpInit == /\ devices = [d \in Seen |-> NewDevice(d)]
          /\ hops = {} /\ nodev = {}
          /\ ipsaved = [devices |-> devices, hops |-> hops, nodev |-> nodev]

-----------------------------------------------------------------------------
\* What the kernel refuses of the devices ds: some of their addresses and routes.
Refusals(ds) == {no \in [ds -> SUBSET (Addr \cup Route)] :
                    \A d \in ds : no[d] \subseteq devices[d].addrs \cup devices[d].routes}

\* _write_config_for_device: flush, and add, each by itself.
Configured(l, device, no) ==
    [l EXCEPT !.addrs = device.addrs \ no,
              !.routes = IF l.up THEN device.routes \ no ELSE {}]
Configure(l, ds, no) == [d \in DOMAIN l |-> IF d \in ds
                                            THEN Configured(l[d], devices[d], no[d])
                                            ELSE l[d]]

\* _bring_up_no_dev_routes: what was deleted is not taken away.
BringUp(rs) == \E new \in SUBSET rs : routes' = routes \cup new

\* _write_hops: the default route is deleted.  Hop(gateway, device) is called
\* with the device first, so no hop is on a device that is known, and the
\* command that should add the new default route has no hop in it and fails.
WriteHops == default' = (default /\ hops = {})

Active == {d \in Known : devices[d].active}

-----------------------------------------------------------------------------
\* addr and route with a device: add, update, delete, clear.
AddrsOf(d, addrs) == /\ d \in Known
                     /\ addrs # devices[d].addrs
                     /\ devices' = [devices EXCEPT ![d].addrs = addrs]
                     /\ UNCHANGED <<network, hops, nodev, ipsaved>>

RoutesOf(d, rs) == /\ d \in Known
                   /\ rs # devices[d].routes
                   /\ devices' = [devices EXCEPT ![d].routes = rs]
                   /\ UNCHANGED <<network, hops, nodev, ipsaved>>

\* route without a device: add and delete.
NoDevRoutes(r) == /\ nodev' = IF r \in nodev THEN nodev \ {r} ELSE nodev \cup {r}
                  /\ UNCHANGED <<network, devices, hops, ipsaved>>

\* hop: add and delete.  The container does not find a hop twice.
Hops(d) == /\ d \in Known
           /\ hops' = IF d \in hops THEN hops \ {d} ELSE hops \cup {d}
           /\ UNCHANGED <<network, devices, nodev, ipsaved>>

\* dev up and dev down.  call() raises for a device that is not there.
DeviceUp(d) == /\ d \in Known \cap Seen
               /\ \E new \in SUBSET devices[d].routes :
                     link' = [link EXCEPT ![d].up = TRUE, ![d].routes = @ \cup new]
               /\ BringUp(nodev)
               /\ UNCHANGED <<default, refused, events, ipvars>>

DeviceDown(d) == /\ d \in Known \cap Seen
                 /\ link' = [link EXCEPT ![d].up = FALSE, ![d].routes = {}]
                 /\ BringUp(nodev)
                 /\ UNCHANGED <<default, refused, events, ipvars>>

IpCommit == /\ ipsaved' = [devices |-> devices, hops |-> hops, nodev |-> nodev]
            /\ \E no \in Refusals(Active \cap Seen) :
                  link' = Configure(link, Active \cap Seen, no)
            /\ BringUp(nodev)
            /\ WriteHops
            /\ UNCHANGED <<refused, events, devices, hops, nodev>>

IpRollback == /\ devices' = ipsaved.devices
              /\ hops' = ipsaved.hops
              /\ nodev' = ipsaved.nodev
              /\ UNCHANGED <<network, ipsaved>>

-----------------------------------------------------------------------------
Back == {d \in Known \cap Seen : ~devices[d].active}

\* A bug: a device that is back is taken for one that never went.
IpTickForgets ==
    /\ devices' = [d \in Known \cup Seen |->
                    IF d \notin Known THEN NewDevice(d)
                    ELSE [devices[d] EXCEPT !.active = d \in Seen]]
    /\ UNCHANGED <<link, routes, default, refused, events, hops, nodev, ipsaved>>

\* refresh_devices, with ds the devices that are configured again.
Refresh(ds) ==
    /\ devices' = [d \in Known \cup Seen |->
                    IF d \notin Known THEN NewDevice(d)
                    ELSE [devices[d] EXCEPT !.active = @ /\ d \in Seen]]
    /\ \E no \in Refusals(ds) :
          /\ link' = Configure(link, ds, no)
          /\ refused' = (refused \ ds) \cup {d \in ds : no[d] # {}}
    /\ IF Back # {} \/ ~(Known \subseteq Seen) THEN BringUp(nodev)
       ELSE UNCHANGED routes
    /\ IF Back # {} THEN WriteHops ELSE UNCHANGED default
    /\ UNCHANGED <<events, hops, nodev, ipsaved>>

\* A bug: when a device is back all are configured again.
IpTickWritesAll == Refresh(IF Back = {} THEN {} ELSE Known \cap Seen)

\* handle_timer.  A device that is back is configured again, and not marked as
\* active: the code sets an attribute of the handler.
IpTick == Refresh(Back)

IpEdit == \/ \E d \in Dev : \/ \E addrs \in SUBSET Addr : AddrsOf(d, addrs)
                            \/ \E rs \in SUBSET Route : RoutesOf(d, rs)
                            \/ Hops(d)
          \/ \E r \in Route : NoDevRoutes(r)
=============================================================================

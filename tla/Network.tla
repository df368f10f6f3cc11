------------------------------- MODULE Network -------------------------------
(***************************************************************************)
(* What the services of the router share: the network devices of the       *)
(* kernel and the routes that belong to no device.  get_network_devices()  *)
(* of pymin/service/util.py lists the devices that are there, up or down.  *)
(*                                                                         *)
(* A device may go at any time, and come back with nothing configured; the *)
(* device of a PPP connection comes and goes with its pppd, and has the    *)
(* address that was negotiated.                                            *)
(***************************************************************************)
EXTENDS Naturals, Sequences

CONSTANTS Eth,       \* the devices that are plugged in
          Ppp,       \* the PPP connections, and their devices
          Addr,      \* the addresses that a device may have
          Route,     \* routes, of a device or of none
          Class,     \* the traffic classes of a device
          MaxEvents  \* how often a device goes or comes by itself

ASSUME NetworkAssumption == Eth \cap Ppp = {} /\ MaxEvents \in Nat

VARIABLES
    link,     \* the devices that are there
    routes,   \* the routes without a device
    default,  \* is there a default route?
    refused,  \* history: the devices that came back and that a tick has configured,
              \* but for something that the kernel refused
    events    \* how often a device went or came by itself

network == <<link, routes, default, refused, events>>

Dev == Eth \cup Ppp
Link == [up : BOOLEAN, addrs : SUBSET Addr, routes : SUBSET Route,
         classes : SUBSET Class]

\* get_network_devices(): ip -o link.
Seen == DOMAIN link

NetworkTypeOK == /\ link \in UNION {[ds -> Link] : ds \in SUBSET Dev}
                 /\ routes \in SUBSET Route
                 /\ default \in BOOLEAN
                 /\ refused \in SUBSET Dev
                 /\ events \in 0..MaxEvents

Plugged(addrs) == [up |-> TRUE, addrs |-> addrs, routes |-> {},
                   classes |-> {}]

NetworkInit == /\ link = [d \in Eth |-> Plugged({})]
               /\ routes = {}
               /\ default = FALSE
               /\ refused = {}
               /\ events = 0

\* Devices go, with the routes that went through them, and devices come.
Change(going, coming, addrs) ==
    /\ link' = [d \in (Seen \ going) \cup coming |->
                    IF d \in coming THEN Plugged(addrs) ELSE link[d]]
    /\ routes' \in IF going = {} THEN {routes} ELSE {routes, {}}
    /\ default' \in IF going = {} THEN {default} ELSE {default, FALSE}
    /\ refused' = refused \ (going \cup coming)

Event == events < MaxEvents /\ events' = events + 1

LinkComes(d) == Event /\ d \in Eth \ Seen /\ Change({}, {d}, {})
LinkGoes(d) == Event /\ d \in Eth \cap Seen /\ Change({d}, {}, {})

\* Somebody, a DHCP client say, sets a default route.
DefaultAppears == /\ Event
                  /\ ~default
                  /\ default' = TRUE
                  /\ UNCHANGED <<link, routes, refused>>
=============================================================================

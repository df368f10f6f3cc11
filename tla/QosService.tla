----------------------------- MODULE QosService -----------------------------
(***************************************************************************)
(* services/qos: the traffic classes of the devices.  A class stands for   *)
(* its rate and its hosts as well.  A commit deletes the queueing          *)
(* discipline of every device and builds it again; a command of tc(8) on a *)
(* device that is not there fails, any that adds may fail, and the code    *)
(* goes on.  A discipline without classes shapes nothing, so whether there *)
(* is one is left out, and with it the command dev up.                     *)
(***************************************************************************)
EXTENDS Network

VARIABLES
    shaped,   \* QoSHandler.devices: the classes of a device
    qossaved  \* its pickle file

qosvars == <<shaped, qossaved>>

Shapes == UNION {[ds -> SUBSET Class] : ds \in SUBSET Dev}

QosTypeOK == shaped \in Shapes /\ qossaved \in Shapes

QosInit == /\ shaped = [d \in Seen |-> {}]
           /\ qossaved = shaped

-----------------------------------------------------------------------------
\* _write_config: of the classes of a device the kernel has refused some.
Shaped(l, classes, no) == [l EXCEPT !.classes = classes \ no]
ShapeAll(l, shapes, no) == [d \in DOMAIN l |-> IF d \in DOMAIN shapes
                                               THEN Shaped(l[d], shapes[d], no[d])
                                               ELSE l[d]]
NoClasses(shapes) == {no \in [DOMAIN shapes -> SUBSET Class] :
                        \A d \in DOMAIN shapes : no[d] \subseteq shapes[d]}

\* cls add, which replaces a class with its hosts, cls delete, host add.
ClassesOf(d, cs) == /\ d \in DOMAIN shaped
                    /\ cs # shaped[d]
                    /\ shaped' = [shaped EXCEPT ![d] = cs]
                    /\ UNCHANGED <<network, qossaved>>

\* dev down.
ShapeDown(d) == /\ d \in DOMAIN shaped \cap Seen
                /\ link' = [link EXCEPT ![d].classes = {}]
                /\ UNCHANGED <<routes, default, refused, events, qosvars>>

QosCommit == /\ qossaved' = shaped
             /\ \E no \in NoClasses(shaped) : link' = ShapeAll(link, shaped, no)
             /\ UNCHANGED <<routes, default, refused, events, shaped>>

QosRollback == /\ shaped' = qossaved
               /\ UNCHANGED <<network, qossaved>>

\* handle_timer, refresh_devices: a device that is gone loses its classes.
QosTick == /\ shaped' = [d \in Seen |-> IF d \in DOMAIN shaped THEN shaped[d] ELSE {}]
           /\ UNCHANGED qossaved
=============================================================================

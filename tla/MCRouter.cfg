SPECIFICATION Spec
CONSTANTS
    eth0 = eth0
    ppp0 = ppp0
    addr1 = addr1
    route1 = route1
    class1 = class1
    dialup = dialup
    tunnel = tunnel
    Eth = {eth0}
    Ppp = {ppp0}
    Addr = {addr1}
    Route = {route1}
    Class = {class1}
    Data = {dialup, tunnel}
    NewData = {dialup}
    None = None
    MaxEdits = 2
    MaxEvents = 2
INVARIANTS RouterTypeOK OnlyCommitted
PROPERTIES RollbackDiscards ReturnedDeviceIsConfigured

SPECIFICATION DnsSpec
CONSTANTS
    zone1 = zone1
    zone2 = zone2
    host1 = host1
    ip1 = ip1
    Zone = {zone1, zone2}
    Host = {host1}
    Ip = {ip1}
    NoFile = NoFile
    ZonesHere = TRUE
    MaxEdits = 5
    MaxRestarts = 1
SYMMETRY MCSymmetry
INVARIANTS DnsTypeOK FlagsTellAll
PROPERTIES ReloadServesZones CommitRemovesDeleted

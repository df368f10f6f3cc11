SPECIFICATION VrrpFairSpec
CONSTANTS
    vrrp = vrrp
    Name = {vrrp}
    Pid = {p1, p2}
    NoName = NoName
    NoPid = NoPid
    NoFiles = NoFiles
    MaxErrors = 3
    CanFail = TRUE
INVARIANTS
    VrrpTypeOK
    FlagIsSaved
PROPERTIES
    NothingStartsWhileStopped
    BootStarts
    StoppedGoesAway

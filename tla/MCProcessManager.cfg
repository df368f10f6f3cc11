SPECIFICATION FairSpec
CONSTANTS
    Name = {n1, n2}
    Pid = {p1, p2, p3}
    NoName = NoName
    NoPid = NoPid
    MaxErrors = 1
    CanFail = TRUE
INVARIANTS
    TypeOK
    MapsAgree
    ChildrenManaged
    NoExitIsLost
PROPERTIES
    SupervisionSpec
    ZombiesAreReaped
    StopTakesEffect
    PersistentComesBack

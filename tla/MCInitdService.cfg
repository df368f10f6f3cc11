SPECIFICATION FairSpec

CONSTANTS
    v0 = v0
    v1 = v1
    Value = {v0, v1}
    Default = v0
    Absent = Absent
    Cut = Cut
    MaxFaults = 2

INVARIANTS
    TypeOK
    PicklesExist
    ReloadUsesCommitted
    ConfigRendersPickles

PROPERTIES
    BootStarts
    FlagConverges
    ComesUpUnlessCut

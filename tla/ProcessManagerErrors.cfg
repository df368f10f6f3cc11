SPECIFICATION Spec
CONSTANTS
    Name = {n1, n2}
    Pid = {p1, p2, p3}
    NoName = NoName
    NoPid = NoPid
    MaxErrors = 1
    CanFail = TRUE
PROPERTIES
    FailuresAccumulate

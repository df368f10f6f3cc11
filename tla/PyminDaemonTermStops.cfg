SPECIFICATION FairSpec
CONSTANTS
    Client = {c1, c2}
    NoClient = NoClient
    MaxSent = 1
    CanFail = FALSE
PROPERTIES
    TermStops

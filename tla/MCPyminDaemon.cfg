SPECIFICATION BusySpec
CONSTANTS
    Client = {c1, c2}
    NoClient = NoClient
    MaxSent = 1
    CanFail = TRUE
INVARIANTS
    TypeOK
    ReceiveNeverBlocks
    StopEndsTheTurn
    TimerNeverDies
PROPERTIES
    TermStops
    ChildSignalHandled
    TimerTicks
    RequestsAnswered

SPECIFICATION Spec
CONSTANTS
    Clients = {c1, c2}
    MaxThreads = 2
    MaxFrames = 2
    MaxTicks = 0
    NoClient = NoClient
    Free = Free
SYMMETRY Symmetry
INVARIANTS
    TypeOK
    NoUseAfterFree
    CounterExact
    SessionSerial
    NothingDropped
    DrainedAtExit

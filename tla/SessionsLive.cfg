SPECIFICATION FairSpec
CONSTANTS
    Clients = {c1}
    MaxThreads = 2
    MaxFrames = 3
    MaxTicks = 1
    NoClient = NoClient
    Free = Free
PROPERTIES
    DisconnectReclaims
    FrameProcessed
    ShutdownTerminates

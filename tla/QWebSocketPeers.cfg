SPECIFICATION FairSpec
CONSTANTS
    Len7 = 3
    Len16 = 4
    MaxFrame = 5
    MaxMessage = 5
    Len63 = 7
    FrameSize = 4
    Kinds = {"qt", "raw"}
    Messages <- MCMessages
    Pings <- MCPings
    Closings <- MCClosings
    RawFrames <- MCRawFrames
    MaskKey = 1
    MaxSent <- MCMaxSent
    MaxPings <- MCMaxPings
    MaxRaw = 2
    Aborting = {"client"}
    Farewells <- MCFarewells
CHECK_DEADLOCK FALSE
INVARIANTS
    PeersTypeOK
    CloseCodeFromPeer
    AllReceivedAtClose
    FailedWithReason
PROPERTIES
    ChannelSpec
    ConnectionSettles

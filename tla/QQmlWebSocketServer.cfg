CONSTANTS
    MaxHeaderLines = 6
    c1 = c1
    c2 = c2
    Conns = {c1, c2}
    Requests <- MCRequests
    AllowedOrigins = {"good"}
    Modes = {"plain", "secure"}
    Users = {"slot", "later", "qml", "echo", "chat", "sslecho"}
    Limits = {1}
    TcpMaxPending = 1
    Names = {FALSE, TRUE}
    MaxCalls <- MCMaxCalls
    Hosts = {"address", "name"}
    Ports = {0, 1}
    FreePort = 1
SPECIFICATION ExampleFairSpec
INVARIANTS UpgradeIsLegal NobodyLost LegalIsServed ListensAsItSays
PROPERTIES ClientsAreSettled
CHECK_DEADLOCK FALSE

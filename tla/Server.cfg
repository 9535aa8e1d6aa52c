SPECIFICATION Spec
CONSTANTS
    Clients = {c1, c2}
    Kinds = {"login", "save"}
    MaxThreads = 2
    MaxRequests = 3
    MaxReconnects = 1
    MaxFaults = 0
    Titles = {t1}
    Passwords = {p1, p2}
    Texts = {x0, x1, x2}
    Unquotable = {}
    Oversized = {x2}
    EmptyTitle = t0
    EmptyText = x0
    NoPassword = NoPassword
    NoText = NoText
    NoTxn = NoTxn
SYMMETRY Symmetry
INVARIANTS
    SrvTypeOK
    OkMeansStored
    LoginsAreSound
PROPERTIES
    StoreSpec

SPECIFICATION Spec
CONSTANTS
    Clients = {c1}
    Kinds = {"save"}
    MaxThreads = 2
    MaxRequests = 2
    MaxReconnects = 0
    MaxFaults = 0
    Titles = {t1}
    Passwords = {p1}
    Texts = {x0, x1}
    Unquotable = {}
    Oversized = {}
    EmptyTitle = t0
    EmptyText = x0
    NoPassword = NoPassword
    NoText = NoText
    NoTxn = NoTxn
SYMMETRY Symmetry
INVARIANTS
    LatestSaveWins

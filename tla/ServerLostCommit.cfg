SPECIFICATION Spec
CONSTANTS
    Clients = {c1}
    Kinds = {"login", "save"}
    MaxThreads = 1
    MaxRequests = 1
    MaxReconnects = 0
    MaxFaults = 1
    Titles = {t1}
    Passwords = {p1}
    Texts = {x0, x1}
    Unquotable = {}
    Oversized = {}
    EmptyTitle = t0
    EmptyText = x0
    NoPassword = NoPassword
    NoText = NoText
    NoTxn = NoTxn
SYMMETRY Symmetry
INVARIANTS
    OkMeansStored

SPECIFICATION FairSpec
CONSTANTS
    Clients = {c1}
    Kinds = {"syn", "login", "login_bad", "save", "save_short", "junk"}
    MaxThreads = 2
    MaxRequests = 2
    MaxReconnects = 1
    MaxFaults = 1
    Titles = {t1, q1}
    Passwords = {p1}
    Texts = {x0}
    Unquotable = {q1}
    Oversized = {}
    EmptyTitle = t0
    EmptyText = x0
    NoPassword = NoPassword
    NoText = NoText
    NoTxn = NoTxn
INVARIANTS
    AnsweredOnce
    AnswersAreTrue
PROPERTIES
    RequestAnswered
    ReconnectEnds

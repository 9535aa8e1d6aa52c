SPECIFICATION Spec
CHECK_DEADLOCK FALSE
CONSTANTS
    Clients = {c1}
    Titles = {t0, t1}
    Passwords = {w0, w1}
    Texts = {x1}
    EmptyTitle = t0
    EmptyPassword = w0
    NoPassword = NoPassword
    NoText = NoText
    DefaultText = d0
    Links <- AllLinks
    MaxSubmits = 1
    MaxHurry = 2
    MaxSaves = 1
    MaxEdits = 1
INVARIANTS
    ClientTypeOK
    PageIsTruthful
    ResendsAreBounded
PROPERTIES
    CreatedOnlyWhenAsked

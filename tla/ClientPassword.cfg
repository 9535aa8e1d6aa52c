SPECIFICATION Spec
CHECK_DEADLOCK FALSE
CONSTANTS
    Clients = {c1}
    Titles = {t0, t1, t2}
    Passwords = {w0, w1}
    Texts = {}
    EmptyTitle = t0
    EmptyPassword = w0
    NoPassword = NoPassword
    NoText = NoText
    DefaultText = d0
    Links <- AllLinks
    MaxSubmits = 3
    MaxHurry = 0
    MaxSaves = 0
    MaxEdits = 0
PROPERTIES
    CreatedWithPasswordEntered

SPECIFICATION Spec
CONSTANTS
    b1 = b1
    b2 = b2
    p1 = p1
    p2 = p2
    Browsers = {b1, b2}
    Attended = {b1}
    Passwords = {p1, p2}
    None = None
    FirstSpaces = 0
    MaxSpaces = 4
    MaxActs = 4
    MaxFaults = 1
INVARIANTS
    TypeOK
    SetupIsKept
    ReadyShowsATab
PROPERTIES
    DefaultOnlyWhenEmpty
    PagesComeUp
CHECK_DEADLOCK FALSE

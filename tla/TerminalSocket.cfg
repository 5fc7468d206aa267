SPECIFICATION Spec
CONSTANTS
    Attempts = {a1, a2, a3}
    s1 = s1
    s2 = s2
    Sizes = {s1, s2}
    AttachSize = s0
    None = None
    Disturbances = {"lost", "hangup", "expiry", "setup", "restart", "reset"}
    MaxActs = 8
INVARIANTS
    TypeOK
    OneConnection
    NeverStranded
    SizeIsCurrent
PROPERTIES
    ComesBack
CHECK_DEADLOCK FALSE

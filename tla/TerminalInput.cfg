SPECIFICATION Spec
CONSTANTS
    t1 = t1
    t2 = t2
    Tabs = {t1, t2}
    None = None
    MaxInputs = 3
SYMMETRY TabSymmetry
INVARIANTS
    TypeOK
    SentAsEntered
    LossIsExcused
    LockFollowsScreen
CHECK_DEADLOCK FALSE

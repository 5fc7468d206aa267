SPECIFICATION Spec
CONSTANTS
    w1 = w1
    w2 = w2
    w3 = w3
    t1 = t1
    t2 = t2
    t3 = t3
    t4 = t4
    Workspaces = {w1, w2, w3}
    Tabs = {t1, t2, t3, t4}
    Calls = {c1, c2}
    None = None
    Undefined = Undefined
    ErrorBody = ErrorBody
    StartSpaces <- MCTwoSpaces
    StartTabs <- MCTwoTabs
    MaxToasts = 1
    Noisy = {}
    MaxListed = 3
    MaxActs = 4
INVARIANTS
    TypeOK
    SoleActorIsExact
PROPERTIES
    PollRepairs
CHECK_DEADLOCK FALSE

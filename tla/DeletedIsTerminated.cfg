SPECIFICATION Spec
CHECK_DEADLOCK FALSE
SYMMETRY MCSymmetry
CONSTANTS
    w1 = w1
    w2 = w2
    t1 = t1
    t2 = t2
    t3 = t3
    r1 = r1
    r2 = r2
    Workspaces = {w1}
    Tabs = {t1, t2}
    Requests = {r1, r2}
    Root = Root
    None = None
    MaxBoots = 1
INVARIANT DeletedIsTerminated

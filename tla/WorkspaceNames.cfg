SPECIFICATION NamesSpec
CONSTANTS
    w1 = w1
    w2 = w2
    w3 = w3
    n0 = n0
    n1 = n1
    n2 = n2
    c1 = c1
    c2 = c2
    Workspaces = {w1, w2, w3}
    StartSpaces = {w1, w2}
    Names = {n0, n1, n2}
    StartName = n0
    Calls = {c1, c2}
    Blank = Blank
    Null = Null
    Gone = Gone
    Broken = Broken
    MaxActs = 9
    MaxFaults = 1
SYMMETRY NameSymmetry
INVARIANTS
    NamesTypeOK
    NamesAgree
    OwnNames
CHECK_DEADLOCK FALSE

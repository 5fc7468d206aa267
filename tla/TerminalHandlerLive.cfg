SPECIFICATION Spec
CHECK_DEADLOCK FALSE
CONSTANTS
    s1 = s1
    h1 = h1
    h2 = h2
    a1 = a1
    z1 = z1
    Sessions = {s1}
    Handles = {h1, h2}
    Admins = {}
    Sizes = {z1}
    None = None
    Fresh = Fresh
    MaxBoots = 1
    SessionOf <- MCSessionOf
CONSTRAINT MCBound
PROPERTIES
    HandlersReturn
    PumpsEnd

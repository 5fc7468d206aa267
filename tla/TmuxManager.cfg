SPECIFICATION Spec
SYMMETRY MCSymmetry
CONSTANTS
    s1 = s1
    s2 = s2
    h1 = h1
    h2 = h2
    h3 = h3
    a1 = a1
    z1 = z1
    z2 = z2
    Sessions = {s1, s2}
    Handles = {h1, h2, h3}
    Admins = {a1}
    Sizes = {z1, z2}
    None = None
    Fresh = Fresh
    MaxBoots = 1
    SessionOf <- MCSessionOf
INVARIANTS
    TypeOK
    SlotsHoldTheLive
    CacheNotContradicted
PROPERTIES
    ImplementsAttachSlot

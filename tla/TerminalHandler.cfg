SPECIFICATION Spec
SYMMETRY MCSymmetry
CONSTANTS
    s1 = s1
    h1 = h1
    h2 = h2
    a1 = a1
    z1 = z1
    Sessions = {s1}
    Handles = {h1, h2}
    Admins = {a1}
    Sizes = {}
    None = None
    Fresh = Fresh
    MaxBoots = 0
    SessionOf <- MCSessionOf
INVARIANTS
    TypeOK
    ReturnedIsReaped
PROPERTIES
    LegalManagerUse

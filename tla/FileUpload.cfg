SPECIFICATION Spec
CONSTANTS
    a = a
    b = b
    p = p
    q = q
    r = r
    d1 = d1
    d2 = d2
    Tabs = {t1, t2}
    Drops = {d1, d2}
    Names = {a, b}
    Paths = {p, q, r}
    Candidates <- MCCandidates
    None = None
    Other = Other
    Earlier = {r}
    MaxFiles <- MCMaxFiles
    MaxActs = 2
INVARIANTS
    TypeOK
    UploadsAreKept
    NoStrayFiles
    PastedWhereDropped
PROPERTIES
    DropsEnd
CHECK_DEADLOCK FALSE

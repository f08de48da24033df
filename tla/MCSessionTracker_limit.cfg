SPECIFICATION Spec
CONSTANTS
    Keys = {k1, k2}
    Paths = {"a"}
    Threads = {t1, t2}
    Matchers <- MCMatchers
    MaxEntries = 1
    TTL = 2
    maxPageviewStamps = 3
    Limit = 2
    Window = 2
    MaxTime = 3
SYMMETRY Symmetry
INVARIANTS
    TypeOK
    OvershootBounded
    StampsSuffice
PROPERTIES
    GraceKept

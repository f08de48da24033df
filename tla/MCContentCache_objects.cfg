SPECIFICATION Spec
CONSTANTS
    Keys = {k1, k2}
    Threads = {t1, t2}
    TTLs = {1, 2}
    Sizes = {0, 1, 2}
    MaxObject = 1
    MaxEntries = 1
    MaxTransfer = 1
    MaxTime = 5
SYMMETRY Symmetry
INVARIANTS
    TypeOK
    OnlyWholeObjects
PROPERTIES
    HitsAreFresh

SPECIFICATION Spec
CONSTANTS
    IPs = {ip1}
    Threads = {t1, t2}
    BlockThreshold = 2
    Window = 1
    GreylistTTL = 1
    BlockTTL = 1
    CleanTTL = 0
    MaxTime = 3
    MaxIncidents = 2
    MaxCrashes = 1
    DbFaults = TRUE
SYMMETRY ThreadSymmetry
VIEW WithoutLog
INVARIANTS
    TypeOK
    JustifiedBlocks
PROPERTIES
    UnblockedOnlyBy
    ImplementsStore

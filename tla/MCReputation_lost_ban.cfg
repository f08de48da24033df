SPECIFICATION Spec
CONSTANTS
    IPs = {ip1}
    Threads = {t1, t2}
    BlockThreshold = 2
    Window = 1
    GreylistTTL = 1
    BlockTTL = 1
    CleanTTL = 1
    MaxTime = 5
    MaxIncidents = 3
    MaxCrashes = 0
    DbFaults = FALSE
SYMMETRY ThreadSymmetry
PROPERTIES
    BlockLastsItsTTL

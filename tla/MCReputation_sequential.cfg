SPECIFICATION FairSpec
CONSTANTS
    IPs = {ip1}
    Threads = {t1}
    BlockThreshold = 2
    Window = 1
    GreylistTTL = 1
    BlockTTL = 2
    CleanTTL = 1
    MaxTime = 5
    MaxIncidents = 3
    MaxCrashes = 1
    DbFaults = FALSE
INVARIANTS
    DurableWhenQuiet
    LogTellsState
    NoMissedBlock
PROPERTIES
    BlockLastsItsTTL
    BlockEnds

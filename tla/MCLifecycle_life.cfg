SPECIFICATION FairSpec
CONSTANTS
    Streams = {access, service}
    HTTP3 = TRUE
    MaxConns = 1
    MaxCrashes = 1
INVARIANTS
    TypeOK
    PolicyInstalled
    FilteredWhileServing
PROPERTIES
    NoRequestCut
    ShutdownEnds
    BlackholeEnds
    LogsFollow

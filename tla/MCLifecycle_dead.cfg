SPECIFICATION Spec
CONSTANTS
    Streams = {access}
    HTTP3 = FALSE
    MaxConns = 1
    MaxCrashes = 1
INVARIANTS
    DeadIsBypassed

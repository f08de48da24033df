SPECIFICATION Spec
CONSTANTS
    IPs = {ip1, ip2}
    Threads = {t1, t2}
    Requests <- MCRequests
    Threshold = 100
    Bursts = {0, 1, 2}
    Window = 2
    SensitiveWeight = 2
    MaxIPs = 1
    MaxTime = 4
    MaxDelay = 1
    MaxReloads = 1
SYMMETRY Symmetry
INVARIANTS
    TypeOK
    BudgetHolds
PROPERTIES
    ThrottledForCause
    AnomalyForCause

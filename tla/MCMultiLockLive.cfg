CONSTANTS
    n1 = n1
    n2 = n2
    Nodes = {n1, n2}
    N = 2
    Lag = 1
    RetryPeriod = 1
    RenewDeadline = 2
    LeaseDuration = 3
    StartsEmpty = TRUE
    Faults = {"crash"}
SPECIFICATION FairSpec
PROPERTIES
    LockIsTakenOver

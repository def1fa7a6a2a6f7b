CONSTANTS
    n1 = n1
    n2 = n2
    Nodes = {n1, n2}
    N = 2
    Lag = 3
    RetryPeriod = 2
    RenewDeadline = 6
    LeaseDuration = 12
    StartsEmpty = TRUE
    Faults = {}
SYMMETRY NodeSymmetry
SPECIFICATION Spec
INVARIANTS
    AtMostOneLeader

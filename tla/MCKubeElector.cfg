CONSTANTS
    r1 = r1
    r2 = r2
    Routines = {r1, r2}
    MaxLaunches = 1
    MaxStops = 1
    MaxReports = 3
SPECIFICATION FairSpec
INVARIANTS
    TypeOK
    LiveUntilCancel
PROPERTIES
    ImplementsSessions
    HeldLockStarts
    ReturnEndsRoutines
CHECK_DEADLOCK FALSE

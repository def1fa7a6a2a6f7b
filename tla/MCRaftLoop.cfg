CONSTANTS
    r1 = r1
    Routines = {r1}
    MaxLaunches = 2
    MaxStops = 2
    MaxMsgs = 1
SPECIFICATION FairSpec
INVARIANTS
    TypeOK
    LiveOnlyWhileObservedLeading
    NoLiveContextAfterCancel
    RoutinesAgreeWithPublished
    OneLoopPerRoutine
PROPERTIES
    ImplementsSessions
    LossEndsRoutines
    LossClearsIsLeader
    StableLeaderStarts
    RunEnds
CHECK_DEADLOCK FALSE

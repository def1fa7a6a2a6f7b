CONSTANTS
    r1 = r1
    Routines = {r1}
    MaxLaunches = 2
    MaxStops = 2
    MaxMsgs = 1
SPECIFICATION FairSpec
PROPERTIES
    StableLeaderRuns
CHECK_DEADLOCK FALSE

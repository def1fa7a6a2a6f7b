CONSTANTS
    c1 = c1
    r1 = r1
    Names = {c1}
    Runnables <- MCRunnables
    Warm = {}
    MaxListeners = 2
    MaxVersions = 2
SPECIFICATION FairSpec
INVARIANTS
    TypeOK
    NoClusterForgotten
    StaticAreEngaged
PROPERTIES
    ClusterIsEngaged
    GoroutinesEnd
CHECK_DEADLOCK FALSE

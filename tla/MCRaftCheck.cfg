CONSTANTS
    n1 = n1
    n2 = n2
    Nodes = {n1, n2}
    None = None
    MaxTerm = 2
    MaxRestarts = 1
SPECIFICATION FairSpec
INVARIANTS
    TypeOK
    OneLeaderPerTerm
    MutualForwardingIsLag
    AnswersComeFromLeaders
PROPERTIES
    CheckEnds
    StopEnds
CHECK_DEADLOCK FALSE

CONSTANTS
    N = 3
    MaxAttempts = 3
SPECIFICATION FairSpec
INVARIANTS
    TypeOK
    SuccessIsComplete
    SecretsAreTheirs
    NewestFirst
PROPERTIES
    CollectsBeforeItWrites
    UndisturbedSucceeds
CHECK_DEADLOCK FALSE

CONSTANTS
    Hour = 2
    Year = 4
    Configurations <- MCConfigurations
    MaxTime = 18
    MaxCAs = 3
    MaxDelay = 2
SPECIFICATION Spec
INVARIANTS
    TypeOK
    IssuedWithinIssuer
    NeverTooYoungToSign
CHECK_DEADLOCK FALSE

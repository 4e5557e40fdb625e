CONSTANTS
    Attempts = 10
    FirstDelay = 2000
    MaxDelay = 60000
    RestartSec = 10000
    StartLimitInterval = 300000
    Burst = 10
    Durations = {0}
    MaxRequests = 2
SPECIFICATION FairSpec
INVARIANTS
    TypeOK
    OutageIsSurvived
    BeatsOnlyWhenKnown
    StaysUp
PROPERTIES
    ProcessEnds
    Recovers

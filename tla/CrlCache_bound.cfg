CONSTANTS
    Serials = {s1}
    Gen = 4
    Interval = 6
    FetchTime = 3
    MaxFailures = 2
    MaxRestarts = 1
SPECIFICATION FairSpec
INVARIANTS
    TypeOK
    StalenessBounded
PROPERTIES
    NeverForgets
    EventuallyRefused

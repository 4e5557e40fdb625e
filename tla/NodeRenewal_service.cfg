CONSTANTS
    Life = 42
    Threshold = 12
    Period = 2
    MaxOff = 13
    MaxFailures = 2
    MaxEnrols = 2
    NoCert = NoCert
SPECIFICATION FairSpec
INVARIANTS
    TypeOK
    LapsesOnlyUnserved
    PairMatches
    HoldsNewest
PROPERTIES
    NeverExpiresInUse

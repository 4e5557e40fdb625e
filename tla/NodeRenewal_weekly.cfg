CONSTANTS
    Life = 42
    Threshold = 12
    Period = 2
    MaxOff = 18
    MaxFailures = 0
    MaxEnrols = 0
    NoCert = NoCert
SPECIFICATION Spec
INVARIANTS
    WeeklyPowerOnSuffices

CONSTANTS
    Life = 6
    Threshold = 2
    Period = 2
    Slack = 1
    Keys = 3
    MaxFaults = 2
    NoCert = NoCert
SPECIFICATION Spec
INVARIANTS
    IssuedIsFresh

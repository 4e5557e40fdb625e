CONSTANTS
    Serials = {s1}
    Gen = 4
    Interval = 6
    FetchTime = 3
    MaxFailures = 0
    MaxRestarts = 0
SPECIFICATION Spec
INVARIANT
    NextCallIsRefused

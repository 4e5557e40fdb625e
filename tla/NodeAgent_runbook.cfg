CONSTANTS
    Attempts = 10
    FirstDelay = 2000
    MaxDelay = 60000
    RestartSec = 10000
    StartLimitInterval = 300000
    Burst = 10
    Durations = {0}
    MaxRequests = 1
SPECIFICATION Spec
PROPERTY
    RestartStartsTheAgent

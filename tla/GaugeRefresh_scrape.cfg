CONSTANTS
    Nodes = {n1, n2}
    Interval = 1
    Beating = {n1}
    QueryTime = 1
    MaxFailures = 1
    MaxRestarts = 1
    Absent = Absent
SPECIFICATION FairSpec
INVARIANTS
    TypeOK
    NoNodeTwice
    CountsCatchUp
    AgesLag
PROPERTIES
    FleetIsShown

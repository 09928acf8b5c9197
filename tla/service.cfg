\* Overlapping connect goroutines, reconnections, every timeout; QoS 0 and 1.
CONSTANTS
    Worker = {w1}
    Handler = {h1, h2}
    Output = {o1, o2}
    Input = {i1, i2}
    Reported = {i1}
    QoS = {0, 1}
    MaxConnections = 2
SPECIFICATION FairSpec
INVARIANTS
    TypeOK
    ResourcesOutliveUsers
    OfflineIsLast
    LinesReleased
PROPERTIES
    RunReturns
CHECK_DEADLOCK FALSE

SPECIFICATION FairSpec
CONSTANTS
    sys = sys
    eth0 = eth0
    eth1 = eth1
    c1 = c1
    c2 = c2
    c3 = c3
    System = sys
    Ifaces = {eth0, eth1}
    Callers = {c1, c2, c3}
INVARIANTS RedisOutlivesTasks ReturnsClean SecondCancelNeedsOverlap
PROPERTIES StopEnds
CHECK_DEADLOCK FALSE

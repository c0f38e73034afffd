SPECIFICATION NodeFairSpec
CONSTANTS
    sys = sys
    eth0 = eth0
    sig1 = sig1
    AppDone = AppDone
    Done = Done
    Starter = Starter
    Free = Free
    System = sys
    Ifaces = {eth0}
    Signals = {sig1}
    CatchesCancelled = TRUE
CHECK_DEADLOCK FALSE
PROPERTIES AppErrorEndsNode

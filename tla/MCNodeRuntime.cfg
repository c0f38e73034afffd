SPECIFICATION NodeFairSpec
CONSTANTS
    sys = sys
    eth0 = eth0
    eth1 = eth1
    sig1 = sig1
    sig2 = sig2
    AppDone = AppDone
    Done = Done
    Starter = Starter
    Free = Free
    System = sys
    Ifaces = {eth0, eth1}
    Signals = {sig1, sig2}
    CatchesCancelled = FALSE
INVARIANTS AppGoneFirst CleanupUninterrupted CleanExit ExitCodeTellsErrors
CHECK_DEADLOCK FALSE
PROPERTIES StopCompletes

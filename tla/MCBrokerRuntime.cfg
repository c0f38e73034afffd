SPECIFICATION BrokerFairSpec
CONSTANTS
    sys = sys
    sig1 = sig1
    sig2 = sig2
    AppDone = AppDone
    Free = Free
    Done = Done
    Starter = Starter
    System = sys
    Ifaces = {}
    CatchesCancelled = FALSE
    Signals = {sig1, sig2}
INVARIANTS CleanClose
CHECK_DEADLOCK FALSE
PROPERTIES BrokerCloses

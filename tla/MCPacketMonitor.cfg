SPECIFICATION FairSpec
CONSTANTS
    QueueSize = 2
    MaxPackets = 5
    MaxCancels = 2
INVARIANTS BatchBound NothingVanishes StoredInOrder CaptureStopped
PROPERTIES ImplementsMonitorTask CaptureGone DeadCaptureNoticed
CHECK_DEADLOCK FALSE

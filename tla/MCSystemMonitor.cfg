SPECIFICATION Spec
CONSTANTS
    GroupSize = 2
    MaxSamples = 5
    MaxCancels = 2
INVARIANTS StoredIsPrefix AtMostOneGroupMissing CpuSpansDisjoint
PROPERTIES ImplementsMonitorTask
CHECK_DEADLOCK FALSE

SPECIFICATION MCFairSpec
CONSTANTS
    c2 = c2
    c3 = c3
    ByName = ByName
    Services = {c1, c2, c3}
    Cameras = {c1, c2}
    Replicas <- MCReplicas
    MaxContainers <- MCMaxContainers
    QueueMaxsize = 1
    MaxRounds = 2
    MaxFrames = 2
    Thing = c3
    Streams = {s1, s2}
    SubscriberRounds = 3
    Properties = {p1}
    Observed = {o1}
    Interval = 2
    Buckets = 1
    MaxTime = 9
    MaxDocuments = 1
    CatchesCancelled = FALSE
INVARIANTS NoCameraForgotten OneCommandPerCamera CopiedOnce
PROPERTIES ThingsComeBack CancelledAppEnds
CHECK_DEADLOCK FALSE

SPECIFICATION MCSpec
CONSTANTS
    Tasks = {"a1", "a2"}
    ServiceOf <- MCServiceOf
    MaxRecords = 1
    Nothing = Nothing
    Requests = {q1}
    Subscriptions = {s1}
    MaxEvents = 2
    MaxTime = 2
    CatchesCancelled = FALSE
    Writers = {w1, w2}
    MaxConnections = 6
    MaxDrops = 2
    MaxMistakes = 1
    NoConnection = NoConnection
INVARIANTS MCTypeOK PagesAgree ShownAsItEnded RequestsRecorded TraceKeepsOrder ConnectionsBounded
CHECK_DEADLOCK FALSE

------------------------------ MODULE MCRecords ------------------------------
\* What a node stores beside the samples of its monitor, and what is made of an
\* emulation once it has run, for TLC: the records of interactions, the metrics of
\* an application; the snapshot and the report.  They share no state: the instance
\* chooses one at the start, and only that one takes steps.
EXTENDS StackReport

CONSTANTS
    Requests, Subscriptions, MaxEvents, MaxTime, CatchesCancelled,
    Writers, MaxConnections, MaxDrops, MaxMistakes, NoConnection

\* A record names the request or the subscription that it is about.
ASSUME TraceAssumption ==
    /\ Requests \cap Subscriptions = {}
    /\ MaxEvents \in Nat /\ MaxTime \in Nat /\ CatchesCancelled \in BOOLEAN
ASSUME MetricAssumption ==
    /\ IsFiniteSet(Writers) /\ Writers # {}
    /\ MaxConnections \in Nat /\ MaxDrops \in Nat /\ MaxMistakes \in Nat
    /\ NoConnection \notin Nat

\* A service with a task and its replacement.
MCServiceOf == [t \in Tasks |-> "a"]

VARIABLES
    part,
    time, outcome, emitted, writing, zset, lost, pool,
    state, opened, up, pc, used, drops, mistaken

T == INSTANCE InteractionTrace
C == INSTANCE MetricConnection

traceVars == <<time, outcome, emitted, writing, zset, lost, pool>>
metricVars == <<state, opened, up, pc, used, drops, mistaken>>
mcVars == <<part, vars, traceVars, metricVars>>

MCInit ==
    /\ part \in {"report", "trace", "metrics"}
    /\ Init /\ T!Init /\ C!Init

MCNext ==
    \/ part = "report" /\ Next /\ UNCHANGED <<part, traceVars, metricVars>>
    \/ part = "trace" /\ T!Next /\ UNCHANGED <<part, vars, metricVars>>
    \/ part = "metrics" /\ C!Next /\ UNCHANGED <<part, vars, traceVars>>

MCSpec == MCInit /\ [][MCNext]_mcVars

MCTypeOK == TypeOK /\ T!TypeOK /\ C!TypeOK
\* InteractionTrace's RequestsRecorded (things.py:252-265).
RequestsRecorded == T!RequestsRecorded
\* InteractionTrace's TraceKeepsOrder (things.py:51, 158; redis.py:31).
TraceKeepsOrder == T!TraceKeepsOrder
\* MetricConnection's ConnectionsBounded (utils.py:18-26).
ConnectionsBounded == C!ConnectionsBounded
=============================================================================

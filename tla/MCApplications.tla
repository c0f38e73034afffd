--------------------------- MODULE MCApplications ---------------------------
\* The three applications that use the Things of other services, for TLC.  A
\* container runs one of them: the instance chooses which at the start, and only
\* that one takes steps.
EXTENDS Detector

CONSTANTS
    Thing, Streams, SubscriberRounds,
    Properties, Observed, Interval, Buckets, MaxTime, MaxDocuments, CatchesCancelled,
    c2, c3    \* two of the services

ASSUME SubscriberAssumption == Thing \in Services /\ SubscriberRounds \in Nat \ {0}
ASSUME HistorianAssumption ==
    /\ Interval \in Nat /\ Buckets \in Nat
    /\ MaxTime \in Nat /\ MaxDocuments \in Nat /\ CatchesCancelled \in BOOLEAN

VARIABLES
    part,
    s_pc, s_round, s_subs, s_error_event, s_live, s_silent,
    now, downlink, app, stop_event, things, reads, inserted,
    copying, wake, next_time, to_unix, listed, results, copies, straddled

\* The service of the subscriber has two replicas, a camera has one; Docker may
\* replace a container of any service but the second camera's.
MCReplicas == [s \in Services |-> IF s = c3 THEN 2 ELSE 1]
MCMaxContainers == [s \in Services |-> IF s = c2 THEN 1 ELSE MCReplicas[s] + 1]

S == INSTANCE Subscriber WITH
    MaxRounds <- SubscriberRounds,
    pc <- s_pc, round <- s_round, subs <- s_subs, error_event <- s_error_event,
    live <- s_live, silent <- s_silent
H == INSTANCE Historian

subscriberVars == <<s_pc, s_round, s_subs, s_error_event, s_live, s_silent>>
historianVars == <<now, downlink, app, stop_event, things, reads, inserted,
                   copying, wake, next_time, to_unix, listed, results, copies, straddled>>
mcVars == <<part, vars, subscriberVars, historianVars>>

MCInit ==
    /\ part \in {"detector", "subscriber", "historian"}
    /\ Init /\ S!Init /\ H!Init

InDetector(A) == part = "detector" /\ A /\ UNCHANGED <<part, subscriberVars, historianVars>>
InSubscriber(A) ==
    part = "subscriber" /\ A /\ UNCHANGED <<part, subVars, procVars, historianVars>>
InHistorian(A) == part = "historian" /\ A /\ UNCHANGED <<part, vars, subscriberVars>>

MCNext == InDetector(Next) \/ InSubscriber(S!Next) \/ InHistorian(H!Next)

\* The loop runs whatever is ready; the waits have limits (utils.py:58-66).
MCFairSpec ==
    /\ MCInit /\ [][MCNext]_mcVars
    /\ WF_mcVars(InDetector(Progress))
    /\ \A c \in Cameras : WF_mcVars(InDetector(Proceed(c)))
    /\ WF_mcVars(InSubscriber(S!Progress))
    /\ WF_mcVars(InHistorian(H!Progress))

\* Detector's CameraComesBack and Subscriber's StreamComesBack, each where it is
\* that application which runs (utils.py:48-75; detector.py:296-302;
\* subscriber.py:96-98).
ThingsComeBack ==
    /\ part = "detector" => CameraComesBack
    /\ part = "subscriber" => S!StreamComesBack
\* Historian's CopiedOnce (historian.py:364-365, 445-451).
CopiedOnce == H!CopiedOnce
\* Historian's CancelledAppEnds (historian.py:453-458, 659-663).
CancelledAppEnds == H!CancelledAppEnds
=============================================================================

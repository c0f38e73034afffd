------------------------------ MODULE Historian ------------------------------
(***************************************************************************)
(* The historian application (apps/historian.py): a Thing over a MongoDB   *)
(* collection that reads the properties of the Things it observes, and     *)
(* copies in regular windows what another historian, its downlink, stored. *)
(*                                                                         *)
(* Time is counted in half seconds, so that the truncation of the bounds   *)
(* of a query to whole seconds shows.  Those of the two observations that  *)
(* are configured run as children of one gather in the task that app       *)
(* awaits; app is cancelled by NodeRuntime's _stop.  A document is a       *)
(* property and a time.                                                    *)
(***************************************************************************)
EXTENDS Naturals, FiniteSets

CONSTANTS
    Properties,        \* of the Things that the downlink stores
    Observed,          \* properties of the Things observed directly
    Interval,          \* downlink_interval, in seconds
    Buckets,           \* downlink_buckets
    MaxTime,           \* bound: half seconds
    MaxDocuments,      \* bound: documents of the downlink
    CatchesCancelled   \* `except Exception` catches CancelledError (Python 3.7)

Second == 2
Times == 0..MaxTime
Documents == [property : Properties, time : Times]

VARIABLES
    now,
    downlink,    \* the documents of the downlink historian
    app,         \* where app is
    stop_event,
    things,      \* where _start_observe_thing_task is
    reads,       \* the reads that its iteration waits for
    inserted,    \* properties read and stored at least once
    copying,     \* where _start_observe_historian_task is
    wake,        \* the end of its sleep
    next_time,
    to_unix,     \* when the window of the current or last iteration ends
    listed,      \* the properties that its reads are about
    results,     \* what they returned so far
    copies,      \* documents stored, with the iteration that stored them
    straddled    \* history: iterations between whose readings of the clock it ticked

appVars == <<app, stop_event>>
thingVars == <<things, reads, inserted>>
copyVars == <<copying, wake, next_time, to_unix, listed, results, copies,
              straddled>>
vars == <<now, downlink, appVars, thingVars, copyVars>>

Failed == [ok |-> FALSE]
Found(docs) == [ok |-> TRUE, docs |-> docs]
Results == {Failed} \cup [ok : {TRUE}, docs : SUBSET Documents]
AppOver == {"returned", "raised", "cancelled"}
Child == {"off", "sleep", "ended"}
Over(child) == child \in {"off", "ended"}

TypeOK ==
    /\ now \in Times
    /\ downlink \subseteq Documents
    /\ app \in {"mongo", "indexes", "observing", "cancelling"} \cup AppOver
    /\ stop_event \in BOOLEAN
    /\ things \in {"iteration"} \cup Child
    /\ reads \subseteq Observed
    /\ inserted \subseteq Observed
    /\ copying \in {"consume", "list", "get"} \cup Child
    /\ wake \in Nat
    /\ next_time \in Nat
    /\ to_unix \in Times
    /\ listed \subseteq Properties
    /\ \E answered \in SUBSET listed : results \in [answered -> Results]
    /\ copies \subseteq Documents \X Times
    /\ straddled \subseteq Times

Init ==
    /\ now = 0
    /\ downlink = {}
    /\ app = "mongo"
    /\ stop_event = FALSE
    /\ things = "off" /\ reads = {} /\ inserted = {}
    /\ copying = "off" /\ wake = 0 /\ next_time = 0 /\ to_unix = 0
    /\ listed = {} /\ results = <<>> /\ copies = {} /\ straddled = {}

Tick ==
    /\ now < MaxTime
    /\ now' = now + 1
    /\ UNCHANGED <<downlink, appVars, thingVars, copyVars>>

\* historian.py:266-283 at the downlink: a value read from one of its Things is
\* stored with the time of now, one that is given to `write` with any time.
DownlinkWrites(p, t) ==
    /\ Cardinality(downlink) < MaxDocuments
    /\ t <= now
    /\ downlink' = downlink \cup {[property |-> p, time |-> t]}
    /\ UNCHANGED <<now, appVars, thingVars, copyVars>>

(***************************************************************************)
(* app and produce_thing                                                   *)
(***************************************************************************)

\* historian.py:313-329, 592-593: MongoDB answers in time, or does not.
MongoAnswers ==
    /\ app = "mongo"
    /\ app' = "indexes"
    /\ UNCHANGED <<now, downlink, stop_event, thingVars, copyVars>>

\* historian.py:332-358, 598: an error of MongoDB is raised out of app, too.
BootFails ==
    /\ app \in {"mongo", "indexes"}
    /\ app' = "raised"
    /\ UNCHANGED <<now, downlink, stop_event, thingVars, copyVars>>

\* historian.py:631-649, 529-560, 439-440: the children that are configured start.
Produced ==
    /\ app = "indexes"
    /\ app' = "observing"
    /\ things' \in {"off", "iteration"}
    /\ reads' = Observed
    /\ copying' \in {"off", "sleep"}
    /\ wake' = now
    /\ next_time' = now + Interval * Second
    /\ UNCHANGED <<now, downlink, stop_event, inserted, to_unix, listed, results, copies, straddled>>

\* historian.py:560, 660: a gather of nothing is over at once.
NothingObserved ==
    /\ app = "observing"
    /\ things = "off" /\ copying = "off"
    /\ app' = "returned"
    /\ UNCHANGED <<now, downlink, stop_event, thingVars, copyVars>>

\* Cancelled while it boots, app just ends.
CancelledInBoot ==
    /\ app \in {"mongo", "indexes"}
    /\ app' = "cancelled"
    /\ UNCHANGED <<now, downlink, stop_event, thingVars, copyVars>>

(***************************************************************************)
(* The observed Things                                                     *)
(***************************************************************************)

\* historian.py:461-479: read and stored, or either fails; gather keeps errors.
ThingRead(p) ==
    /\ things = "iteration"
    /\ p \in reads
    /\ reads' = reads \ {p}
    /\ inserted' \in {inserted, inserted \cup {p}}
    /\ UNCHANGED <<now, downlink, appVars, things, copyVars>>

\* historian.py:525-526.
ThingsSleep ==
    /\ things = "iteration"
    /\ reads = {}
    /\ things' = "sleep"
    /\ UNCHANGED <<now, downlink, appVars, reads, inserted, copyVars>>

\* historian.py:517-523.
ThingsWake ==
    /\ things = "sleep"
    /\ IF stop_event THEN things' = "ended" /\ UNCHANGED reads
                     ELSE things' = "iteration" /\ reads' = Observed
    /\ UNCHANGED <<now, downlink, appVars, inserted, copyVars>>

(***************************************************************************)
(* The downlink                                                            *)
(***************************************************************************)

Sleep ==
    /\ copying' = "sleep"
    /\ wake' = now + Second

\* historian.py:364: the iteration reads the clock again, which may have ticked since
\* the task read it.
Reread ==
    /\ now' \in {now, now + 1} /\ now' \in Times
    /\ to_unix' = now'
    /\ straddled' = IF now' = now THEN straddled ELSE straddled \cup {now'}

\* historian.py:442-456.
MutWakeCatchesUp ==
    /\ copying = "sleep" /\ now >= wake
    /\ IF stop_event THEN copying' = "ended" /\ UNCHANGED <<now, wake, next_time, to_unix, straddled>>
       ELSE IF now >= next_time
       THEN /\ copying' = "consume"
            /\ next_time' = next_time + Interval * Second
            /\ Reread
            /\ UNCHANGED wake
       ELSE Sleep /\ UNCHANGED <<now, next_time, to_unix, straddled>>
    /\ UNCHANGED <<downlink, appVars, thingVars, listed, results, copies>>
Wake ==
    /\ copying = "sleep" /\ now >= wake
    /\ IF stop_event THEN copying' = "ended" /\ UNCHANGED <<now, wake, next_time, to_unix, straddled>>
       ELSE IF now >= next_time
       THEN /\ copying' = "consume"
            /\ next_time' = now + Interval * Second
            /\ Reread
            /\ UNCHANGED wake
       ELSE Sleep /\ UNCHANGED <<now, next_time, to_unix, straddled>>
    /\ UNCHANGED <<downlink, appVars, thingVars, listed, results, copies>>

\* historian.py:372-376.
Consumed ==
    /\ copying = "consume"
    /\ copying' = "list"
    /\ UNCHANGED <<now, downlink, appVars, thingVars, wake, next_time, to_unix, listed, results, copies,
                   straddled>>

\* historian.py:378-397 and 286-310 at the downlink: one read for each property
\* that it has a document of.
Listed ==
    /\ copying = "list"
    /\ copying' = "get"
    /\ listed' = {d.property : d \in downlink}
    /\ results' = <<>>
    /\ UNCHANGED <<now, downlink, appVars, thingVars, wake, next_time, to_unix, copies, straddled>>

\* historian.py:207-243: the bounds are truncated to whole seconds.
Selected(p) ==
    LET to == to_unix \div Second IN
    {d \in downlink : /\ d.property = p
                      /\ Second * to <= d.time + Interval * Second
                      /\ d.time < Second * to}

\* historian.py:155-204: one document of each bucket; where the buckets end, and
\* which document is the first of one, is left open.
Aggregated(docs) ==
    {some \in SUBSET docs : Cardinality(some) <= Buckets /\ (docs # {} => some # {})}

\* historian.py:394-399: the answer of one read, or an error or a timeout.
Got(p) ==
    /\ copying = "get"
    /\ p \in listed \ DOMAIN results
    /\ \E result \in {Failed} \cup {Found(docs) : docs \in Aggregated(Selected(p))} :
          results' = [q \in DOMAIN results \cup {p} |-> IF q = p THEN result ELSE results[q]]
    /\ UNCHANGED <<now, downlink, appVars, thingVars, copying, wake, next_time, to_unix, listed, copies,
                   straddled>>

\* historian.py:401-421: a read that failed is iterated over before it is looked
\* at, and the TypeError skips every write of the iteration.  Otherwise each
\* write succeeds or fails by itself.
Write ==
    /\ copying = "get"
    /\ DOMAIN results = listed
    /\ \A p \in listed : results[p].ok
    /\ \E docs \in SUBSET UNION {results[p].docs : p \in listed} :
          copies' = copies \cup {<<d, to_unix>> : d \in docs}
    /\ Sleep
    /\ UNCHANGED <<now, downlink, appVars, thingVars, next_time, to_unix, listed, results, straddled>>

\* historian.py:453-458: any error of the iteration is logged.
IterationFails ==
    /\ \/ copying \in {"consume", "list"}
       \/ copying = "get" /\ DOMAIN results = listed /\ \E p \in listed : ~results[p].ok
    /\ Sleep
    /\ UNCHANGED <<now, downlink, appVars, thingVars, next_time, to_unix, listed, results, copies, straddled>>

(***************************************************************************)
(* The end                                                                 *)
(***************************************************************************)

\* Where a cancellation leaves a child: its sleep is outside of the try.
Interrupted(child, caught) ==
    IF child = "off" THEN "off"
    ELSE IF caught /\ child \in {"consume", "list", "get"} THEN "sleep" ELSE "ended"
MutCancelledCaught(child) == Interrupted(child, TRUE)
Cancelled(child) == Interrupted(child, CatchesCancelled)

\* historian.py:659-660: the cancellation of app goes through the task that it
\* awaits and through its gather into both children; in Python 3.7 the try of
\* line 453 catches it.
Cancel ==
    /\ app \in {"observing", "cancelling"}
    /\ app' = "cancelling"
    /\ things' = IF things = "off" THEN "off" ELSE "ended"
    /\ copying' = Cancelled(copying)
    /\ wake' = now + Second
    /\ UNCHANGED <<now, downlink, stop_event, reads, inserted, next_time, to_unix, listed, results, copies,
                   straddled>>

\* historian.py:661-663: when the children are over the gather raises the
\* CancelledError, and wait_for on the task that ended so raises it again.
CancelDone ==
    /\ app = "cancelling"
    /\ Over(things) /\ Over(copying)
    /\ app' = "cancelled"
    /\ stop_event' = TRUE
    /\ UNCHANGED <<now, downlink, thingVars, copyVars>>

Next ==
    \/ Tick
    \/ \E p \in Properties, t \in Times : DownlinkWrites(p, t)
    \/ MongoAnswers \/ BootFails \/ Produced \/ NothingObserved \/ CancelledInBoot
    \/ \E p \in Observed : ThingRead(p)
    \/ ThingsSleep \/ ThingsWake
    \/ Wake \/ Consumed \/ Listed
    \/ \E p \in Properties : Got(p)
    \/ Write \/ IterationFails
    \/ Cancel \/ CancelDone

Spec == Init /\ [][Next]_vars

\* What the loop resumes; the requests of the copying task have time limits.
Progress == ThingsWake \/ Wake \/ IterationFails \/ NothingObserved \/ CancelDone

(***************************************************************************)
(* Properties.                                                             *)
(***************************************************************************)

\* No document of the downlink is copied twice, however late an iteration starts
\* and however long it takes: windows do not overlap, unless the clock ticks between
\* the two readings of the earlier iteration (historian.py:364-365, 443-451, with the
\* truncation of lines 212 and 221).
CopiedOnce ==
    \A a, b \in copies :
        a[1] = b[1] /\ a[2] <= b[2] /\ a[2] \notin straddled => a[2] = b[2]

\* Once it is cancelled the application ends, as NodeRuntime assumes of
\* the applications that it runs: none of them goes on as if nothing had happened
\* (historian.py:453-458, 659-663).
CancelledAppEnds == app = "cancelling" ~> app \in AppOver
=============================================================================

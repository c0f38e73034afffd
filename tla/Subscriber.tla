----------------------------- MODULE Subscriber -----------------------------
(***************************************************************************)
(* The subscriber application (apps/subscriber.py): it subscribes to every *)
(* observable property and event of one Thing, and again after an error of *)
(* any of them, until it is cancelled (by NodeRuntime's _stop).            *)
(***************************************************************************)
EXTENDS WaitNode

CONSTANTS
    Thing,       \* the service that has it
    Streams,     \* its observable properties and its events
    MaxRounds    \* bound: times they are subscribed to

Rounds == 1..MaxRounds

VARIABLES
    pc,            \* where app is
    round,         \* iterations of its loop
    subs,          \* the round whose subscriptions it holds; 0: not assigned
    error_event,
    live,          \* subscriptions that deliver, by stream and round
    silent         \* streams that completed (history)

ownVars == <<pc, round, subs, error_event, live, silent>>
vars == <<waitVars, ownVars>>

Over == {"ended", "failed", "cancelled"}

TypeOK ==
    /\ WaitTypeOK
    /\ pc \in {"consuming", "waiting", "disposing"} \cup Over
    /\ round \in Rounds
    /\ subs \in 0..MaxRounds
    /\ error_event \in BOOLEAN
    /\ live \subseteq Streams \X Rounds
    /\ silent \subseteq Streams

Init ==
    /\ WaitInit
    /\ pc = "consuming"
    /\ round = 1
    /\ subs = 0
    /\ error_event = FALSE
    /\ live = {}
    /\ silent = {}

\* subscriber.py:60.
Connect ==
    /\ pc = "consuming"
    /\ WaitStep(Thing)
    /\ UNCHANGED ownVars

\* subscriber.py:62-79 and 95.
Subscribe ==
    /\ pc = "consuming"
    /\ Fetched(Thing)
    /\ pc' = "waiting"
    /\ subs' = round
    /\ live' = live \cup (Streams \X {round})
    /\ UNCHANGED <<round, error_event, silent>>

\* An error of wait_node or of the catalogue is raised out of app.
ConsumeRaises ==
    /\ pc = "consuming"
    /\ call[Thing] = "raised"
    /\ pc' = "failed"
    /\ UNCHANGED <<waitVars, round, subs, error_event, live, silent>>

\* subscriber.py:96-98 and 95: _cancel_subs is not awaited and does nothing.
Resubscribe ==
    /\ pc = "waiting"
    /\ error_event
    /\ round < MaxRounds
    /\ pc' = "consuming"
    /\ round' = round + 1
    /\ error_event' = FALSE
    /\ CallAgain({Thing})
    /\ UNCHANGED <<subs, live, silent>>

\* subscriber.py:23-25; the bound: no error in the last round.
StreamError(s, k) ==
    /\ <<s, k>> \in live
    /\ round < MaxRounds
    /\ live' = live \ {<<s, k>>}
    /\ error_event' = TRUE
    /\ UNCHANGED <<waitVars, pc, round, subs, silent>>

\* subscriber.py:19-20: completion is logged and nothing else.
StreamCompletes(s, k) ==
    /\ <<s, k>> \in live
    /\ live' = live \ {<<s, k>>}
    /\ silent' = silent \cup {s}
    /\ UNCHANGED <<waitVars, pc, round, subs, error_event>>

\* subscriber.py:99-100 and 47-56: cancelled, app disposes of the subscriptions it
\* holds, those of the last round only.  Before the first ones subs is unbound,
\* and an UnboundLocalError takes the place of the CancelledError.
Cancelled ==
    /\ pc \in {"consuming", "waiting"}
    /\ pc' = IF subs = 0 THEN "failed" ELSE "disposing"
    /\ live' = {l \in live : l[2] # subs}
    /\ UNCHANGED <<waitVars, round, subs, error_event, silent>>

\* The sleep of _cancel_subs (subscriber.py:56).
Disposed ==
    /\ pc = "disposing"
    /\ pc' = "ended"
    /\ UNCHANGED <<waitVars, round, subs, error_event, live, silent>>

CancelledAgain ==
    /\ pc = "disposing"
    /\ pc' = "cancelled"
    /\ UNCHANGED <<waitVars, round, subs, error_event, live, silent>>

Next ==
    \/ WaitEnvironment(Thing) /\ UNCHANGED ownVars
    \/ Connect \/ Subscribe \/ ConsumeRaises \/ Resubscribe
    \/ \E s \in Streams, k \in Rounds : StreamError(s, k) \/ StreamCompletes(s, k)
    \/ Cancelled \/ Disposed \/ CancelledAgain

Progress == Connect \/ Subscribe \/ ConsumeRaises \/ Resubscribe \/ Disposed

Spec == Init /\ [][Next]_vars

(***************************************************************************)
(* Properties.                                                             *)
(***************************************************************************)

IsLive(s) == \E k \in Rounds : <<s, k>> \in live

\* A stream that was lost is subscribed to again, or app is over.
StreamComesBack ==
    \A s \in Streams : (~IsLive(s) /\ s \notin silent) ~> (IsLive(s) \/ pc \in Over)
=============================================================================

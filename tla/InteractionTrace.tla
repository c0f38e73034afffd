-------------------------- MODULE InteractionTrace --------------------------
(***************************************************************************)
(* The decorators of wotpy/things.py around the interactions of a Thing,   *)
(* and the callback of wotpy/redis.py that stores a record of each in the  *)
(* sorted set of the host: every request leaves one record, every event of *)
(* a subscription another, each written by a task of its own through the   *)
(* Redis pool of the node, which _stop closes (cli/app.py).                *)
(*                                                                         *)
(* A member of the sorted set is its JSON text: events of one subscription *)
(* that say the same are one.  Items are not told apart.  A record names   *)
(* its request here, and the subscription itself and not only its sub_id,  *)
(* which all subscriptions to one decorated observable share (things.py:   *)
(* 164): in Redis, records of two sources that say the same at the same    *)
(* microsecond are one member, with the one score that both would have.    *)
(***************************************************************************)
EXTENDS Naturals, Sequences

CONSTANTS
    Requests,          \* bound: the requests made
    Subscriptions,     \* those made to decorated observables, several to one perhaps
    MaxEvents,         \* bound: events of a subscription
    MaxTime,           \* bound: the clock
    CatchesCancelled   \* `except Exception` catches CancelledError (Python 3.7)

VARIABLES
    time,
    outcome,     \* what the caller of each request got
    emitted,     \* the records of each subscription's events, in their order
    writing,     \* records whose task has not ended
    zset,        \* the sorted set: the score of each member
    lost,        \* records whose write failed (logged)
    pool         \* the Redis pool: "open", "closed"

vars == <<time, outcome, emitted, writing, zset, lost, pool>>

Times == 0..MaxTime
Outcomes == {"result", "error", "cancelled"}
Events == {"on_subscribe", "on_next", "on_error", "on_completed", "on_finally"}
Records == [source : Requests, says : Outcomes, time : Times]
           \cup [source : Subscriptions, says : Events, time : Times]

TypeOK ==
    /\ time \in Times
    /\ outcome \in [Requests -> Outcomes \cup {"none", "pending"}]
    /\ emitted \in [Subscriptions -> Seq(Records)]
    /\ \A s \in Subscriptions : Len(emitted[s]) <= MaxEvents + 1
    /\ writing \subseteq Records
    /\ DOMAIN zset \subseteq Records /\ \A m \in DOMAIN zset : zset[m] \in Times
    /\ lost \subseteq Records
    /\ pool \in {"open", "closed"}

Init ==
    /\ time = 0
    /\ outcome = [r \in Requests |-> "none"]
    /\ emitted = [s \in Subscriptions |-> <<>>]
    /\ writing = {}
    /\ zset = <<>>
    /\ lost = {}
    /\ pool = "open"

Tick ==
    /\ time < MaxTime
    /\ time' = time + 1
    /\ UNCHANGED <<outcome, emitted, writing, zset, lost, pool>>

(***************************************************************************)
(* Requests: invoke, read, write                                           *)
(***************************************************************************)

\* things.py:243-253.
Request(r) ==
    /\ outcome[r] = "none"
    /\ outcome' = [outcome EXCEPT ![r] = "pending"]
    /\ UNCHANGED <<time, emitted, writing, zset, lost, pool>>

\* things.py:45-54, 106-119: what the record says is fixed when it is made.
RecordOf(source, says) == [source |-> source, says |-> says, time |-> time]

\* things.py:253-265 and 152-158: the record says what the caller gets.  A
\* CancelledError passes by the except of Python 3.8 and leaves no record.
MutAnswerOnlyResults(r, o) ==
    /\ outcome[r] = "pending"
    /\ outcome' = [outcome EXCEPT ![r] = o]
    /\ writing' = writing \cup IF o = "result" THEN {RecordOf(r, o)} ELSE {}
    /\ UNCHANGED <<time, emitted, zset, lost, pool>>
Answer(r, o) ==
    /\ outcome[r] = "pending"
    /\ outcome' = [outcome EXCEPT ![r] = o]
    /\ writing' = writing \cup
          IF o = "cancelled" /\ ~CatchesCancelled THEN {} ELSE {RecordOf(r, o)}
    /\ UNCHANGED <<time, emitted, zset, lost, pool>>

(***************************************************************************)
(* Subscriptions                                                           *)
(***************************************************************************)

\* things.py:197-235: do_on_subscribe, do_action, do_finally, in this order.  A
\* subscription that was disposed of has neither an error nor a completion.
MutMayFollowFinallyTwice(seen, event) ==
    IF seen = <<>> THEN event = "on_subscribe"
    ELSE IF seen[Len(seen)].says \in {"on_subscribe", "on_next"} THEN event # "on_subscribe"
    ELSE event = "on_finally"
MayFollow(seen, event) ==
    IF seen = <<>> THEN event = "on_subscribe"
    ELSE LET last == seen[Len(seen)].says IN
         CASE last \in {"on_subscribe", "on_next"} -> event # "on_subscribe"
           [] last \in {"on_error", "on_completed"} -> event = "on_finally"
           [] OTHER -> FALSE

\* things.py:190-193.  The bound: the last event is on_finally.
Emit(s, event) ==
    /\ MayFollow(emitted[s], event)
    /\ Len(emitted[s]) < MaxEvents \/ event = "on_finally"
    /\ emitted' = [emitted EXCEPT ![s] = Append(@, RecordOf(s, event))]
    /\ writing' = writing \cup {RecordOf(s, event)}
    /\ UNCHANGED <<time, outcome, zset, lost, pool>>

(***************************************************************************)
(* redis_thing_callback                                                    *)
(***************************************************************************)

\* redis.py:26-33: the tasks run in any order.
MutStoredWithTimeOfWrite(m) ==
    /\ m \in writing
    /\ pool = "open"
    /\ writing' = writing \ {m}
    /\ zset' = [x \in DOMAIN zset \cup {m} |-> IF x = m THEN time ELSE zset[x]]
    /\ UNCHANGED <<time, outcome, emitted, lost, pool>>
Stored(m) ==
    /\ m \in writing
    /\ pool = "open"
    /\ writing' = writing \ {m}
    /\ zset' = [x \in DOMAIN zset \cup {m} |-> IF x = m THEN m.time ELSE zset[x]]
    /\ UNCHANGED <<time, outcome, emitted, lost, pool>>

\* redis.py:34-35: logged, never raised.
NotStored(m) ==
    /\ m \in writing
    /\ writing' = writing \ {m}
    /\ lost' = lost \cup {m}
    /\ UNCHANGED <<time, outcome, emitted, zset, pool>>

\* app.py:142-150: whatever has not been sent then finds the pool closed.
ClosePool ==
    /\ pool = "open"
    /\ pool' = "closed"
    /\ UNCHANGED <<time, outcome, emitted, writing, zset, lost>>

Next ==
    \/ Tick
    \/ \E r \in Requests : Request(r) \/ \E o \in Outcomes : Answer(r, o)
    \/ \E s \in Subscriptions, event \in Events : Emit(s, event)
    \/ \E m \in writing : Stored(m) \/ NotStored(m)
    \/ ClosePool

Spec == Init /\ [][Next]_vars

(***************************************************************************)
(* Properties.                                                             *)
(***************************************************************************)

\* Every request that returned or raised has exactly one record, which says so:
\* in the sorted set, on its way, or lost by a write that failed.  A request that
\* is still pending has none (things.py:252-265).
RecordsOf(r) == {m \in DOMAIN zset \cup writing \cup lost : m.source = r}
RequestsRecorded ==
    \A r \in Requests :
        /\ outcome[r] \in {"result", "error"} =>
               \E m \in RecordsOf(r) : m.says = outcome[r] /\ RecordsOf(r) = {m}
        /\ outcome[r] \in {"none", "pending"} => RecordsOf(r) = {}

\* However the writes of the records are ordered, the sorted set lists the events
\* of a subscription in the order in which they happened (things.py:51, 158, 193;
\* redis.py:31).
TraceKeepsOrder ==
    \A s \in Subscriptions : \A i, j \in DOMAIN emitted[s] :
        i < j /\ {emitted[s][i], emitted[s][j]} \subseteq DOMAIN zset =>
            zset[emitted[s][i]] <= zset[emitted[s][j]]
=============================================================================

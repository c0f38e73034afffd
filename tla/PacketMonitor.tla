---------------------------- MODULE PacketMonitor ----------------------------
(***************************************************************************)
(* monitor_packets (monitor/packet.py): an asyncio task and the capture    *)
(* process it spawns, joined by a bounded multiprocessing queue and a stop *)
(* event.  The process appends packets, and drops them when the queue is   *)
(* full; the task moves them to Redis in batches, watches the process, and *)
(* terminates it when it is cancelled or fails.                            *)
(*                                                                         *)
(* The two run in parallel, so each get of a drain is a step of its own.   *)
(* Packets are numbered in the order in which they are captured.           *)
(***************************************************************************)
EXTENDS Naturals, Sequences, FiniteSets

CONSTANTS
    QueueSize,   \* queue_size
    MaxPackets,  \* bound: packets captured
    MaxCancels   \* bound: calls of task.cancel()

ASSUME SizesAssumption ==
    QueueSize \in Nat \ {0} /\ MaxPackets \in Nat /\ MaxCancels \in Nat

VARIABLES
    pc,          \* the task: where it is suspended, or "drain" while it is not
    items,       \* the batch it holds
    failing,     \* an exception is on its way out, through the finally
    outcome,     \* how the task ended
    cancels,     \* calls of task.cancel() since its first step
    pending,     \* a CancelledError is to be thrown into the task
    proc,        \* the capture process
    stop_event,
    kill,        \* SIGKILL was sent
    queue,       \* output_queue
    captured,    \* packets captured so far
    written,     \* history: packets stored in Redis, in that order
    dropped,     \* history: packets that met a full queue
    lost         \* history: packets of batches that were not stored

vars == <<pc, items, failing, outcome, cancels, pending, proc, stop_event, kill,
          queue, captured, written, dropped, lost>>
taskVars == <<pc, items, failing, outcome, cancels, pending>>
procVars == <<proc, queue, captured, dropped>>

Packets == 1..MaxPackets
Elements(s) == {s[i] : i \in 1..Len(s)}

TypeOK ==
    /\ pc \in {"created", "drain", "zadd", "sleep", "stopwait", "termwait", "over"}
    /\ items \in Seq(Packets)
    /\ failing \in BOOLEAN
    /\ outcome \in {"none", "ended", "failed", "killed"}
    /\ cancels \in 0..MaxCancels
    /\ pending \in BOOLEAN
    /\ proc \in {"none", "capturing", "exited"}
    /\ stop_event \in BOOLEAN
    /\ kill \in BOOLEAN
    /\ queue \in Seq(Packets) /\ Len(queue) <= QueueSize
    /\ captured \in 0..MaxPackets
    /\ written \in Seq(Packets)
    /\ dropped \subseteq Packets
    /\ lost \subseteq Packets

Init ==
    /\ pc = "created"
    /\ items = <<>>
    /\ failing = FALSE
    /\ outcome = "none"
    /\ cancels = 0
    /\ pending = FALSE
    /\ proc = "none"
    /\ stop_event = FALSE
    /\ kill = FALSE
    /\ queue = <<>>
    /\ captured = 0
    /\ written = <<>>
    /\ dropped = {}
    /\ lost = {}

(***************************************************************************)
(* The capture process                                                     *)
(***************************************************************************)

\* packet.py:76-85: put_nowait, or drop; then the stop event is looked at, and
\* only then: a quiet interface never sees it.
Capture ==
    /\ proc = "capturing"
    /\ captured < MaxPackets
    /\ captured' = captured + 1
    /\ IF Len(queue) < QueueSize
         THEN queue' = Append(queue, captured') /\ UNCHANGED dropped
         ELSE dropped' = dropped \cup {captured'} /\ UNCHANGED queue
    /\ proc' = IF stop_event THEN "exited" ELSE proc
    /\ UNCHANGED <<taskVars, stop_event, kill, written, lost>>

\* tshark ends by itself, or because SIGTERM made the handler of packet.py:94-104
\* kill it, which is not certain to end the process.
CaptureEnds ==
    /\ proc = "capturing"
    /\ proc' = "exited"
    /\ UNCHANGED <<queue, captured, dropped, taskVars, stop_event, kill, written, lost>>

\* SIGKILL is.
CaptureKilled == kill /\ CaptureEnds

(***************************************************************************)
(* The task                                                                *)
(***************************************************************************)

Over(how) == pc' = "over" /\ outcome' = how

How == IF failing THEN "failed" ELSE "ended"

\* packet.py:242-244 and 163-166: the clean-up, begun with or without an exception.
Finally(exception) ==
    /\ failing' = exception
    /\ IF proc = "exited"
         THEN Over(IF exception THEN "failed" ELSE "ended") /\ UNCHANGED stop_event
         ELSE pc' = "stopwait" /\ stop_event' = TRUE /\ UNCHANGED outcome

\* packet.py:132-147 and 238-239: a dead process is an exception.
MutNoHealthCheck == pc' = "sleep" /\ UNCHANGED <<failing, outcome, stop_event>>
HealthCheck ==
    IF proc = "exited"
      THEN Finally(TRUE)
      ELSE pc' = "sleep" /\ UNCHANGED <<failing, outcome, stop_event>>

\* packet.py:193-237: the process is spawned and the first drain begins.
Spawn ==
    /\ pc = "created"
    /\ proc' = "capturing"
    /\ pc' = "drain"
    /\ UNCHANGED <<items, failing, outcome, cancels, pending, stop_event, kill,
                   queue, captured, written, dropped, lost>>

\* packet.py:193-215 are in no try: the queue, the event and the process may not be made.
SpawnFails ==
    /\ pc = "created"
    /\ Over("failed")
    /\ UNCHANGED <<items, failing, cancels, pending, stop_event, kill, procVars, written, lost>>

\* packet.py:119-124: one get.  The counter is looked at after it, so a batch may
\* hold one item more than the queue.
MutDrainOneBreaksFirst ==
    /\ pc = "drain"
    /\ queue # <<>>
    /\ Len(items) <= QueueSize
    /\ items' = IF Len(items) = QueueSize THEN items ELSE Append(items, Head(queue))
    /\ queue' = Tail(queue)
    /\ UNCHANGED <<pc, failing, outcome, cancels, pending, proc, stop_event, kill,
                   captured, written, dropped, lost>>
MutDrainOneNoBreak ==
    /\ pc = "drain"
    /\ queue # <<>>
    /\ items' = Append(items, Head(queue))
    /\ queue' = Tail(queue)
    /\ UNCHANGED <<pc, failing, outcome, cancels, pending, proc, stop_event, kill,
                   captured, written, dropped, lost>>
DrainOne ==
    /\ pc = "drain"
    /\ queue # <<>>
    /\ Len(items) <= QueueSize
    /\ items' = Append(items, Head(queue))
    /\ queue' = Tail(queue)
    /\ UNCHANGED <<pc, failing, outcome, cancels, pending, proc, stop_event, kill,
                   captured, written, dropped, lost>>

\* packet.py:119, 123 and 128-129: the batch is sent, if there is one.
DrainDone ==
    /\ pc = "drain"
    /\ queue = <<>> \/ Len(items) > QueueSize
    /\ IF items # <<>>
         THEN pc' = "zadd" /\ UNCHANGED <<failing, outcome, stop_event>>
         ELSE HealthCheck
    /\ UNCHANGED <<items, cancels, pending, kill, procVars, written, lost>>

Stored == written' = written \o items /\ UNCHANGED lost
NotStored == lost' = lost \cup Elements(items) /\ UNCHANGED written

\* async_cb returned.
MutCallbackReturnsKeepsItems ==
    /\ pc = "zadd"
    /\ ~pending
    /\ Stored
    /\ HealthCheck
    /\ UNCHANGED <<items, cancels, pending, kill, procVars>>
CallbackReturns ==
    /\ pc = "zadd"
    /\ ~pending
    /\ Stored
    /\ items' = <<>>
    /\ HealthCheck
    /\ UNCHANGED <<cancels, pending, kill, procVars>>

\* async_cb raised; the transaction may have been executed all the same.
CallbackFails ==
    /\ pc = "zadd"
    /\ ~pending
    /\ Stored \/ NotStored
    /\ items' = <<>>
    /\ Finally(TRUE)
    /\ UNCHANGED <<cancels, pending, kill, procVars>>

\* packet.py:239 and 236.
Wake ==
    /\ pc = "sleep"
    /\ ~pending
    /\ pc' = "drain"
    /\ UNCHANGED <<items, failing, outcome, cancels, pending, stop_event, kill,
                   procVars, written, lost>>

\* task.cancel(), called by code that runs while the task is suspended.
Cancel ==
    /\ pc \notin {"drain", "over"}
    /\ cancels < MaxCancels
    /\ cancels' = cancels + 1
    /\ IF pc = "created"
         THEN Over("killed") /\ UNCHANGED pending
         ELSE pending' = TRUE /\ UNCHANGED <<pc, outcome>>
    /\ UNCHANGED <<items, failing, stop_event, kill, procVars, written, lost>>

\* packet.py:240-244: caught in the loop; what was being stored may be or not.
MutCancelledInLoopRaises ==
    /\ pending
    /\ pc \in {"zadd", "sleep"}
    /\ Stored \/ NotStored
    /\ items' = <<>>
    /\ IF proc = "exited"
         THEN Over("killed") /\ UNCHANGED stop_event
         ELSE pc' = "stopwait" /\ stop_event' = TRUE /\ UNCHANGED outcome
    /\ pending' = FALSE
    /\ UNCHANGED <<failing, cancels, kill, procVars>>
CancelledInLoop ==
    /\ pending
    /\ pc \in {"zadd", "sleep"}
    /\ Stored \/ NotStored
    /\ items' = <<>>
    /\ Finally(FALSE)
    /\ pending' = FALSE
    /\ UNCHANGED <<cancels, kill, procVars>>

\* packet.py:166 is in no try: the CancelledError goes out, the process stays.
CancelledInStopWait ==
    /\ pending
    /\ pc = "stopwait"
    /\ Over("killed")
    /\ pending' = FALSE
    /\ UNCHANGED <<items, failing, cancels, stop_event, kill, procVars, written, lost>>

\* packet.py:166-170: the process is gone when it is looked at.
StopWaitExit ==
    /\ pc = "stopwait"
    /\ ~pending
    /\ proc = "exited"
    /\ Over(How)
    /\ UNCHANGED <<items, failing, cancels, pending, stop_event, kill, procVars,
                   written, lost>>

\* packet.py:172-177: stop_timeout is over, SIGTERM is sent.
StopTimeout ==
    /\ pc = "stopwait"
    /\ ~pending
    /\ proc = "capturing"
    /\ pc' = "termwait"
    /\ UNCHANGED <<items, failing, outcome, cancels, pending, stop_event, kill,
                   procVars, written, lost>>

\* packet.py:177-186: the process is gone, stop_join_timeout is over, or a
\* CancelledError met the bare except; what is left is killed in each case.
MutTermWaitOverNoKill ==
    /\ pc = "termwait"
    /\ Over(How)
    /\ pending' = FALSE
    /\ UNCHANGED <<items, failing, cancels, stop_event, kill, procVars, written, lost>>
TermWaitOver ==
    /\ pc = "termwait"
    /\ kill' = (proc = "capturing")
    /\ Over(How)
    /\ pending' = FALSE
    /\ UNCHANGED <<items, failing, cancels, stop_event, procVars, written, lost>>

TaskStep ==
    \/ Spawn \/ SpawnFails \/ DrainOne \/ DrainDone \/ CallbackReturns \/ CallbackFails
    \/ Wake \/ CancelledInLoop \/ CancelledInStopWait \/ StopWaitExit \/ StopTimeout
    \/ TermWaitOver

Next == TaskStep \/ Cancel \/ Capture \/ CaptureEnds \/ CaptureKilled

\* The loop runs the task, every wait of it has a timeout, and Redis answers or
\* fails; SIGKILL ends a process.  No packet, no end of the capture for another
\* reason and no cancellation is forced.
Fairness == WF_vars(TaskStep) /\ WF_vars(CaptureKilled)

Spec == Init /\ [][Next]_vars
FairSpec == Spec /\ Fairness

(***************************************************************************)
(* It keeps the promise NodeMonitor relies on.  Which exception comes out   *)
(* of a task that fails and is cancelled meanwhile is not distinguished.   *)
(***************************************************************************)

TaskState ==
    IF pc = "created" THEN "created"
    ELSE IF pc = "over" THEN IF failing THEN "failed" ELSE outcome
    ELSE IF failing THEN "failing"
    ELSE IF cancels = 0 THEN "running"
    ELSE IF cancels = 1 THEN "cancelling" ELSE "recancelled"

Promise == INSTANCE MonitorTask WITH st <- TaskState, CleansUp <- TRUE

\* The task of a capture is one of the tasks that NodeMonitor creates: it absorbs
\* one cancellation, whatever it was doing, and stays over (packet.py:235-244).
ImplementsMonitorTask == [][Promise!Next]_TaskState

(***************************************************************************)
(* Properties                                                              *)
(***************************************************************************)

\* A drain ends although the process goes on appending, with at most one item more
\* than the queue can hold (packet.py:119-124).
BatchBound == Len(items) <= QueueSize + 1

\* As long as the task was neither cancelled nor failed, each captured packet is
\* stored, queued, in the batch, or was dropped by a full queue, and nowhere twice.
NothingVanishes ==
    cancels = 0 /\ ~failing =>
        /\ 1..captured = Elements(written) \cup Elements(queue) \cup Elements(items) \cup dropped
        /\ Cardinality(dropped) + Len(written) + Len(queue) + Len(items) = captured

\* Batches are stored in the order of capture and no packet twice, although a
\* batch whose fate is unknown is given up (packet.py:114-129).
StoredInOrder == \A i, j \in 1..Len(written) : i < j => written[i] < written[j]

\* A task that ended by itself or failed leaves no capture process that was not at
\* least killed (packet.py:162-186, 242-244).
CaptureStopped == outcome \in {"ended", "failed"} => proc # "capturing" \/ kill

\* A cancelled task gets rid of its process, however deaf that is, unless it is
\* cancelled again during the first wait (packet.py:162-186).
CaptureGone == pending ~> (proc = "exited" \/ outcome = "killed")

\* The death of the capture ends the task (packet.py:132-147).
DeadCaptureNoticed == (proc = "exited") ~> (pc = "over")
=============================================================================

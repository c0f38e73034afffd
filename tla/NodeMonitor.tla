----------------------------- MODULE NodeMonitor -----------------------------
(***************************************************************************)
(* The NodeMonitor object of monitor/base.py: one start() and any number   *)
(* of stop() calls, run by one asyncio loop together with the system task  *)
(* and the packet tasks that start() creates.  An action is the code a     *)
(* coroutine runs between two suspensions.                                 *)
(*                                                                         *)
(* What a task does while it runs is left to other modules.  Here its life *)
(* is MonitorTask's, which they are shown to implement: it can end because *)
(* it was cancelled, or fail.  The first cgget of the system task, the     *)
(* health check of a packet task, and the Redis callback of both raise out *)
(* of them.                                                                *)
(***************************************************************************)
EXTENDS Naturals, FiniteSets

CONSTANTS
    System,    \* the task of monitor_system
    Ifaces,    \* the packet interfaces; also the names of their tasks
    Callers    \* the coroutines that may call stop(), each once

ASSUME TasksAssumption == System \notin Ifaces

VARIABLES
    start,         \* where the only call of start() is
    stop,          \* where each call of stop() is
    redis,         \* the pool in _redis: "none", "open", or "closing" (close() called)
    task,          \* the tasks created by start()
    task_system,   \* _task_system is set
    tasks_packet,  \* _tasks_packet is set
    overlap        \* history: stop() was called while start() was suspended

vars == <<start, stop, redis, task, task_system, tasks_packet, overlap>>

Tasks == {System} \cup Ifaces

Stages == {"system", "packet", "redis"}
Live == {"created", "running", "cancelling", "recancelled", "failing"}
Faulty == {"failing", "failed", "killed"}

TypeOK ==
    /\ start \in {"idle", "opening", "writing", "done", "failed"}
    /\ stop \in [Callers -> Stages \cup {"idle", "returned", "raised"}]
    /\ redis \in {"none", "open", "closing"}
    /\ task \in [Tasks -> Live \cup {"none", "ended", "failed", "killed"}]
    /\ task_system \in BOOLEAN
    /\ tasks_packet \in BOOLEAN
    /\ overlap \in BOOLEAN

Init ==
    /\ start = "idle"
    /\ stop = [c \in Callers |-> "idle"]
    /\ redis = "none"
    /\ task = [t \in Tasks |-> "none"]
    /\ task_system = FALSE
    /\ tasks_packet = FALSE
    /\ overlap = FALSE

(***************************************************************************)
(* start()                                                                 *)
(***************************************************************************)

\* base.py:147-153 and 37-41: not running, so a pool is requested.
Start ==
    /\ start = "idle"
    /\ start' = "opening"
    /\ UNCHANGED <<stop, redis, task, task_system, tasks_packet, overlap>>

\* base.py:41-42 and 128-145: the pool is there and the ZADD of the node info is sent.
StartOpened ==
    /\ start = "opening"
    /\ start' = "writing"
    /\ redis' = "open"
    /\ UNCHANGED <<stop, task, task_system, tasks_packet, overlap>>

\* base.py:155-156, 68-82 and 84-110: the ZADD was answered; both sets of tasks
\* are created without another suspension, and none has run yet.
StartWritten ==
    /\ start = "writing"
    /\ redis # "none"
    /\ start' = "done"
    /\ task' = [t \in Tasks |-> "created"]
    /\ task_system' = TRUE
    /\ tasks_packet' = (Ifaces # {})
    /\ UNCHANGED <<stop, redis, overlap>>

\* No pool, or no answer to the ZADD (Redis failed, or stop() closed the pool):
\* the exception ends start() and whatever it had opened stays open.
StartFails ==
    /\ start \in {"opening", "writing"}
    /\ start' = "failed"
    /\ UNCHANGED <<stop, redis, task, task_system, tasks_packet, overlap>>

(***************************************************************************)
(* The tasks                                                               *)
(***************************************************************************)

Become(t, from, to) ==
    /\ task[t] \in from
    /\ task' = [task EXCEPT ![t] = to]
    /\ UNCHANGED <<start, stop, redis, task_system, tasks_packet, overlap>>

TaskRuns(t) == Become(t, {"created"}, "running")

\* An exception ends the task at once, but a packet task whose capture is alive
\* terminates it first (packet.py:242-244).  What precedes the try of a packet task,
\* and the first sample of the system task (system.py:226), fail in the first step.
TaskFails(t) ==
    \/ Become(t, {"created", "running"}, "failed")
    \/ t # System /\ Become(t, {"running"}, "failing")

TaskFailed(t) == Become(t, {"failing"}, "failed")

\* Both coroutines catch the CancelledError (system.py:233, packet.py:240), and a
\* packet task then sees its capture process out.
TaskEnds(t) == Become(t, {"cancelling", "recancelled"}, "ended")

\* A second cancel() reaches a packet task inside that clean-up: outside the try
\* of _terminate_process (packet.py:166) nothing catches it.
TaskKilled(t) == Become(t, {"recancelled"}, "killed")

\* task.cancel() for every member of targets.  A task that was never stepped does
\* not get to its try block.
Cancelled(t) ==
    CASE task[t] = "created" -> "killed"
      [] task[t] = "running" -> "cancelling"
      [] task[t] = "cancelling" /\ t # System -> "recancelled"
      [] OTHER -> task[t]

Cancel(targets) == [t \in Tasks |-> IF t \in targets THEN Cancelled(t) ELSE task[t]]

(***************************************************************************)
(* stop(): three sub-coroutines that return at once when their attribute   *)
(* is None.  It suspends in the first one that has something to await.     *)
(***************************************************************************)

MutNextStageRedisFirst(after) ==
    IF after = "call" /\ redis # "none" THEN "redis"
    ELSE IF after \in {"call", "redis"} /\ task_system THEN "system"
    ELSE IF after # "packet" /\ tasks_packet THEN "packet"
    ELSE "returned"
MutNextStageNoRedis(after) ==
    IF after = "call" /\ task_system THEN "system"
    ELSE IF after \in {"call", "system"} /\ tasks_packet THEN "packet"
    ELSE "returned"
NextStage(after) ==
    IF after = "call" /\ task_system THEN "system"
    ELSE IF after \in {"call", "system"} /\ tasks_packet THEN "packet"
    ELSE IF after # "redis" /\ redis # "none" THEN "redis"
    ELSE "returned"

MutTargetsAllAtOnce(stage) ==
    CASE stage = "system" -> Tasks
      [] stage = "packet" -> Ifaces
      [] OTHER -> {}
MutTargetsSystemOnly(stage) == IF stage = "system" THEN {System} ELSE {}
Targets(stage) ==
    CASE stage = "system" -> {System}
      [] stage = "packet" -> Ifaces
      [] OTHER -> {}

\* base.py:112-126, 44-51 and 158-166: `after` has been awaited and its attribute
\* reset; the attributes up to the next stage are None; that stage begins.
Proceed(c, after) ==
    LET stage == NextStage(after) IN
    /\ stop' = [stop EXCEPT ![c] = stage]
    /\ task' = Cancel(Targets(stage))
    /\ task_system' = (task_system /\ after # "system" /\ stage # "returned")
    /\ tasks_packet' = (tasks_packet /\ after # "packet" /\ stage # "returned")
    /\ redis' = IF after = "redis" THEN "none"
                ELSE IF stage = "redis" THEN "closing" ELSE redis

\* The exception of an awaited task comes out of stop(); no attribute is reset.
Raise(c) ==
    /\ stop' = [stop EXCEPT ![c] = "raised"]
    /\ UNCHANGED <<redis, task, task_system, tasks_packet>>

StopCall(c) ==
    /\ start # "idle"
    /\ stop[c] = "idle"
    /\ Proceed(c, "call")
    /\ overlap' = (overlap \/ start \in {"opening", "writing"})
    /\ UNCHANGED start

\* base.py:117.
SystemJoined(c) ==
    /\ stop[c] = "system"
    /\ \/ task[System] = "ended" /\ Proceed(c, "system")
       \/ task[System] \in Faulty \ Live /\ Raise(c)
    /\ UNCHANGED <<start, overlap>>

\* base.py:125: gather is done when every task is, or when one of them raises.
PacketJoined(c) ==
    /\ stop[c] = "packet"
    /\ \/ (\A t \in Ifaces : task[t] = "ended") /\ Proceed(c, "packet")
       \/ (\E t \in Ifaces : task[t] \in Faulty \ Live) /\ Raise(c)
    /\ UNCHANGED <<start, overlap>>

\* base.py:49-51 and 165-166.
RedisClosed(c) ==
    /\ stop[c] = "redis"
    /\ Proceed(c, "redis")
    /\ UNCHANGED <<start, overlap>>

StopResumes(c) == SystemJoined(c) \/ PacketJoined(c) \/ RedisClosed(c)

StartStep == Start \/ StartOpened \/ StartWritten \/ StartFails
TaskStep(t) == TaskRuns(t) \/ TaskFailed(t) \/ TaskEnds(t) \/ TaskKilled(t)

Next ==
    \/ StartStep
    \/ \E c \in Callers : StopCall(c) \/ StopResumes(c)
    \/ \E t \in Tasks : TaskStep(t) \/ TaskFails(t)

\* The loop runs what is ready, Redis answers or drops the connection, and the
\* clean-up of a task ends (its waits are bounded, packet.py:153-159).  Nothing
\* forces a call of stop() or a fault.
Fairness ==
    /\ WF_vars(StartStep)
    /\ \A c \in Callers : WF_vars(StopResumes(c))
    /\ \A t \in Tasks : WF_vars(TaskStep(t))

Spec == Init /\ [][Next]_vars
FairSpec == Spec /\ Fairness

(***************************************************************************)
(* Properties                                                              *)
(***************************************************************************)

\* A task that may still write metrics has its Redis pool: stop() closes it after
\* both kinds of tasks are over, whatever calls of stop() interleave.  A stop()
\* that meets a suspended start() is excluded: it finds nothing to stop, and what
\* start() creates later is orphaned.
RedisOutlivesTasks ==
    ~overlap /\ (\E t \in Tasks : task[t] \in Live) => redis = "open"

\* A stop() that returns leaves nothing behind, neither a task nor a connection,
\* and hides no failure of a task: what failed comes out as its exception.
ReturnsClean ==
    \A c \in Callers : stop[c] = "returned" /\ ~overlap =>
        /\ redis = "none"
        /\ \A t \in Tasks : task[t] \in {"none", "ended"}

\* A packet task is cancelled during its clean-up, where the second CancelledError may
\* leave its capture process behind (packet.py:166), only when two calls of stop()
\* wait for it: by itself a stop() cancels no task twice, in whatever stage start() or
\* another call meets it, unless a task fails and ends the waiting of the first.
SecondCancelNeedsOverlap ==
    \A t \in Ifaces : task[t] = "recancelled" =>
        \/ \E u \in Tasks : task[u] \in Faulty
        \/ \E c, d \in Callers : c # d /\ stop[c] = "packet" /\ stop[d] = "packet"

\* A stop() that has begun ends, by returning or by raising.
StopEnds == \A c \in Callers : (stop[c] \in Stages) ~> (stop[c] \in {"returned", "raised"})
=============================================================================

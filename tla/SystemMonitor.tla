---------------------------- MODULE SystemMonitor ----------------------------
(***************************************************************************)
(* monitor_system (monitor/system.py): the asyncio task that samples the   *)
(* CPU and the memory of the container and moves the samples to Redis in   *)
(* groups.  Reading is synchronous, so an action is the code between two   *)
(* suspensions: the callback and the sleep.                                *)
(*                                                                         *)
(* Samples are numbered in the order in which they are taken; a number     *)
(* also stands for the reading of the CPU times made with that sample, and *)
(* 0 for the reading that precedes the loop.                               *)
(***************************************************************************)
EXTENDS Naturals, Sequences

CONSTANTS
    GroupSize,   \* group_size; 0 stores each sample by itself
    MaxSamples,  \* bound: samples taken
    MaxCancels   \* bound: calls of task.cancel()

ASSUME SizesAssumption ==
    GroupSize \in Nat /\ MaxSamples \in Nat /\ MaxCancels \in Nat

VARIABLES
    pc,       \* where the task is suspended
    outcome,  \* how it ended
    cancels,  \* calls of task.cancel() since its first step
    times,    \* _times: the reading that the next CPU percentage starts from
    samples,  \* samples taken so far
    data,     \* the group it holds
    written   \* history: samples stored in Redis, in that order

vars == <<pc, outcome, cancels, times, samples, data, written>>

\* A sample whose CPU percentage covers the time from the reading `since`.  One
\* without a CPU percentage covers nothing: `since` is its own number.
Sample == [time : 1..MaxSamples, since : 0..MaxSamples]

TypeOK ==
    /\ pc \in {"created", "sleep", "zadd", "over"}
    /\ outcome \in {"none", "ended", "failed", "killed"}
    /\ pc = "over" <=> outcome # "none"
    /\ cancels \in 0..MaxCancels
    /\ times \in 0..MaxSamples
    /\ samples \in 0..MaxSamples
    /\ data \in Seq(Sample)
    /\ written \in Seq(Sample)

Init ==
    /\ pc = "created"
    /\ outcome = "none"
    /\ cancels = 0
    /\ times = 0
    /\ samples = 0
    /\ data = <<>>
    /\ written = <<>>

Over(how) == pc' = "over" /\ outcome' = how

\* system.py:226-227: the first reading of the CPU times.
Run ==
    /\ pc = "created"
    /\ pc' = "sleep"
    /\ UNCHANGED <<outcome, cancels, times, samples, data, written>>

\* It is not guarded like those of the loop: a cgget that fails ends the task.
RunFails ==
    /\ pc = "created"
    /\ Over("failed")
    /\ UNCHANGED <<cancels, times, samples, data, written>>

\* What the reading of the CPU made of sample n, and of the times: a percentage,
\* nothing because the usage was not to be read (system.py:58-59), or nothing because
\* the limits were not, after the times were updated (system.py:86-89, 139).
MutReadCpuKeepsTimes(n, s, t) ==
    s = [time |-> n, since |-> times] /\ t = times
ReadCpu(n, s, t) ==
    \/ s = [time |-> n, since |-> times] /\ t = n
    \/ s = [time |-> n, since |-> n] /\ t \in {times, n}

\* system.py:205-206.
MutGroupFullOneLate(d) == GroupSize = 0 \/ Len(d) > GroupSize
GroupFull(d) == GroupSize = 0 \/ Len(d) >= GroupSize

\* system.py:229-231 and 186-206: the sleep is over, a sample is taken, whatever of
\* it fails, and a full group is sent.
TakeSample ==
    /\ pc = "sleep"
    /\ cancels = 0
    /\ samples < MaxSamples
    /\ samples' = samples + 1
    /\ \E s \in Sample : ReadCpu(samples', s, times') /\ data' = Append(data, s)
    /\ pc' = IF GroupFull(data') THEN "zadd" ELSE "sleep"
    /\ UNCHANGED <<outcome, cancels, written>>

\* system.py:207-208: async_cb returned, and only now is the group given up.
MutCallbackReturnsKeepsData ==
    /\ pc = "zadd"
    /\ cancels = 0
    /\ written' = written \o data
    /\ pc' = "sleep"
    /\ UNCHANGED <<outcome, cancels, times, samples, data>>
CallbackReturns ==
    /\ pc = "zadd"
    /\ cancels = 0
    /\ written' = written \o data
    /\ data' = <<>>
    /\ pc' = "sleep"
    /\ UNCHANGED <<outcome, cancels, times, samples>>

\* async_cb raised and nothing catches it; the transaction may have been executed
\* all the same.
CallbackFails ==
    /\ pc = "zadd"
    /\ cancels = 0
    /\ written' \in {written, written \o data}
    /\ Over("failed")
    /\ UNCHANGED <<cancels, times, samples, data>>

\* task.cancel().  A task that was never stepped does not get to its try block.
Cancel ==
    /\ pc # "over"
    /\ cancels < MaxCancels
    /\ cancels' = cancels + 1
    /\ IF pc = "created" THEN Over("killed") ELSE UNCHANGED <<pc, outcome>>
    /\ UNCHANGED <<times, samples, data, written>>

\* system.py:233-234: the task resumes with one CancelledError, however often it
\* was cancelled, and returns.  What was being stored may be or not.
MutCancelledNotCaught ==
    /\ cancels > 0
    /\ pc \in {"sleep", "zadd"}
    /\ \/ UNCHANGED written
       \/ pc = "zadd" /\ written' = written \o data
    /\ Over("killed")
    /\ UNCHANGED <<cancels, times, samples, data>>
Cancelled ==
    /\ cancels > 0
    /\ pc \in {"sleep", "zadd"}
    /\ \/ UNCHANGED written
       \/ pc = "zadd" /\ written' = written \o data
    /\ Over("ended")
    /\ UNCHANGED <<cancels, times, samples, data>>

Next ==
    \/ Run \/ RunFails \/ TakeSample \/ CallbackReturns \/ CallbackFails
    \/ Cancel \/ Cancelled

Spec == Init /\ [][Next]_vars

(***************************************************************************)
(* It keeps the promise NodeMonitor relies on.                             *)
(***************************************************************************)

TaskState ==
    IF pc = "created" THEN "created"
    ELSE IF pc = "over" THEN outcome
    ELSE IF cancels = 0 THEN "running" ELSE "cancelling"

Promise == INSTANCE MonitorTask WITH st <- TaskState, CleansUp <- FALSE

\* The system task absorbs cancellation wherever it is suspended, as often as it
\* comes, and fails only before it was cancelled (system.py:225-234).
ImplementsMonitorTask == [][Promise!Next]_TaskState

(***************************************************************************)
(* Properties                                                              *)
(***************************************************************************)

\* Redis holds the first samples, each once and in order: neither a group of
\* unknown fate nor one cleared too early or too late (system.py:205-208) leaves a
\* gap or a repetition.
StoredIsPrefix == \A i \in 1..Len(written) : written[i].time = i

\* At no moment, also when the task is cancelled or fails during a write, are more
\* samples missing than one group (system.py:205-208).
AtMostOneGroupMissing ==
    samples - Len(written) <= IF GroupSize = 0 THEN 1 ELSE GroupSize

\* The CPU percentages that are stored cover disjoint spans of time, also around a
\* sample whose reading failed half-way (system.py:75-94, 131-146).
CpuSpansDisjoint ==
    \A i, j \in 1..Len(written) :
        i < j /\ written[i].since < written[i].time => written[i].time <= written[j].since
=============================================================================

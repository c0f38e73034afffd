----------------------------- MODULE MonitorTask -----------------------------
(***************************************************************************)
(* What NodeMonitor assumes of the tasks it creates: the life of one       *)
(* asyncio task that runs monitor_system or monitor_packets.  Only the     *)
(* latter has a clean-up in which it can wait, be cancelled again or be    *)
(* interrupted.                                                            *)
(***************************************************************************)
CONSTANT CleansUp    \* it runs monitor_packets

VARIABLE st

Init == st = "none"

Create == st = "none" /\ st' = "created"

Run == st = "created" /\ st' = "running"

\* An exception, raised before the first suspension, at once or after the clean-up.
Fail ==
    \/ st \in {"created", "running"} /\ st' = "failed"
    \/ CleansUp /\ st = "running" /\ st' = "failing"
    \/ CleansUp /\ st = "failing" /\ st' = "failed"

\* task.cancel().  A task that never ran has no handler yet; a task that is
\* failing is already in its clean-up.
Cancel ==
    \/ st = "created" /\ st' = "killed"
    \/ st = "running" /\ st' = "cancelling"
    \/ CleansUp /\ st = "cancelling" /\ st' = "recancelled"

\* The first CancelledError is caught: the task returns.
End == st \in {"cancelling", "recancelled"} /\ st' = "ended"

\* The second one may not be.
Kill == st = "recancelled" /\ st' = "killed"

Next == Create \/ Run \/ Fail \/ Cancel \/ End \/ Kill

Spec == Init /\ [][Next]_st
=============================================================================

---------------------------- MODULE BrokerRuntime ----------------------------
(***************************************************************************)
(* `wotemu broker` (cli/broker.py): one asyncio loop that runs the node    *)
(* monitor, and mosquitto beside it.  A signal, a failure of mosquitto     *)
(* (reported by a thread of the sh library) and a failure to start the     *)
(* monitor each run a _close_loop of their own; no lock serialises them.   *)
(*                                                                         *)
(* The model begins when run_forever does.  An action is the code one      *)
(* coroutine runs between two suspensions; the monitor's are those of      *)
(* NodeMonitor, whose stop() is called from here.                          *)
(***************************************************************************)
EXTENDS Naturals, FiniteSets

CONSTANTS
    Signals,   \* bound: the SIGINT and SIGTERM received, one _close_loop each
    Done,      \* the _close_loop of mosquitto's end
    Starter,   \* the _close_loop inside _start_monitor
    System     \* the monitor's system task; it has no packet tasks here

Closers == Signals \cup {Done, Starter}

VARIABLES
    loop,       \* "running", "stopped" (run_forever returned), "over" (the process ended)
    mosquitto,  \* the process
    closer,     \* where each _close_loop is
    start, stop, redis, task, task_system, tasks_packet, overlap  \* NodeMonitor

monitorVars == <<start, stop, redis, task, task_system, tasks_packet, overlap>>
brokerVars == <<loop, mosquitto, closer>>
vars == <<loop, mosquitto, closer,
          start, stop, redis, task, task_system, tasks_packet, overlap>>

\* NodeMonitor is given no packet_ifaces (broker.py:106-107).
M == INSTANCE NodeMonitor WITH Callers <- Closers, Ifaces <- {}

TypeOK ==
    /\ loop \in {"running", "stopped", "over"}
    /\ mosquitto \in {"running", "exited", "failed", "terminated"}
    /\ mosquitto = "terminated" => loop = "over"
    /\ closer \in [Closers -> {"idle", "scheduled", "stopping", "finished"}]
    /\ M!TypeOK

Init ==
    /\ loop = "running"
    /\ mosquitto = "running"
    /\ closer = [c \in Closers |-> "idle"]
    /\ M!Init

\* broker.py:84-86 and 123-124.
Signal(s) ==
    /\ loop = "running"
    /\ closer[s] = "idle"
    /\ closer' = [closer EXCEPT ![s] = "scheduled"]
    /\ UNCHANGED <<loop, mosquitto, monitorVars>>

\* broker.py:20-25: a mosquitto that ends without an error is only logged.
MosquittoExits ==
    /\ mosquitto = "running"
    /\ loop # "over"
    /\ mosquitto' = "exited"
    /\ UNCHANGED <<loop, closer, monitorVars>>

\* broker.py:27-29; a loop that is stopped runs nothing any more.
MosquittoFails ==
    /\ mosquitto = "running"
    /\ loop # "over"
    /\ mosquitto' = "failed"
    /\ closer' = [closer EXCEPT ![Done] = IF loop = "running" THEN "scheduled" ELSE @]
    /\ UNCHANGED <<loop, monitorVars>>

\* broker.py:74-81: monitor.stop() is over, whatever came out of it, and the loop
\* is stopped; or it is suspended.
MutAfterStopNoExcept(c) ==
    CASE stop'[c] = "returned" ->
            closer' = [closer EXCEPT ![c] = "finished"] /\ loop' = "stopped"
      [] stop'[c] = "raised" ->
            closer' = [closer EXCEPT ![c] = "finished"] /\ UNCHANGED loop
      [] OTHER ->
            closer' = [closer EXCEPT ![c] = "stopping"] /\ UNCHANGED loop
MutAfterStopNoAwait(c) ==
    closer' = [closer EXCEPT ![c] = "finished"] /\ loop' = "stopped"
AfterStop(c) ==
    IF stop'[c] \in {"returned", "raised"}
      THEN closer' = [closer EXCEPT ![c] = "finished"] /\ loop' = "stopped"
      ELSE closer' = [closer EXCEPT ![c] = "stopping"] /\ UNCHANGED loop

\* The handler of a failed start() (broker.py:93-97) goes on to _close_loop.
Scheduled(c) ==
    \/ closer[c] = "scheduled"
    \/ c = Starter /\ closer[c] = "idle" /\ start = "failed"

\* broker.py:73-76.
CloseBegins(c) ==
    /\ loop = "running"
    /\ Scheduled(c)
    /\ M!StopCall(c)
    /\ AfterStop(c)
    /\ UNCHANGED mosquitto

CloseResumes(c) ==
    /\ loop = "running"
    /\ closer[c] = "stopping"
    /\ M!StopResumes(c)
    /\ AfterStop(c)
    /\ UNCHANGED mosquitto

\* broker.py:133-136 and 63-69: the loop is closed, and mosquitto terminated.
Terminate ==
    /\ loop = "stopped"
    /\ loop' = "over"
    /\ mosquitto' = IF mosquitto = "running" THEN "terminated" ELSE mosquitto
    /\ UNCHANGED <<closer, monitorVars>>

\* What the loop runs of the monitor besides its stop() (broker.py:89-94, 129).
MonitorStart == loop = "running" /\ M!StartStep /\ UNCHANGED brokerVars
MonitorTask(t) == loop = "running" /\ M!TaskStep(t) /\ UNCHANGED brokerVars
MonitorTaskFails(t) == loop = "running" /\ M!TaskFails(t) /\ UNCHANGED brokerVars

CloseStep(c) == CloseBegins(c) \/ CloseResumes(c)

Next ==
    \/ \E s \in Signals : Signal(s)
    \/ MosquittoExits \/ MosquittoFails
    \/ \E c \in Closers : CloseStep(c)
    \/ Terminate
    \/ MonitorStart
    \/ \E t \in M!Tasks : MonitorTask(t) \/ MonitorTaskFails(t)

\* The loop runs what is ready, and Redis and the clean-up of the system task
\* answer.  No signal, no end of mosquitto and no fault is forced.
Fairness ==
    /\ \A c \in Closers : WF_vars(CloseStep(c))
    /\ WF_vars(Terminate)
    /\ WF_vars(MonitorStart)
    /\ \A t \in M!Tasks : WF_vars(MonitorTask(t))

Spec == Init /\ [][Next]_vars
FairSpec == Spec /\ Fairness

(***************************************************************************)
(* Properties                                                              *)
(***************************************************************************)

MonitorFault == \E t \in M!Tasks : task[t] \in M!Faulty

\* When the loop is stopped, by whichever of the overlapping _close_loop calls was
\* first, the monitor has been stopped, unless it was starting or one of its tasks
\* had failed (broker.py:72-81, base.py:158-163).
CleanClose ==
    loop # "running" /\ ~overlap /\ ~MonitorFault =>
        redis = "none" /\ task[System] \in {"none", "ended"}

\* Once a signal arrived, mosquitto failed or the monitor did not start, the process
\* ends, whatever monitor.stop() meets: a failed task, or a start() that is still
\* suspended (broker.py:27-29, 72-81, 93-97).
BrokerCloses ==
    (mosquitto = "failed" \/ \E c \in Closers : Scheduled(c)) ~> (loop = "over")
=============================================================================

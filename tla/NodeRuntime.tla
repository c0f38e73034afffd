----------------------------- MODULE NodeRuntime -----------------------------
(***************************************************************************)
(* `wotemu app` (cli/app.py): one asyncio loop that runs the servient, the  *)
(* user's application and the node monitor, and is brought down by _stop,  *)
(* which a signal or the failure of the application schedules.             *)
(*                                                                         *)
(* The model begins when run_forever does.  An action is the code one      *)
(* coroutine runs between two suspensions; the monitor's are those of      *)
(* NodeMonitor, whose stop() is called from here.                          *)
(***************************************************************************)
EXTENDS Naturals, FiniteSets

CONSTANTS
    Signals,           \* bound: the SIGINT and SIGTERM received, one _stop each
    AppDone,           \* the _stop scheduled by _app_done_cb
    Free,              \* the asyncio.Lock is not held
    System, Ifaces,    \* the monitor's tasks
    CatchesCancelled   \* `except Exception` catches CancelledError: Python 3.7,
                       \* not 3.8 (a BaseException from there on)

Stops == Signals \cup {AppDone}

ASSUME StopsAssumption == IsFiniteSet(Signals) /\ AppDone \notin Signals /\ Free \notin Stops
ASSUME PythonAssumption == CatchesCancelled \in BOOLEAN
ASSUME MonitorAssumption == System \notin Ifaces

VARIABLES
    loop,        \* "running" until loop.close()
    exit_code,   \* the code the process ends with: exit_status, or a SystemExit
    servient,    \* the task of _start_servient
    shut,        \* servient.shutdown() has been called
    app,         \* app_task
    stopper,     \* where each _stop is
    lock,        \* its asyncio.Lock
    pool,        \* redis_pool, used by the interaction callbacks
    start, stop, redis, task, task_system, tasks_packet, overlap  \* NodeMonitor

monitorVars == <<start, stop, redis, task, task_system, tasks_packet, overlap>>
nodeVars == <<loop, exit_code, servient, shut, app, stopper, lock, pool>>
vars == <<loop, exit_code, servient, shut, app, stopper, lock, pool,
          start, stop, redis, task, task_system, tasks_packet, overlap>>

M == INSTANCE NodeMonitor WITH Callers <- Stops

AppOver == {"returned", "raised", "cancelled"}
AtWork == {"app", "app_again", "servient", "monitor", "pool"}

TypeOK ==
    /\ loop \in {"running", "closed"}
    /\ exit_code \in {0, 1}
    /\ servient \in {"starting", "started", "failed"}
    /\ shut \in BOOLEAN
    /\ app \in {"running", "cancelling"} \cup AppOver
    /\ stopper \in [Stops -> AtWork \cup {"idle", "scheduled", "ignored", "aborted", "finished"}]
    /\ lock \in Stops \cup {Free}
    /\ pool \in {"open", "closing", "closed"}
    /\ M!TypeOK

Init ==
    /\ loop = "running"
    /\ exit_code = 0
    /\ servient = "starting"
    /\ shut = FALSE
    /\ app = "running"
    /\ stopper = [s \in Stops |-> "idle"]
    /\ lock = Free
    /\ pool = "open"
    /\ M!Init

(***************************************************************************)
(* The servient, the application and the signals                           *)
(***************************************************************************)

\* app.py:125-128.
ServientStarts ==
    /\ loop = "running"
    /\ servient = "starting"
    /\ servient' = "started"
    /\ UNCHANGED <<loop, exit_code, shut, app, stopper, lock, pool, monitorVars>>

\* app.py:129-131: the SystemExit of a task comes out of run_forever, and the
\* process ends at once (app.py:294-296).
ServientFails ==
    /\ loop = "running"
    /\ servient = "starting"
    /\ servient' = "failed"
    /\ loop' = "closed"
    /\ exit_code' = 1
    /\ UNCHANGED <<shut, app, stopper, lock, pool, monitorVars>>

\* The application is user code.  It may return or raise when it likes; once
\* cancelled it may also let the CancelledError through.
\* app.py:178-180: neither end is an error.
AppReturns ==
    /\ loop = "running"
    /\ app \in {"running", "cancelling"}
    /\ app' = "returned"
    /\ UNCHANGED <<loop, exit_code, servient, shut, stopper, lock, pool, monitorVars>>

AppCancelled ==
    /\ loop = "running"
    /\ app = "cancelling"
    /\ app' = "cancelled"
    /\ UNCHANGED <<loop, exit_code, servient, shut, stopper, lock, pool, monitorVars>>

\* app.py:178-185: the done callback runs before whoever awaits app_task.
MutAppRaisesNoStop ==
    /\ loop = "running"
    /\ app \in {"running", "cancelling"}
    /\ app' = "raised"
    /\ exit_code' = 1
    /\ UNCHANGED <<loop, servient, shut, stopper, lock, pool, monitorVars>>
MutAppRaisesCodeUnlessStopping ==
    /\ loop = "running"
    /\ app \in {"running", "cancelling"}
    /\ app' = "raised"
    /\ exit_code' = IF lock = Free THEN 1 ELSE exit_code
    /\ stopper' = [stopper EXCEPT ![AppDone] = "scheduled"]
    /\ UNCHANGED <<loop, servient, shut, lock, pool, monitorVars>>
AppRaises ==
    /\ loop = "running"
    /\ app \in {"running", "cancelling"}
    /\ app' = "raised"
    /\ exit_code' = 1
    /\ stopper' = [stopper EXCEPT ![AppDone] = "scheduled"]
    /\ UNCHANGED <<loop, servient, shut, lock, pool, monitorVars>>

\* app.py:284-289.
Signal(s) ==
    /\ loop = "running"
    /\ stopper[s] = "idle"
    /\ stopper' = [stopper EXCEPT ![s] = "scheduled"]
    /\ UNCHANGED <<loop, exit_code, servient, shut, app, lock, pool, monitorVars>>

(***************************************************************************)
(* _stop                                                                   *)
(***************************************************************************)

\* app.py:155-157: another _stop is at work.
StopIgnored(s) ==
    /\ loop = "running"
    /\ stopper[s] = "scheduled"
    /\ lock # Free
    /\ stopper' = [stopper EXCEPT ![s] = "ignored"]
    /\ UNCHANGED <<loop, exit_code, servient, shut, app, lock, pool, monitorVars>>

\* app.py:159-163: a free asyncio.Lock is taken without suspending.
MutStopBeginsNoLock(s) ==
    /\ loop = "running"
    /\ stopper[s] = "scheduled"
    /\ stopper' = [stopper EXCEPT ![s] = "app"]
    /\ app' = IF app = "running" THEN "cancelling" ELSE app
    /\ UNCHANGED <<loop, exit_code, servient, shut, lock, pool, monitorVars>>
StopBegins(s) ==
    /\ loop = "running"
    /\ stopper[s] = "scheduled"
    /\ lock = Free
    /\ lock' = s
    /\ stopper' = [stopper EXCEPT ![s] = "app"]
    /\ app' = IF app = "running" THEN "cancelling" ELSE app
    /\ UNCHANGED <<loop, exit_code, servient, shut, pool, monitorVars>>

\* An exception leaves the body of _stop, and the lock with it.
Abort(s) ==
    /\ stopper' = [stopper EXCEPT ![s] = "aborted"]
    /\ lock' = Free
    /\ UNCHANGED <<shut, pool>>

\* app.py:136-137.
ShutServient(s) ==
    /\ stopper' = [stopper EXCEPT ![s] = "servient"]
    /\ shut' = TRUE
    /\ UNCHANGED <<lock, pool>>

\* app.py:163-165: wait_for gives the outcome of app_task, here in time.
AppJoined(s) ==
    /\ loop = "running"
    /\ stopper[s] = "app"
    /\ app \in AppOver
    /\ IF app = "cancelled" /\ ~CatchesCancelled THEN Abort(s) ELSE ShutServient(s)
    /\ UNCHANGED <<loop, exit_code, servient, app, monitorVars>>

\* wait_for cancels the task again after _TIMEOUT and waits for its end.
MutAppTimeoutGoesOn(s) ==
    /\ loop = "running"
    /\ stopper[s] = "app"
    /\ app \notin AppOver
    /\ ShutServient(s)
    /\ UNCHANGED <<loop, exit_code, servient, app, monitorVars>>
AppTimeout(s) ==
    /\ loop = "running"
    /\ stopper[s] = "app"
    /\ app \notin AppOver
    /\ stopper' = [stopper EXCEPT ![s] = "app_again"]
    /\ UNCHANGED <<loop, exit_code, servient, shut, app, lock, pool, monitorVars>>

\* Then it raises TimeoutError, or what the task raised: app.py:164 catches both.
AppJoinedLate(s) ==
    /\ loop = "running"
    /\ stopper[s] = "app_again"
    /\ app \in AppOver
    /\ ShutServient(s)
    /\ UNCHANGED <<loop, exit_code, servient, app, monitorVars>>

\* app.py:170-172: monitor.stop() is not in a try.
MutAfterMonitorNoAwait(s) ==
    /\ stopper' = [stopper EXCEPT ![s] = "pool"]
    /\ pool' = "closing"
    /\ UNCHANGED <<shut, lock>>
AfterMonitor(s) ==
    CASE stop'[s] = "raised" -> Abort(s)
      [] stop'[s] = "returned" ->
            /\ stopper' = [stopper EXCEPT ![s] = "pool"]
            /\ pool' = "closing"
            /\ UNCHANGED <<shut, lock>>
      [] OTHER ->
            /\ stopper' = [stopper EXCEPT ![s] = "monitor"]
            /\ UNCHANGED <<shut, lock, pool>>

\* app.py:137-139 and 169-170: shutdown() returned, or raised and was logged.
ServientShut(s) ==
    /\ loop = "running"
    /\ stopper[s] = "servient"
    /\ M!StopCall(s)
    /\ AfterMonitor(s)
    /\ UNCHANGED <<loop, exit_code, servient, app>>

MonitorResumes(s) ==
    /\ loop = "running"
    /\ stopper[s] = "monitor"
    /\ M!StopResumes(s)
    /\ AfterMonitor(s)
    /\ UNCHANGED <<loop, exit_code, servient, app>>

\* app.py:148-151 and 174-175, then 294-301: the loop stops and the process ends.
PoolClosed(s) ==
    /\ loop = "running"
    /\ stopper[s] = "pool"
    /\ stopper' = [stopper EXCEPT ![s] = "finished"]
    /\ pool' = "closed"
    /\ lock' = Free
    /\ loop' = "closed"
    /\ UNCHANGED <<exit_code, servient, shut, app, monitorVars>>

StopStep(s) ==
    \/ StopIgnored(s) \/ StopBegins(s) \/ AppJoined(s) \/ AppTimeout(s)
    \/ AppJoinedLate(s) \/ ServientShut(s) \/ MonitorResumes(s) \/ PoolClosed(s)

AppEnds == AppReturns \/ AppCancelled \/ AppRaises

\* What the loop runs of the monitor besides its stop().
MonitorStart == loop = "running" /\ M!StartStep /\ UNCHANGED nodeVars
MonitorTask(t) == loop = "running" /\ M!TaskStep(t) /\ UNCHANGED nodeVars
MonitorTaskFails(t) == loop = "running" /\ M!TaskFails(t) /\ UNCHANGED nodeVars

Next ==
    \/ ServientStarts \/ ServientFails
    \/ AppEnds
    \/ \E s \in Signals : Signal(s)
    \/ \E s \in Stops : StopStep(s)
    \/ MonitorStart
    \/ \E t \in M!Tasks : MonitorTask(t) \/ MonitorTaskFails(t)

\* The loop runs what is ready; the servient, Redis and the clean-up of the
\* monitor's tasks answer.  A cancelled application ends: that is asked of user
\* code.  No signal, no end of a running application and no fault is forced.
Fairness ==
    /\ WF_vars(ServientStarts \/ ServientFails)
    /\ WF_vars(app = "cancelling" /\ AppEnds)
    /\ \A s \in Stops : WF_vars(StopStep(s))
    /\ WF_vars(MonitorStart)
    /\ \A t \in M!Tasks : WF_vars(MonitorTask(t))

Spec == Init /\ [][Next]_vars
FairSpec == Spec /\ Fairness

(***************************************************************************)
(* Properties                                                              *)
(***************************************************************************)

MonitorFault == \E t \in M!Tasks : task[t] \in M!Faulty

\* The application never runs on a servient that is being shut down, nor on a
\* closed Redis pool, even if it takes longer than _TIMEOUT to end and other
\* calls of _stop gave up before (app.py:160-172).
AppGoneFirst == shut \/ pool # "open" => app \in AppOver

\* The clean-up of a packet task is not cut short by a second cancellation,
\* which would leave its capture process alive: that is what the lock is for
\* (app.py:155-159).  Only an earlier fault, which ends the first _stop, can.
CleanupUninterrupted == (\E t \in Ifaces : task[t] = "recancelled") => MonitorFault

\* When the loop is stopped, everything that ran in it has been stopped, by
\* whichever sequence of aborted and ignored calls of _stop (app.py:154-175);
\* the monitor too, unless it was starting.
CleanExit ==
    loop = "closed" /\ servient # "failed" =>
        /\ app \in AppOver
        /\ shut
        /\ pool = "closed"
        /\ ~overlap => /\ redis = "none"
                       /\ \A t \in M!Tasks : task[t] \in {"none", "ended"}

\* The process reports an error to Swarm exactly when the application raised, even
\* while it was being cancelled, or the servient did not start (app.py:131, 184, 297).
ExitCodeTellsErrors ==
    loop = "closed" => (exit_code = 1 <=> app = "raised" \/ servient = "failed")

\* Once a signal arrived or the application failed, the process ends, unless a
\* task of the monitor has failed or a CancelledError got out of _stop.
CancelEscapes == ~CatchesCancelled /\ app = "cancelled"
StopCompletes ==
    (app = "raised" \/ \E s \in Stops : stopper[s] = "scheduled")
        ~> (loop = "closed" \/ MonitorFault \/ CancelEscapes)

\* README.md:21: replicas "will automatically recover from errors", which takes
\* the end of the failed process.  When a task of the monitor failed before,
\* monitor.stop() raises and loop.stop() is not reached (app.py:170-175).
AppErrorEndsNode == (app = "raised") ~> (loop = "closed")

\* setup.py:30-31 supports Python 3.8 and 3.9 and the image installs 3.8; there a
\* cancelled application makes wait_for raise what `except Exception` does not
\* catch, and no signal ends the process (app.py:160-165).
SignalEndsNode ==
    (\E s \in Signals : stopper[s] = "scheduled") ~> (loop = "closed" \/ MonitorFault)
=============================================================================

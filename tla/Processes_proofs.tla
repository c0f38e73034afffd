--------------------------- MODULE Processes_proofs --------------------------
(***************************************************************************)
(* Theorems about the two processes that run a node monitor: NodeRuntime,  *)
(* for any number of signals and interfaces and for both meanings of       *)
(* `except Exception`, and BrokerRuntime (B), for any number of signals.   *)
(* What was proved of NodeMonitor holds of the monitor inside each of      *)
(* them, because each uses it as NodeMonitor allows.                       *)
(***************************************************************************)
EXTENDS MCProcesses, TLAPS

NodeTypeOK ==
    /\ exit_code \in {0, 1}
    /\ app \in {"running", "cancelling"} \cup AppOver
    /\ DOMAIN stopper = Stops

\* A _stop that is past the application has shut the servient down: this is why
\* it may close the pool without looking at the application again.
PastApp ==
    \A s \in Stops : stopper[s] \in {"servient", "monitor", "pool"} => shut

\* The code is decided when the failure happens, not when the process ends.
CodeFollows == exit_code = 1 <=> app = "raised" \/ servient = "failed"

IInv == NodeTypeOK /\ PastApp /\ AppGoneFirst /\ CodeFollows

LEMMA InitInv == Init => IInv
BY DEF Init, IInv, NodeTypeOK, PastApp, AppGoneFirst, CodeFollows, AppOver

LEMMA StopStepInv ==
  ASSUME IInv, NEW s \in Stops, StopStep(s)
  PROVE  IInv'
<1> USE DEF IInv, NodeTypeOK, PastApp, AppGoneFirst, CodeFollows, AppOver
<1>1. CASE StopIgnored(s)
  BY <1>1 DEF StopIgnored
<1>2. CASE StopBegins(s)
  BY <1>2 DEF StopBegins
<1>3. CASE AppJoined(s)
  BY <1>3 DEF AppJoined, Abort, ShutServient
<1>4. CASE AppTimeout(s)
  BY <1>4 DEF AppTimeout
<1>5. CASE AppJoinedLate(s)
  BY <1>5 DEF AppJoinedLate, ShutServient
<1>6. ASSUME shut, AfterMonitor(s), UNCHANGED <<exit_code, servient, app>> PROVE IInv'
  <2>1. /\ shut' = shut
        /\ \/ stopper' = [stopper EXCEPT ![s] = "aborted"]
           \/ stopper' = [stopper EXCEPT ![s] = "pool"]
           \/ stopper' = [stopper EXCEPT ![s] = "monitor"]
    BY <1>6 DEF AfterMonitor, Abort
  <2> QED BY <1>6, <2>1
<1>7. CASE ServientShut(s)
  BY <1>6, <1>7 DEF ServientShut
<1>8. CASE MonitorResumes(s)
  BY <1>6, <1>8 DEF MonitorResumes
<1>9. CASE PoolClosed(s)
  BY <1>9 DEF PoolClosed
<1> QED
  BY <1>1, <1>2, <1>3, <1>4, <1>5, <1>7, <1>8, <1>9 DEF StopStep

LEMMA NextInv == IInv /\ [Next]_vars => IInv'
<1> SUFFICES ASSUME IInv, [Next]_vars PROVE IInv'
  OBVIOUS
<1>1. ASSUME NEW s \in Stops, StopStep(s) PROVE IInv'
  BY <1>1, StopStepInv
<1> USE DEF IInv, NodeTypeOK, PastApp, AppGoneFirst, CodeFollows, AppOver
<1>2. CASE ServientStarts
  BY <1>2 DEF ServientStarts
<1>3. CASE ServientFails
  BY <1>3 DEF ServientFails
<1>4. CASE AppReturns
  BY <1>4 DEF AppReturns
<1>5. CASE AppCancelled
  BY <1>5 DEF AppCancelled
<1>6. CASE AppRaises
  BY <1>6 DEF AppRaises
<1>7. ASSUME NEW s \in Signals, Signal(s) PROVE IInv'
  BY <1>7 DEF Signal
<1>8. ASSUME UNCHANGED nodeVars PROVE IInv'
  BY <1>8 DEF nodeVars
<1>9. UNCHANGED vars => UNCHANGED nodeVars
  BY DEF vars, nodeVars
<1> QED
  BY <1>1, <1>2, <1>3, <1>4, <1>5, <1>6, <1>7, <1>8, <1>9
  DEF Next, AppEnds, MonitorStart, MonitorTask, MonitorTaskFails

LEMMA Invariance == Spec => []IInv
BY InitInv, NextInv, PTL DEF Spec

\* Whatever interleaving of signals, timeouts, aborted calls of _stop and monitor
\* faults, the application is over before anything it uses is closed
\* (app.py:160-172).
THEOREM ApplicationIsGoneFirst == Spec => []AppGoneFirst
<1>1. IInv => AppGoneFirst
  BY DEF IInv
<1> QED BY <1>1, Invariance, PTL

\* The exit code is an error exactly when something failed
\* (app.py:131, 184, 297-301).
THEOREM ExitCodeIsTruthful == Spec => []ExitCodeTellsErrors
<1>1. IInv => ExitCodeTellsErrors
  BY DEF IInv, CodeFollows, ExitCodeTellsErrors
<1> QED BY <1>1, Invariance, PTL

(***************************************************************************)
(* The monitor inside the node: NodeRuntime implements NodeMonitor, whose  *)
(* theorems then hold of it.                                               *)
(***************************************************************************)

P == INSTANCE NodeMonitor_proofs WITH Callers <- Stops

LEMMA MonitorStartAgrees == M!StartStep => P!StartStep
BY DEF M!StartStep, P!StartStep, M!Start, P!Start, M!StartOpened, P!StartOpened,
       M!StartWritten, P!StartWritten, M!StartFails, P!StartFails, M!Tasks, P!Tasks

LEMMA MonitorTaskAgrees ==
  ASSUME NEW t \in M!Tasks, M!TaskStep(t) \/ M!TaskFails(t)
  PROVE  t \in P!Tasks /\ (P!TaskStep(t) \/ P!TaskFails(t))
BY DEF M!Tasks, P!Tasks, M!TaskStep, P!TaskStep, M!TaskFails, P!TaskFails, M!Become, P!Become,
       M!TaskRuns, P!TaskRuns, M!TaskFailed, P!TaskFailed, M!TaskEnds, P!TaskEnds,
       M!TaskKilled, P!TaskKilled

LEMMA MonitorStopAgrees ==
  ASSUME NEW s \in Stops
  PROVE  /\ M!StopCall(s) => P!StopCall(s)
         /\ M!StopResumes(s) => P!StopResumes(s)
<1>1. ASSUME NEW after, M!Proceed(s, after) PROVE P!Proceed(s, after)
  BY <1>1 DEF M!Proceed, P!Proceed, M!NextStage, P!NextStage, M!Cancel, P!Cancel,
              M!Cancelled, P!Cancelled, M!Targets, P!Targets, M!Tasks, P!Tasks
<1>2. M!Raise(s) => P!Raise(s)
  BY DEF M!Raise, P!Raise
<1>3. M!Faulty \ M!Live = P!Faulty \ P!Live
  BY DEF M!Faulty, P!Faulty, M!Live, P!Live
<1> QED
  BY <1>1, <1>2, <1>3
  DEF M!StopCall, P!StopCall, M!StopResumes, P!StopResumes, M!SystemJoined, P!SystemJoined,
      M!PacketJoined, P!PacketJoined, M!RedisClosed, P!RedisClosed

LEMMA InitAgrees == Init => P!Init
BY DEF Init, M!Init, P!Init, M!Tasks, P!Tasks

\* The steps of Next, by what they do to the monitor.
LEMMA StepCases ==
  ASSUME [Next]_vars
  PROVE  \/ UNCHANGED monitorVars
         \/ /\ UNCHANGED nodeVars
            /\ \/ P!StartStep
               \/ \E t \in P!Tasks : P!TaskStep(t) \/ P!TaskFails(t)
         \/ \E s \in Stops : ServientShut(s) /\ P!StopCall(s)
         \/ \E s \in Stops : MonitorResumes(s) /\ P!StopResumes(s)
<1>1. ASSUME NEW s \in Stops, StopStep(s)
      PROVE  \/ UNCHANGED monitorVars
             \/ ServientShut(s) /\ P!StopCall(s)
             \/ MonitorResumes(s) /\ P!StopResumes(s)
  BY <1>1, MonitorStopAgrees
  DEF StopStep, StopIgnored, StopBegins, AppJoined, AppTimeout, AppJoinedLate, ServientShut,
      MonitorResumes, PoolClosed
<1>2. CASE \/ ServientStarts \/ ServientFails \/ AppEnds
           \/ \E s \in Signals : Signal(s)
           \/ UNCHANGED vars
  BY <1>2 DEF ServientStarts, ServientFails, AppEnds, AppReturns, AppCancelled, AppRaises,
              Signal, vars, monitorVars
<1>3. CASE MonitorStart \/ \E t \in M!Tasks : MonitorTask(t) \/ MonitorTaskFails(t)
  BY <1>3, MonitorStartAgrees, MonitorTaskAgrees DEF MonitorStart, MonitorTask, MonitorTaskFails
<1> QED BY <1>1, <1>2, <1>3 DEF Next

LEMMA StepAgrees == [Next]_vars => [P!Next]_(P!vars)
BY StepCases DEF P!Next, P!vars, monitorVars

\* The node starts, stops and runs its monitor as NodeMonitor says (app.py:154-175,
\* 258-289): it implements NodeMonitor.
THEOREM UsesMonitor == Spec => P!Spec
BY InitAgrees, StepAgrees, PTL DEF Spec, P!Spec

(***************************************************************************)
(* The lock of _stop, and what it is for                                   *)
(***************************************************************************)

\* Who is at work holds the lock (app.py:155-159).
Exclusive == \A s \in Stops : stopper[s] \in AtWork => lock = s

\* Where a _stop is tells where its monitor.stop() is.
Agrees ==
    \A s \in Stops :
        /\ stop[s] \in P!Stages => stopper[s] = "monitor"
        /\ stopper[s] \in {"pool", "finished"} => stop[s] = "returned"

\* The loop is stopped at the end of a _stop that went through.
StoppedAtEnd ==
    loop = "closed" /\ servient # "failed" =>
        shut /\ pool = "closed" /\ \E s \in Stops : stopper[s] = "finished"

\* The application raises once.
DoneOnce == stopper[AppDone] # "idle" => app = "raised"

LockInv == Exclusive /\ Agrees /\ StoppedAtEnd /\ DoneOnce

LEMMA LockInit == Init => LockInv
BY DEF Init, M!Init, P!Stages, Stops, LockInv, Exclusive, Agrees, StoppedAtEnd, DoneOnce, AtWork

LEMMA LockStop ==
  ASSUME IInv, P!TypeOK, LockInv, NEW s \in Stops, StopStep(s)
  PROVE  LockInv'
<1> USE StopsAssumption
        DEF LockInv, Exclusive, Agrees, StoppedAtEnd, DoneOnce, AtWork, IInv, NodeTypeOK,
            monitorVars
<1>1. CASE StopIgnored(s)
  BY <1>1 DEF StopIgnored
<1>2. CASE StopBegins(s)
  BY <1>2 DEF StopBegins
<1>3. CASE AppJoined(s)
  <2>1. stopper[s] = "app" /\ loop = "running" /\ UNCHANGED <<loop, servient, app, stop>>
    BY <1>3 DEF AppJoined
  <2>2. CASE Abort(s)
    BY <2>1, <2>2 DEF Abort
  <2>3. CASE ShutServient(s)
    BY <2>1, <2>3 DEF ShutServient
  <2> QED BY <1>3, <2>2, <2>3 DEF AppJoined
<1>4. CASE AppTimeout(s)
  BY <1>4 DEF AppTimeout
<1>5. CASE AppJoinedLate(s)
  BY <1>5 DEF AppJoinedLate, ShutServient
<1>6. ASSUME stopper[s] \in {"servient", "monitor"}, loop = "running",
             P!StopCall(s) \/ P!StopResumes(s), AfterMonitor(s),
             UNCHANGED <<loop, servient, app>>
      PROVE  LockInv'
  <2>1. \A r \in Stops \ {s} : stop'[r] = stop[r]
    BY <1>6 DEF P!StopCall, P!StopResumes, P!SystemJoined, P!PacketJoined, P!RedisClosed,
                P!Proceed, P!Raise, P!TypeOK
  <2>2. stop'[s] \in P!Stages \cup {"returned", "raised"}
    BY <1>6, MonitorAssumption, P!StageFacts
    DEF P!StopCall, P!StopResumes, P!SystemJoined, P!PacketJoined, P!RedisClosed,
        P!Proceed, P!Raise, P!TypeOK, P!Stages
  <2>3. lock = s
    BY <1>6
  <2>4. CASE stop'[s] = "raised"
    <3>1. stopper' = [stopper EXCEPT ![s] = "aborted"]
      BY <1>6, <2>4 DEF AfterMonitor, Abort
    <3> QED BY <1>6, <2>1, <2>3, <2>4, <3>1 DEF P!Stages
  <2>5. CASE stop'[s] = "returned"
    <3>1. stopper' = [stopper EXCEPT ![s] = "pool"] /\ lock' = lock
      BY <1>6, <2>5 DEF AfterMonitor
    <3> QED BY <1>6, <2>1, <2>3, <2>5, <3>1 DEF P!Stages
  <2>6. CASE stop'[s] \in P!Stages
    <3>1. stopper' = [stopper EXCEPT ![s] = "monitor"] /\ lock' = lock
      BY <1>6, <2>6 DEF AfterMonitor, P!Stages
    <3> QED BY <1>6, <2>1, <2>3, <2>6, <3>1
  <2> QED BY <2>2, <2>4, <2>5, <2>6
<1>7. CASE ServientShut(s)
  BY <1>6, <1>7, MonitorStopAgrees DEF ServientShut
<1>8. CASE MonitorResumes(s)
  BY <1>6, <1>8, MonitorStopAgrees DEF MonitorResumes
<1>9. CASE PoolClosed(s)
  BY <1>9 DEF PoolClosed, PastApp
<1> QED
  BY <1>1, <1>2, <1>3, <1>4, <1>5, <1>7, <1>8, <1>9 DEF StopStep

LEMMA LockNext == IInv /\ P!TypeOK /\ LockInv /\ [Next]_vars => LockInv'
<1> SUFFICES ASSUME IInv, P!TypeOK, LockInv, [Next]_vars PROVE LockInv'
  OBVIOUS
<1>1. ASSUME NEW s \in Stops, StopStep(s) PROVE LockInv'
  BY <1>1, LockStop
<1>2. CASE \/ ServientStarts \/ ServientFails \/ AppEnds
           \/ \E s \in Signals : Signal(s)
           \/ UNCHANGED vars
  <2> USE StopsAssumption
          DEF LockInv, Exclusive, Agrees, StoppedAtEnd, DoneOnce, AtWork, IInv, NodeTypeOK,
              monitorVars, Stops
  <2>1. CASE ServientStarts \/ ServientFails \/ UNCHANGED vars
    BY <2>1 DEF ServientStarts, ServientFails, vars
  <2>2. CASE AppReturns \/ AppCancelled
    BY <2>2 DEF AppReturns, AppCancelled
  <2>3. CASE AppRaises
    BY <2>3 DEF AppRaises
  <2>4. ASSUME NEW s \in Signals, Signal(s) PROVE LockInv'
    BY <2>4 DEF Signal
  <2> QED BY <1>2, <2>1, <2>2, <2>3, <2>4 DEF AppEnds
<1>3. CASE MonitorStart \/ \E t \in M!Tasks : MonitorTask(t) \/ MonitorTaskFails(t)
  <2>1. UNCHANGED nodeVars /\ stop' = stop
    BY <1>3 DEF MonitorStart, MonitorTask, MonitorTaskFails, M!StartStep, M!Start,
                M!StartOpened, M!StartWritten, M!StartFails, M!TaskStep, M!TaskFails,
                M!TaskRuns, M!TaskFailed, M!TaskEnds, M!TaskKilled, M!Become
  <2> QED BY <2>1 DEF nodeVars, LockInv, Exclusive, Agrees, StoppedAtEnd, DoneOnce
<1> QED BY <1>1, <1>2, <1>3 DEF Next

LEMMA MonitorFacts ==
  Spec => []P!TypeOK /\ []P!FaultInv /\ []P!ReturnsClean
BY MonitorAssumption, UsesMonitor, P!TypeCorrect, P!FaultInvariance, P!ReturnedIsClean, PTL

LEMMA LockInvariance == Spec => []LockInv
BY LockInit, LockNext, Invariance, MonitorFacts, PTL DEF Spec

\* When the loop is stopped everything in it was stopped, whatever calls of _stop
\* were ignored or aborted before (app.py:154-175).
THEOREM NodeExitsClean == Spec => []CleanExit
<1>1. IInv /\ LockInv /\ P!ReturnsClean => CleanExit
  BY DEF IInv, AppGoneFirst, LockInv, Agrees, StoppedAtEnd, P!ReturnsClean, CleanExit,
         M!Tasks, P!Tasks
<1> QED BY <1>1, Invariance, LockInvariance, MonitorFacts, PTL

LEMMA OnceNext ==
  ASSUME IInv, LockInv, P!FaultInv, P!CancelledOnce, [Next]_vars
  PROVE  P!CancelledOnce'
<1>1. P!Fault => P!Fault'
  BY StepAgrees, P!FaultStays, MonitorAssumption DEF P!FaultInv
<1>2. CASE UNCHANGED monitorVars
  BY <1>2 DEF monitorVars, P!CancelledOnce, P!Fault
<1>3. CASE P!StartStep \/ \E t \in P!Tasks : P!TaskStep(t) \/ P!TaskFails(t)
  BY <1>1, <1>3, P!OnceTask, MonitorAssumption
<1>4. ASSUME NEW s \in Stops, P!StopCall(s) \/ P!StopResumes(s),
             stopper[s] \in {"servient", "monitor"}
      PROVE  P!CancelledOnce'
  <2>1. \A r \in Stops \ {s} : stop[r] \notin P!Stages
    BY <1>4 DEF LockInv, Exclusive, Agrees, AtWork
  <2> QED BY <1>1, <1>4, <2>1, P!OnceStop, MonitorAssumption
<1> QED BY <1>2, <1>3, <1>4, StepCases DEF ServientShut, MonitorResumes

\* Only after a fault is the clean-up of a packet task interrupted by a second
\* cancellation: the lock keeps the calls of monitor.stop() apart (app.py:155-170).
THEOREM CleanupIsUninterrupted == Spec => []CleanupUninterrupted
<1>1. P!CancelledOnce => CleanupUninterrupted
  BY DEF P!CancelledOnce, P!Fault, CleanupUninterrupted, MonitorFault, M!Tasks, P!Tasks,
         M!Faulty, P!Faulty
<1>2. Init => P!CancelledOnce
  BY InitAgrees, P!OnceInit, MonitorAssumption
<1> QED BY <1>1, <1>2, OnceNext, Invariance, LockInvariance, MonitorFacts, PTL DEF Spec

(***************************************************************************)
(* No call of _stop is lost                                                *)
(***************************************************************************)

\* What StopBegins finds not free is held by a _stop at work.
LockTells == lock # Free => lock \in Stops /\ stopper[lock] \in AtWork

\* A _stop has begun, or was ignored for another that had.
Stopping == \E s \in Stops : stopper[s] \notin {"idle", "scheduled"}

NoStopIsLost ==
    loop = "running" /\ Stopping => lock # Free \/ MonitorFault \/ CancelEscapes

LEMMA LossesStay ==
  ASSUME P!FaultInv, [Next]_vars
  PROVE  MonitorFault \/ CancelEscapes => MonitorFault' \/ CancelEscapes'
<1>1. P!Fault => P!Fault'
  BY StepAgrees, P!FaultStays, MonitorAssumption DEF P!FaultInv
<1>2. (MonitorFault <=> P!Fault) /\ (MonitorFault' <=> P!Fault')
  BY DEF MonitorFault, P!Fault, M!Tasks, P!Tasks, M!Faulty, P!Faulty
<1>3. CancelEscapes => CancelEscapes'
  <2>1. ASSUME NEW s \in Stops, StopStep(s), app = "cancelled" PROVE app' = app
    BY <2>1 DEF StopStep, StopIgnored, StopBegins, AppJoined, AppTimeout, AppJoinedLate,
                ServientShut, MonitorResumes, PoolClosed
  <2>2. app = "cancelled" => app' = app
    BY <2>1 DEF Next, ServientStarts, ServientFails, AppEnds, AppReturns, AppCancelled,
                AppRaises, Signal, MonitorStart, MonitorTask, MonitorTaskFails, vars, nodeVars
  <2> QED BY <2>2 DEF CancelEscapes
<1> QED BY <1>1, <1>2, <1>3

LEMMA NoLossStop ==
  ASSUME IInv, LockInv, LockTells, NoStopIsLost, P!FaultInv, P!RaisedTells',
         NEW s \in Stops, StopStep(s)
  PROVE  LockTells' /\ NoStopIsLost'
<1> USE StopsAssumption DEF IInv, NodeTypeOK, LockTells, NoStopIsLost, Stopping, AtWork
<1>0. Free # s
  OBVIOUS
<1>1. MonitorFault \/ CancelEscapes => MonitorFault' \/ CancelEscapes'
  BY LossesStay DEF Next
\* Who holds the lock gives it up only with an error that says why.
<1>2. ASSUME lock = s, loop' = loop, Abort(s), MonitorFault' \/ CancelEscapes'
      PROVE  LockTells' /\ NoStopIsLost'
  BY <1>2 DEF Abort
<1>3. ASSUME lock = s, NEW at \in AtWork, stopper' = [stopper EXCEPT ![s] = at], lock' = lock
      PROVE  LockTells' /\ NoStopIsLost'
  BY <1>0, <1>3
<1>4. stopper[s] \in AtWork => lock = s
  BY DEF LockInv, Exclusive
<1>5. CASE StopIgnored(s)
  BY <1>5 DEF StopIgnored
<1>6. CASE StopBegins(s)
  BY <1>0, <1>6 DEF StopBegins
<1>7. CASE AppJoined(s)
  <2>1. CASE Abort(s) /\ app = "cancelled" /\ ~CatchesCancelled
    <3>1. CancelEscapes' /\ lock = s /\ loop' = loop
      BY <1>4, <1>7, <2>1 DEF AppJoined, CancelEscapes
    <3> QED BY <1>2, <2>1, <3>1
  <2>2. CASE ShutServient(s)
    BY <1>3, <1>4, <1>7, <2>2 DEF AppJoined, ShutServient
  <2> QED BY <1>7, <2>1, <2>2 DEF AppJoined
<1>8. CASE AppTimeout(s)
  BY <1>3, <1>4, <1>8 DEF AppTimeout
<1>9. CASE AppJoinedLate(s)
  BY <1>3, <1>4, <1>9 DEF AppJoinedLate, ShutServient
<1>10. CASE ServientShut(s) \/ MonitorResumes(s)
  <2>1. lock = s /\ loop' = loop /\ AfterMonitor(s)
    BY <1>4, <1>10 DEF ServientShut, MonitorResumes
  <2>2. CASE stop'[s] = "raised"
    <3>1. MonitorFault'
      BY <2>2 DEF P!RaisedTells, P!Fault, MonitorFault, M!Tasks, P!Tasks, M!Faulty, P!Faulty
    <3> QED BY <1>2, <2>1, <2>2, <3>1 DEF AfterMonitor
  <2>3. CASE stop'[s] # "raised"
    BY <1>3, <2>1, <2>3 DEF AfterMonitor
  <2> QED BY <2>2, <2>3
<1>11. CASE PoolClosed(s)
  BY <1>11 DEF PoolClosed
<1> QED
  BY <1>5, <1>6, <1>7, <1>8, <1>9, <1>10, <1>11 DEF StopStep

LEMMA NoLossNext ==
  ASSUME IInv, LockInv, LockTells, NoStopIsLost, P!FaultInv, P!RaisedTells', [Next]_vars
  PROVE  LockTells' /\ NoStopIsLost'
<1>1. MonitorFault \/ CancelEscapes => MonitorFault' \/ CancelEscapes'
  BY LossesStay
<1>2. ASSUME NEW s \in Stops, StopStep(s) PROVE LockTells' /\ NoStopIsLost'
  BY <1>2, NoLossStop
<1>3. ASSUME lock' = lock, loop' = "running" => loop = "running",
             \/ UNCHANGED stopper
             \/ \E s \in Stops : stopper[s] \notin AtWork
                                 /\ stopper' = [stopper EXCEPT ![s] = "scheduled"]
      PROVE  LockTells' /\ NoStopIsLost'
  <2>1. CASE UNCHANGED stopper
    BY <1>1, <1>3, <2>1 DEF LockTells, NoStopIsLost, Stopping
  <2>2. ASSUME NEW s \in Stops, stopper[s] \notin AtWork,
               stopper' = [stopper EXCEPT ![s] = "scheduled"]
        PROVE  LockTells' /\ NoStopIsLost'
    <3>1. Stopping' => Stopping
      BY <2>2 DEF IInv, NodeTypeOK, Stopping
    <3>2. LockTells'
      BY <1>3, <2>2 DEF IInv, NodeTypeOK, LockTells
    <3> QED BY <1>1, <1>3, <3>1, <3>2 DEF NoStopIsLost
  <2> QED BY <1>3, <2>1, <2>2
<1>4. CASE ServientStarts \/ ServientFails \/ AppReturns \/ AppCancelled \/ UNCHANGED vars
  BY <1>3, <1>4 DEF ServientStarts, ServientFails, AppReturns, AppCancelled, vars
<1>5. CASE AppRaises
  <2>1. stopper[AppDone] = "idle" /\ AppDone \in Stops
    BY <1>5 DEF AppRaises, LockInv, DoneOnce, Stops
  <2> QED BY <1>3, <1>5, <2>1 DEF AppRaises, AtWork
<1>6. ASSUME NEW s \in Signals, Signal(s) PROVE LockTells' /\ NoStopIsLost'
  <2>1. s \in Stops /\ stopper[s] = "idle"
    BY <1>6 DEF Signal, Stops
  <2> QED BY <1>3, <1>6, <2>1 DEF Signal, AtWork
<1>7. CASE MonitorStart \/ \E t \in M!Tasks : MonitorTask(t) \/ MonitorTaskFails(t)
  BY <1>3, <1>7 DEF MonitorStart, MonitorTask, MonitorTaskFails, nodeVars
<1> QED BY <1>2, <1>4, <1>5, <1>6, <1>7 DEF Next, AppEnds

\* Once a _stop has begun, the loop runs on without one at work only if a task of
\* the monitor failed or a CancelledError got out of _stop: the others were right
\* to be ignored for it (app.py:155-175).
THEOREM StopsAreNotLost == Spec => []NoStopIsLost
<1>1. Init => LockTells /\ NoStopIsLost
  BY DEF Init, LockTells, NoStopIsLost, Stopping
<1>2. P!FaultInv => P!RaisedTells
  BY DEF P!FaultInv
<1>3. IInv /\ LockInv /\ LockTells /\ NoStopIsLost /\ P!FaultInv /\ P!RaisedTells' /\ [Next]_vars
        => LockTells' /\ NoStopIsLost'
  BY NoLossNext
<1> QED BY <1>1, <1>2, <1>3, Invariance, LockInvariance, MonitorFacts, PTL DEF Spec

(***************************************************************************)
(* Types                                                                   *)
(***************************************************************************)

\* What of the type invariant is not the monitor's, which has its own theorem.
OwnTypeOK ==
    /\ loop \in {"running", "closed"}
    /\ exit_code \in {0, 1}
    /\ servient \in {"starting", "started", "failed"}
    /\ shut \in BOOLEAN
    /\ app \in {"running", "cancelling"} \cup AppOver
    /\ stopper \in [Stops -> AtWork \cup {"idle", "scheduled", "ignored", "aborted", "finished"}]
    /\ lock \in Stops \cup {Free}
    /\ pool \in {"open", "closing", "closed"}

LEMMA OwnTypeInit == Init => OwnTypeOK
BY DEF Init, OwnTypeOK, AppOver, AtWork

LEMMA OwnTypeStop ==
  ASSUME OwnTypeOK, NEW s \in Stops, StopStep(s)
  PROVE  OwnTypeOK'
<1> USE DEF OwnTypeOK, AppOver, AtWork
<1>1. CASE StopIgnored(s)
  BY <1>1 DEF StopIgnored
<1>2. CASE StopBegins(s)
  BY <1>2 DEF StopBegins
<1>3. CASE AppJoined(s)
  BY <1>3 DEF AppJoined, Abort, ShutServient
<1>4. CASE AppTimeout(s)
  BY <1>4 DEF AppTimeout
<1>5. CASE AppJoinedLate(s)
  BY <1>5 DEF AppJoinedLate, ShutServient
<1>6. ASSUME AfterMonitor(s), UNCHANGED <<loop, exit_code, servient, app>> PROVE OwnTypeOK'
  BY <1>6 DEF AfterMonitor, Abort
<1>7. CASE ServientShut(s)
  BY <1>6, <1>7 DEF ServientShut
<1>8. CASE MonitorResumes(s)
  BY <1>6, <1>8 DEF MonitorResumes
<1>9. CASE PoolClosed(s)
  BY <1>9 DEF PoolClosed
<1> QED
  BY <1>1, <1>2, <1>3, <1>4, <1>5, <1>7, <1>8, <1>9 DEF StopStep

LEMMA OwnTypeNext == OwnTypeOK /\ [Next]_vars => OwnTypeOK'
<1> SUFFICES ASSUME OwnTypeOK, [Next]_vars PROVE OwnTypeOK'
  OBVIOUS
<1>1. ASSUME NEW s \in Stops, StopStep(s) PROVE OwnTypeOK'
  BY <1>1, OwnTypeStop
<1> USE DEF OwnTypeOK, AppOver, AtWork
<1>2. CASE ServientStarts \/ ServientFails
  BY <1>2 DEF ServientStarts, ServientFails
<1>3. CASE AppReturns \/ AppCancelled
  BY <1>3 DEF AppReturns, AppCancelled
<1>4. CASE AppRaises
  BY <1>4 DEF AppRaises, Stops
<1>5. ASSUME NEW s \in Signals, Signal(s) PROVE OwnTypeOK'
  BY <1>5 DEF Signal, Stops
<1>6. ASSUME UNCHANGED nodeVars PROVE OwnTypeOK'
  BY <1>6 DEF nodeVars
<1>7. UNCHANGED vars => UNCHANGED nodeVars
  BY DEF vars, nodeVars
<1> QED
  BY <1>1, <1>2, <1>3, <1>4, <1>5, <1>6, <1>7
  DEF Next, AppEnds, MonitorStart, MonitorTask, MonitorTaskFails

\* Every variable of the node and of its monitor keeps its type (app.py:120-301,
\* base.py:18-166).
THEOREM TypeCorrect == Spec => []TypeOK
<1>1. OwnTypeOK /\ P!TypeOK => TypeOK
  BY DEF OwnTypeOK, TypeOK, P!TypeOK, M!TypeOK, P!Stages, M!Stages, P!Live, M!Live,
         P!Tasks, M!Tasks
<1> QED BY <1>1, OwnTypeInit, OwnTypeNext, MonitorFacts, PTL DEF Spec

(***************************************************************************)
(* The broker and its monitor                                              *)
(***************************************************************************)

\* The monitor of the broker, with its theorems.
BP == INSTANCE NodeMonitor_proofs WITH Callers <- B!Closers, Ifaces <- {}

LEMMA NoInterfaces == System \notin {}
OBVIOUS

LEMMA BrokerStartAgrees == B!M!StartStep => BP!StartStep
BY DEF B!M!StartStep, BP!StartStep, B!M!Start, BP!Start, B!M!StartOpened, BP!StartOpened,
       B!M!StartWritten, BP!StartWritten, B!M!StartFails, BP!StartFails, B!M!Tasks, BP!Tasks

LEMMA BrokerTaskAgrees ==
  ASSUME NEW t \in B!M!Tasks, B!M!TaskStep(t) \/ B!M!TaskFails(t)
  PROVE  t \in BP!Tasks /\ (BP!TaskStep(t) \/ BP!TaskFails(t))
BY DEF B!M!Tasks, BP!Tasks, B!M!TaskStep, BP!TaskStep, B!M!TaskFails, BP!TaskFails,
       B!M!Become, BP!Become, B!M!TaskRuns, BP!TaskRuns, B!M!TaskFailed, BP!TaskFailed,
       B!M!TaskEnds, BP!TaskEnds, B!M!TaskKilled, BP!TaskKilled

LEMMA BrokerStopAgrees ==
  ASSUME NEW c \in B!Closers, B!M!StopCall(c) \/ B!M!StopResumes(c)
  PROVE  BP!StopCall(c) \/ BP!StopResumes(c)
<1>1. ASSUME NEW after, B!M!Proceed(c, after) PROVE BP!Proceed(c, after)
  BY <1>1 DEF B!M!Proceed, BP!Proceed, B!M!NextStage, BP!NextStage, B!M!Cancel, BP!Cancel,
              B!M!Cancelled, BP!Cancelled, B!M!Targets, BP!Targets, B!M!Tasks, BP!Tasks
<1>2. B!M!Raise(c) => BP!Raise(c)
  BY DEF B!M!Raise, BP!Raise
<1>3. B!M!Faulty \ B!M!Live = BP!Faulty \ BP!Live
  BY DEF B!M!Faulty, BP!Faulty, B!M!Live, BP!Live
<1> QED
  BY <1>1, <1>2, <1>3
  DEF B!M!StopCall, BP!StopCall, B!M!StopResumes, BP!StopResumes,
      B!M!SystemJoined, BP!SystemJoined, B!M!PacketJoined, BP!PacketJoined,
      B!M!RedisClosed, BP!RedisClosed

LEMMA BrokerInitAgrees == B!Init => BP!Init
BY DEF B!Init, B!M!Init, BP!Init, B!M!Tasks, BP!Tasks

\* What the loop does is a step of the monitor or leaves it alone; once it is
\* stopped it does nothing more.
LEMMA BrokerStepAgrees ==
  ASSUME [B!Next]_(B!vars)
  PROVE  /\ [BP!Next]_(BP!vars)
         /\ loop # "running" => loop' # "running" /\ stop' = stop
<1>1. UNCHANGED B!monitorVars => UNCHANGED BP!vars
  BY DEF B!monitorVars, BP!vars
<1>2. CASE \/ \E s \in Signals : B!Signal(s)
           \/ B!MosquittoExits \/ B!MosquittoFails \/ B!Terminate \/ UNCHANGED B!vars
  BY <1>1, <1>2 DEF B!Signal, B!MosquittoExits, B!MosquittoFails, B!Terminate, B!vars,
                     B!monitorVars
<1>3. CASE B!MonitorStart
  BY <1>3, BrokerStartAgrees DEF B!MonitorStart, BP!Next
<1>4. ASSUME NEW t \in B!M!Tasks, B!MonitorTask(t) \/ B!MonitorTaskFails(t)
      PROVE  loop = "running" /\ BP!Next
  BY <1>4, BrokerTaskAgrees DEF B!MonitorTask, B!MonitorTaskFails, BP!Next
<1>5. ASSUME NEW c \in B!Closers, B!CloseStep(c) PROVE loop = "running" /\ BP!Next
  BY <1>5, BrokerStopAgrees DEF B!CloseStep, B!CloseBegins, B!CloseResumes, BP!Next
<1> QED BY <1>2, <1>3, <1>4, <1>5 DEF B!Next

\* The broker starts, stops and runs its monitor as NodeMonitor says
\* (broker.py:72-97): it implements NodeMonitor.
THEOREM BrokerUsesMonitor == B!Spec => BP!Spec
BY BrokerInitAgrees, BrokerStepAgrees, PTL DEF B!Spec, BP!Spec

\* The loop is stopped only by a _close_loop whose monitor.stop() is over.
StoppedAfterMonitor ==
    loop # "running" => \E c \in B!Closers : stop[c] \in {"returned", "raised"}

LEMMA StoppedInit == B!Init => StoppedAfterMonitor
BY DEF B!Init, StoppedAfterMonitor

LEMMA StoppedNext == StoppedAfterMonitor /\ [B!Next]_(B!vars) => StoppedAfterMonitor'
<1> SUFFICES ASSUME StoppedAfterMonitor, [B!Next]_(B!vars) PROVE StoppedAfterMonitor'
  OBVIOUS
<1>1. CASE loop # "running"
  BY <1>1, BrokerStepAgrees DEF StoppedAfterMonitor
<1>2. CASE loop = "running" /\ loop' # "running"
  <2>1. PICK c \in B!Closers : B!AfterStop(c)
    BY <1>2
    DEF B!Next, B!Signal, B!MosquittoExits, B!MosquittoFails, B!Terminate, B!CloseStep,
        B!CloseBegins, B!CloseResumes, B!MonitorStart, B!MonitorTask, B!MonitorTaskFails, B!vars,
        B!brokerVars
  <2> QED BY <1>2, <2>1 DEF B!AfterStop, StoppedAfterMonitor
<1>3. CASE loop' = "running"
  BY <1>3 DEF StoppedAfterMonitor
<1> QED BY <1>1, <1>2, <1>3

\* However many _close_loop calls overlap, the loop is stopped over a clean monitor,
\* unless that was starting or a task of it had failed (broker.py:72-81).
THEOREM LoopStopsClean == B!Spec => []CleanClose
<1>1. StoppedAfterMonitor /\ BP!ReturnsClean /\ BP!RaisedTells => CleanClose
  BY DEF StoppedAfterMonitor, BP!ReturnsClean, BP!RaisedTells, BP!Fault, CleanClose, B!CleanClose,
         B!MonitorFault, B!M!Tasks, BP!Tasks, B!M!Faulty, BP!Faulty
<1>2. BP!Spec => []BP!ReturnsClean /\ []BP!RaisedTells
  BY NoInterfaces, BP!ReturnedIsClean, BP!RaisedIsFault
<1> QED BY <1>1, <1>2, BrokerUsesMonitor, StoppedInit, StoppedNext, PTL DEF B!Spec

(***************************************************************************)
(* The broker: types                                                       *)
(***************************************************************************)

BrokerTypes ==
    /\ loop \in {"running", "stopped", "over"}
    /\ mosquitto \in {"running", "exited", "failed", "terminated"}
    /\ mosquitto = "terminated" => loop = "over"
    /\ closer \in [B!Closers -> {"idle", "scheduled", "stopping", "finished"}]

LEMMA BrokerTypesNext == BrokerTypes /\ [B!Next]_(B!vars) => BrokerTypes'
<1> SUFFICES ASSUME BrokerTypes, [B!Next]_(B!vars) PROVE BrokerTypes'
  OBVIOUS
<1> USE DEF BrokerTypes
<1>1. ASSUME NEW s \in Signals, B!Signal(s) PROVE BrokerTypes'
  BY <1>1 DEF B!Signal, B!Closers
<1>2. CASE B!MosquittoExits
  BY <1>2 DEF B!MosquittoExits
<1>3. CASE B!MosquittoFails
  BY <1>3 DEF B!MosquittoFails, B!Closers
<1>4. CASE B!Terminate
  BY <1>4 DEF B!Terminate
<1>5. ASSUME NEW c \in B!Closers, B!AfterStop(c), loop = "running", UNCHANGED mosquitto
      PROVE  BrokerTypes'
  BY <1>5 DEF B!AfterStop
<1>6. ASSUME NEW c \in B!Closers, B!CloseStep(c) PROVE BrokerTypes'
  BY <1>5, <1>6 DEF B!CloseStep, B!CloseBegins, B!CloseResumes
<1>7. ASSUME UNCHANGED B!brokerVars PROVE BrokerTypes'
  BY <1>7 DEF B!brokerVars
<1>8. UNCHANGED B!vars => UNCHANGED B!brokerVars
  BY DEF B!vars, B!brokerVars
<1> QED
  BY <1>1, <1>2, <1>3, <1>4, <1>6, <1>7, <1>8
  DEF B!Next, B!MonitorStart, B!MonitorTask, B!MonitorTaskFails

\* Every variable of the broker and of its monitor keeps its type, and mosquitto is
\* terminated at the end only (broker.py:20-136).
THEOREM BrokerTypeCorrect == B!Spec => []B!TypeOK
<1>1. BrokerTypes /\ BP!TypeOK => B!TypeOK
  BY DEF BrokerTypes, B!TypeOK, BP!TypeOK, B!M!TypeOK, BP!Stages, B!M!Stages, BP!Live, B!M!Live,
         BP!Tasks, B!M!Tasks
<1>2. B!Init => BrokerTypes
  BY DEF B!Init, BrokerTypes
<1>3. BP!Spec => []BP!TypeOK
  BY NoInterfaces, BP!TypeCorrect
<1> QED BY <1>1, <1>2, <1>3, BrokerUsesMonitor, BrokerTypesNext, PTL DEF B!Spec
==============================================================================

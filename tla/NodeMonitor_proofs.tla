-------------------------- MODULE NodeMonitor_proofs --------------------------
(***************************************************************************)
(* Theorems about NodeMonitor, for any packet interfaces and any number of *)
(* concurrent calls of stop().                                             *)
(***************************************************************************)
EXTENDS NodeMonitor, TLAPS

\* Before start() has created the tasks there is nothing to stop, and without an
\* overlap nobody has called stop().
Starting ==
    /\ start \in {"idle", "opening", "writing"} =>
          /\ task = [t \in Tasks |-> "none"]
          /\ ~task_system /\ ~tasks_packet
          /\ \A c \in Callers : stop[c] = "idle"
    /\ start \in {"idle", "opening"} => redis = "none"
    /\ start = "writing" => redis = "open"

\* An attribute is reset only when its tasks are over.
Tracked ==
    /\ ~task_system => task[System] \in {"none", "ended"}
    /\ ~tasks_packet => \A t \in Ifaces : task[t] \in {"none", "ended"}

\* What a call of stop() has been through stays stopped.
Passed ==
    \A c \in Callers :
        /\ stop[c] \in {"packet", "redis", "returned"} => ~task_system
        /\ stop[c] \in {"redis", "returned"} => ~tasks_packet
        /\ stop[c] = "returned" => redis = "none"

\* The pool is closed last.
ClosedLast ==
    start \in {"done", "failed"} /\ redis # "open" => ~task_system /\ ~tasks_packet

IInv == TypeOK /\ (~overlap => Starting /\ Tracked /\ Passed /\ ClosedLast)

LEMMA InitInv == Init => IInv
BY TasksAssumption
   DEF Init, IInv, TypeOK, Starting, Tracked, Passed, ClosedLast, Tasks, Stages, Live

LEMMA StartInv == IInv /\ StartStep => IInv'
<1> USE TasksAssumption
        DEF IInv, TypeOK, Starting, Tracked, Passed, ClosedLast, Tasks, Stages, Live
<1>1. IInv /\ Start => IInv'
  BY DEF Start
<1>2. IInv /\ StartOpened => IInv'
  BY DEF StartOpened
<1>3. ASSUME IInv, StartWritten PROVE IInv'
  <2>1. task' \in [Tasks -> Live \cup {"none", "ended", "failed", "killed"}]
    BY <1>3 DEF StartWritten
  <2>2. ~overlap => redis = "open" /\ redis' = "open"
    BY <1>3 DEF StartWritten
  <2>3. tasks_packet' \in BOOLEAN /\ (~tasks_packet' => Ifaces = {})
    BY <1>3 DEF StartWritten
  <2> QED BY <1>3, <2>1, <2>2, <2>3 DEF StartWritten
<1>4. IInv /\ StartFails => IInv'
  BY DEF StartFails
<1> QED BY <1>1, <1>2, <1>3, <1>4 DEF StartStep

LEMMA TaskInv ==
  ASSUME IInv, NEW t \in Tasks, TaskStep(t) \/ TaskFails(t)
  PROVE  IInv'
<1>1. PICK from \in SUBSET Live, to \in Live \cup {"ended", "failed", "killed"} :
         Become(t, from, to)
  BY DEF TaskStep, TaskFails, TaskRuns, TaskFailed, TaskEnds, TaskKilled, Live
<1> QED
  BY <1>1, TasksAssumption
  DEF Become, IInv, TypeOK, Starting, Tracked, Passed, ClosedLast, Tasks, Stages, Live

\* A cancelled task is never one that was over.
LEMMA CancelType ==
  ASSUME TypeOK, NEW targets
  PROVE  /\ Cancel(targets) \in [Tasks -> Live \cup {"none", "ended", "failed", "killed"}]
         /\ \A t \in Tasks : task[t] \in {"none", "ended"} => Cancel(targets)[t] = task[t]
BY DEF Cancel, Cancelled, TypeOK, Tasks, Live

\* What stop() has left behind when it suspends in a stage, or returns.
LEMMA StageFacts ==
  ASSUME NEW after \in {"call"} \cup Stages
  PROVE  LET stage == NextStage(after)
             skipsSystem == after = "call" => ~task_system
             skipsPacket == after \in {"call", "system"} => ~tasks_packet
         IN /\ stage \in Stages \cup {"returned"}
            /\ stage = "system" => after = "call"
            /\ stage = "packet" => after \in {"call", "system"} /\ skipsSystem
            /\ stage = "redis" => redis # "none" /\ skipsSystem /\ skipsPacket
            /\ stage = "returned" =>
                  (after = "redis" \/ redis = "none") /\ skipsSystem /\ skipsPacket
BY DEF NextStage, Stages

LEMMA ProceedType ==
  ASSUME TypeOK, NEW c \in Callers, NEW after \in {"call"} \cup Stages, Proceed(c, after)
  PROVE  /\ stop' \in [Callers -> Stages \cup {"idle", "returned", "raised"}]
         /\ redis' \in {"none", "open", "closing"}
         /\ task' \in [Tasks -> Live \cup {"none", "ended", "failed", "killed"}]
         /\ task_system' \in BOOLEAN
         /\ tasks_packet' \in BOOLEAN
<1> DEFINE stage == NextStage(after)
<1>1. stage \in Stages \cup {"returned"}
  BY StageFacts
<1>2. /\ stop' = [stop EXCEPT ![c] = stage]
      /\ task' = Cancel(Targets(stage))
      /\ task_system' \in BOOLEAN /\ tasks_packet' \in BOOLEAN
      /\ redis' \in {"none", "closing", redis}
  BY DEF Proceed
<1>3. task' \in [Tasks -> Live \cup {"none", "ended", "failed", "killed"}]
  BY <1>2, CancelType
<1> HIDE DEF stage
<1> QED BY <1>1, <1>2, <1>3 DEF TypeOK

LEMMA ProceedInv ==
  ASSUME TypeOK, Tracked, Passed, ClosedLast, start \in {"done", "failed"},
         NEW c \in Callers, NEW after \in {"call"} \cup Stages, Proceed(c, after),
         after = "system" => task[System] = "ended",
         after = "packet" => \A t \in Ifaces : task[t] = "ended",
         after # "call" => stop[c] = after
  PROVE  Tracked' /\ Passed' /\ (redis' # "open" => ~task_system' /\ ~tasks_packet')
<1> DEFINE stage == NextStage(after)
<1>1. /\ stage \in Stages \cup {"returned"}
      /\ stage = "system" => after = "call"
      /\ stage = "packet" => after \in {"call", "system"} /\ (after = "call" => ~task_system)
      /\ stage \in {"redis", "returned"} =>
            /\ after = "call" => ~task_system
            /\ after \in {"call", "system"} => ~tasks_packet
      /\ stage = "returned" => after = "redis" \/ redis = "none"
  BY StageFacts
<1>2. /\ stop' = [stop EXCEPT ![c] = stage]
      /\ task' = Cancel(Targets(stage))
      /\ task_system' = (task_system /\ after # "system" /\ stage # "returned")
      /\ tasks_packet' = (tasks_packet /\ after # "packet" /\ stage # "returned")
  BY DEF Proceed
<1>3. /\ after = "redis" => redis' = "none"
      /\ after # "redis" /\ stage = "redis" => redis' = "closing"
      /\ after # "redis" /\ stage # "redis" => redis' = redis
  BY DEF Proceed
<1>4. \A t \in Tasks : task[t] \in {"none", "ended"} => task'[t] = task[t]
  BY <1>2, CancelType
<1>5. \A d \in Callers : stop'[d] = IF d = c THEN stage ELSE stop[d]
  BY <1>2 DEF TypeOK
<1> HIDE DEF stage
<1>6. /\ after \in {"packet", "redis"} => ~task_system
      /\ after = "redis" => ~tasks_packet
  BY DEF Passed
<1>7. Tracked'
  <2>1. ~task_system' => task'[System] \in {"none", "ended"}
    BY <1>1, <1>2, <1>4, <1>6 DEF Tracked, Tasks, Stages, TypeOK
  <2>2. ~tasks_packet' => \A t \in Ifaces : task'[t] \in {"none", "ended"}
    BY <1>1, <1>2, <1>4, <1>6 DEF Tracked, Tasks, Stages, TypeOK
  <2> QED BY <2>1, <2>2 DEF Tracked
<1>8. Passed'
  <2> SUFFICES ASSUME NEW d \in Callers
               PROVE  /\ stop'[d] \in {"packet", "redis", "returned"} => ~task_system'
                      /\ stop'[d] \in {"redis", "returned"} => ~tasks_packet'
                      /\ stop'[d] = "returned" => redis' = "none"
    BY DEF Passed
  <2>1. CASE d = c
    BY <2>1, <1>1, <1>2, <1>3, <1>5, <1>6 DEF Stages, TypeOK
  <2>2. CASE d # c
    <3>1. redis = "none" => redis' = "none"
      BY <1>3, StageFacts DEF stage
    <3> QED BY <2>2, <3>1, <1>2, <1>5 DEF Passed, TypeOK
  <2> QED BY <2>1, <2>2
<1>9. redis' # "open" => ~task_system' /\ ~tasks_packet'
  BY <1>1, <1>2, <1>3, <1>6 DEF ClosedLast, Stages, TypeOK
<1> QED BY <1>7, <1>8, <1>9

LEMMA StopInv ==
  ASSUME IInv, NEW c \in Callers, StopCall(c) \/ StopResumes(c)
  PROVE  IInv'
<1>1. \/ Raise(c)
      \/ \E after \in {"call"} \cup Stages :
            /\ Proceed(c, after)
            /\ after = "system" => task[System] = "ended"
            /\ after = "packet" => \A t \in Ifaces : task[t] = "ended"
            /\ after # "call" => stop[c] = after
  BY DEF StopCall, StopResumes, SystemJoined, PacketJoined, RedisClosed, Stages
<1>2. /\ start' = start
      /\ overlap' \in BOOLEAN
      /\ ~overlap' => ~overlap
      /\ ~overlap' => start \in {"done", "failed"}
  BY DEF IInv, TypeOK, Starting, StopCall, StopResumes, SystemJoined, PacketJoined,
         RedisClosed, Stages
<1>3. CASE Raise(c)
  BY <1>2, <1>3
  DEF Raise, IInv, TypeOK, Starting, Tracked, Passed, ClosedLast
<1>4. ASSUME NEW after \in {"call"} \cup Stages,
             Proceed(c, after),
             after = "system" => task[System] = "ended",
             after = "packet" => \A t \in Ifaces : task[t] = "ended",
             after # "call" => stop[c] = after
      PROVE  IInv'
  <2>1. TypeOK'
    BY <1>2, <1>4, ProceedType DEF IInv, TypeOK
  <2>2. ASSUME ~overlap' PROVE (Starting /\ Tracked /\ Passed /\ ClosedLast)'
    <3>1. Tracked' /\ Passed' /\ (redis' # "open" => ~task_system' /\ ~tasks_packet')
      BY <1>2, <1>4, <2>2, ProceedInv DEF IInv
    <3> QED BY <1>2, <2>2, <3>1 DEF Starting, ClosedLast
  <2> QED BY <2>1, <2>2 DEF IInv
<1> QED BY <1>1, <1>3, <1>4

LEMMA Invariance == Spec => []IInv
<1>1. IInv /\ UNCHANGED vars => IInv'
  BY DEF IInv, TypeOK, Starting, Tracked, Passed, ClosedLast, vars
<1>2. IInv /\ [Next]_vars => IInv'
  BY <1>1, StartInv, TaskInv, StopInv DEF Next
<1> QED BY <1>2, InitInv, PTL DEF Spec

\* Every variable stays in its set (base.py:18-166).
THEOREM TypeCorrect == Spec => []TypeOK
<1>1. IInv => TypeOK
  BY DEF IInv
<1> QED BY <1>1, Invariance, PTL

\* However many calls of stop() interleave, the pool is open as long as a task may
\* use it (base.py:158-163).
THEOREM TasksHaveRedis == Spec => []RedisOutlivesTasks
<1>1. IInv => RedisOutlivesTasks
  BY DEF IInv, TypeOK, Starting, Tracked, ClosedLast, RedisOutlivesTasks, Live, Tasks
<1> QED BY <1>1, Invariance, PTL

\* A stop() that returns has stopped everything, and none of it had failed
\* (base.py:112-126, 158-166).
THEOREM ReturnedIsClean == Spec => []ReturnsClean
<1>1. IInv => ReturnsClean
  BY DEF IInv, TypeOK, Tracked, Passed, ReturnsClean, Tasks
<1> QED BY <1>1, Invariance, PTL

(***************************************************************************)
(* Where the exception of a stop() comes from                              *)
(***************************************************************************)

Fault == \E t \in Tasks : task[t] \in Faulty

RaisedTells == \A c \in Callers : stop[c] = "raised" => Fault

\* No task exists before start() is done, whether or not stop() was called.
NoTaskYet ==
    start \in {"idle", "opening", "writing"} => \A t \in Tasks : task[t] = "none"

FaultInv == TypeOK /\ NoTaskYet /\ RaisedTells

\* cancel() neither creates a task nor mends one.
LEMMA CancelKeeps ==
  ASSUME TypeOK, NEW targets
  PROVE  \A t \in Tasks : /\ task[t] = "none" => Cancel(targets)[t] = "none"
                          /\ task[t] \in Faulty => Cancel(targets)[t] \in Faulty
BY DEF Cancel, Cancelled, TypeOK, Faulty

LEMMA FaultInit == Init => NoTaskYet /\ RaisedTells
BY DEF Init, NoTaskYet, RaisedTells

\* A fault is for good.
LEMMA FaultStays == TypeOK /\ NoTaskYet /\ Fault /\ [Next]_vars => Fault'
<1> SUFFICES ASSUME TypeOK, NoTaskYet, [Next]_vars, NEW u \in Tasks, task[u] \in Faulty
             PROVE  task'[u] \in Faulty
  BY DEF Fault
<1>1. CASE StartStep \/ UNCHANGED vars
  BY <1>1 DEF StartStep, Start, StartOpened, StartWritten, StartFails, NoTaskYet, Faulty, vars
<1>2. ASSUME NEW t \in Tasks, TaskStep(t) \/ TaskFails(t) PROVE task'[u] \in Faulty
  BY <1>2 DEF TaskStep, TaskFails, TaskRuns, TaskFailed, TaskEnds, TaskKilled, Become,
              TypeOK, Faulty
<1>3. ASSUME NEW c \in Callers, StopCall(c) \/ StopResumes(c) PROVE task'[u] \in Faulty
  <2>1. task' = task \/ \E targets : task' = Cancel(targets)
    BY <1>3 DEF StopCall, StopResumes, SystemJoined, PacketJoined, RedisClosed, Proceed, Raise
  <2> QED BY <2>1, CancelKeeps
<1> QED BY <1>1, <1>2, <1>3 DEF Next

LEMMA FaultNext == FaultInv /\ TypeOK' /\ [Next]_vars => FaultInv'
<1> SUFFICES ASSUME FaultInv, TypeOK', [Next]_vars PROVE NoTaskYet' /\ RaisedTells'
  BY DEF FaultInv
<1> USE DEF FaultInv
<1>0. Fault => Fault'
  BY FaultStays
<1>1. CASE StartStep
  BY <1>0, <1>1
  DEF StartStep, Start, StartOpened, StartWritten, StartFails, NoTaskYet, RaisedTells
<1>2. ASSUME NEW t \in Tasks, TaskStep(t) \/ TaskFails(t) PROVE NoTaskYet' /\ RaisedTells'
  <2>1. PICK from \in SUBSET Live, to \in Live \cup {"ended", "failed", "killed"} :
           Become(t, from, to)
    BY <1>2 DEF TaskStep, TaskFails, TaskRuns, TaskFailed, TaskEnds, TaskKilled, Live
  <2> QED BY <1>0, <2>1 DEF Become, NoTaskYet, RaisedTells, Live
<1>3. ASSUME NEW c \in Callers, StopCall(c) \/ StopResumes(c) PROVE NoTaskYet' /\ RaisedTells'
  <2>1. UNCHANGED start
    BY <1>3 DEF StopCall, StopResumes, SystemJoined, PacketJoined, RedisClosed
  <2>2. CASE Raise(c) /\ Fault
    BY <1>0, <2>1, <2>2 DEF Raise, NoTaskYet, RaisedTells
  <2>3. ASSUME NEW after \in {"call"} \cup Stages, Proceed(c, after)
        PROVE  NoTaskYet' /\ RaisedTells'
    <3>1. PICK targets : task' = Cancel(targets)
      BY <2>3 DEF Proceed
    <3>2. \A d \in Callers : stop'[d] = "raised" => stop[d] = "raised"
      BY <2>3, StageFacts DEF Proceed, TypeOK, Stages
    <3> QED BY <1>0, <2>1, <3>1, <3>2, CancelKeeps DEF NoTaskYet, RaisedTells
  <2>4. (Raise(c) /\ Fault) \/ \E after \in {"call"} \cup Stages : Proceed(c, after)
    BY <1>3 DEF StopCall, StopResumes, SystemJoined, PacketJoined, RedisClosed,
                Stages, Fault, Tasks
  <2> QED BY <2>2, <2>3, <2>4
<1>4. CASE UNCHANGED vars
  BY <1>0, <1>4 DEF vars, NoTaskYet, RaisedTells
<1> QED BY <1>1, <1>2, <1>3, <1>4 DEF Next

LEMMA FaultInvariance == Spec => []FaultInv
<1>1. Init => FaultInv
  BY FaultInit, InitInv DEF IInv, FaultInv
<1> QED BY <1>1, FaultNext, TypeCorrect, PTL DEF Spec

\* A stop() raises only what one of the tasks raised (base.py:117, 125).
THEOREM RaisedIsFault == Spec => []RaisedTells
<1>1. FaultInv => RaisedTells
  BY DEF FaultInv
<1> QED BY <1>1, FaultInvariance, PTL

(***************************************************************************)
(* Who interrupts the clean-up of a packet task                            *)
(***************************************************************************)

\* Unless a task failed, a packet task is cancelled by one stop(), which waits for it.
CancelledOnce ==
    ~Fault => \A t \in Ifaces :
        /\ task[t] # "recancelled"
        /\ task[t] = "cancelling" => \E c \in Callers : stop[c] = "packet"

LEMMA OnceInit == Init => CancelledOnce
BY DEF Init, CancelledOnce, Tasks

LEMMA OnceTask ==
  ASSUME FaultInv, Fault => Fault', CancelledOnce,
         StartStep \/ \E t \in Tasks : TaskStep(t) \/ TaskFails(t)
  PROVE  CancelledOnce'
<1>1. CASE StartStep
  BY <1>1 DEF StartStep, Start, StartOpened, StartWritten, StartFails, CancelledOnce, Fault, Tasks
<1>2. ASSUME NEW t \in Tasks, TaskStep(t) \/ TaskFails(t) PROVE CancelledOnce'
  <2>1. PICK from \in SUBSET Live, to \in {"running", "ended", "failed", "killed", "failing"} :
           Become(t, from, to)
    BY <1>2 DEF TaskStep, TaskFails, TaskRuns, TaskFailed, TaskEnds, TaskKilled, Live
  <2>2. \A u \in Tasks : task'[u] \in {"cancelling", "recancelled"} => task'[u] = task[u]
    BY <2>1 DEF Become, FaultInv, TypeOK
  <2> QED BY <2>1, <2>2 DEF Become, CancelledOnce, Tasks
<1> QED BY <1>1, <1>2

\* As long as the calls of stop() take turns, none cancels what another is waiting
\* for (base.py:120-126).
LEMMA OnceStop ==
  ASSUME FaultInv, Fault => Fault', CancelledOnce,
         NEW c \in Callers, StopCall(c) \/ StopResumes(c),
         \A d \in Callers \ {c} : stop[d] \notin Stages
  PROVE  CancelledOnce'
<1> SUFFICES ASSUME ~Fault', NEW t \in Ifaces
             PROVE  /\ task'[t] # "recancelled"
                    /\ task'[t] = "cancelling" => \E d \in Callers : stop'[d] = "packet"
  BY DEF CancelledOnce
<1>1. /\ ~Fault
      /\ task[t] # "recancelled"
      /\ task[t] = "cancelling" => stop[c] = "packet"
  BY DEF CancelledOnce, Stages
<1>2. t \in Tasks /\ DOMAIN stop = Callers
  BY DEF Tasks, FaultInv, TypeOK
<1>3. \/ Raise(c) /\ Fault
      \/ Proceed(c, "call") /\ stop[c] = "idle"
      \/ Proceed(c, "system") /\ stop[c] = "system"
      \/ Proceed(c, "packet") /\ task[t] = "ended"
      \/ Proceed(c, "redis") /\ stop[c] = "redis"
  BY <1>2 DEF StopCall, StopResumes, SystemJoined, PacketJoined, RedisClosed, Fault, Tasks
<1>4. PICK after \in {"call"} \cup Stages :
         Proceed(c, after) /\ task[t] # "cancelling"
  BY <1>1, <1>3 DEF Stages
<1>5. /\ stop'[c] = NextStage(after)
      /\ task' = Cancel(Targets(NextStage(after)))
  BY <1>2, <1>4 DEF Proceed
<1>6. CASE NextStage(after) = "packet"
  BY <1>1, <1>2, <1>4, <1>5, <1>6 DEF Cancel, Cancelled
<1>7. CASE NextStage(after) # "packet"
  <2>1. t \notin Targets(NextStage(after))
    BY <1>7, TasksAssumption DEF Targets
  <2> QED BY <1>1, <1>2, <1>4, <1>5, <2>1 DEF Cancel
<1> QED BY <1>6, <1>7

\* Whatever the calls do: who has cancelled a packet task waits for it, unless a task
\* failed.
TwoInv ==
    ~Fault => \A t \in Ifaces :
        /\ task[t] = "cancelling" => \E c \in Callers : stop[c] = "packet"
        /\ task[t] = "recancelled" =>
              \E c, d \in Callers : c # d /\ stop[c] = "packet" /\ stop[d] = "packet"

LEMMA TwoTask ==
  ASSUME FaultInv, Fault => Fault', TwoInv,
         StartStep \/ \E t \in Tasks : TaskStep(t) \/ TaskFails(t)
  PROVE  TwoInv'
<1>1. CASE StartStep
  BY <1>1 DEF StartStep, Start, StartOpened, StartWritten, StartFails, TwoInv, Fault, Tasks
<1>2. ASSUME NEW t \in Tasks, TaskStep(t) \/ TaskFails(t) PROVE TwoInv'
  <2>1. PICK from \in SUBSET Live, to \in {"running", "ended", "failed", "killed", "failing"} :
           Become(t, from, to)
    BY <1>2 DEF TaskStep, TaskFails, TaskRuns, TaskFailed, TaskEnds, TaskKilled, Live
  <2>2. \A u \in Tasks : task'[u] \in {"cancelling", "recancelled"} => task'[u] = task[u]
    BY <2>1 DEF Become, FaultInv, TypeOK
  <2> QED BY <2>1, <2>2 DEF Become, TwoInv, Tasks
<1> QED BY <1>1, <1>2

\* A call that cancels a packet task goes on to wait for it, and one that has waited
\* goes on when no task is left to wait for.
LEMMA TwoStop ==
  ASSUME FaultInv, Fault => Fault', TwoInv,
         NEW c \in Callers, StopCall(c) \/ StopResumes(c)
  PROVE  TwoInv'
<1> SUFFICES ASSUME ~Fault', NEW t \in Ifaces
             PROVE  /\ task'[t] = "cancelling" => \E d \in Callers : stop'[d] = "packet"
                    /\ task'[t] = "recancelled" =>
                          \E d, e \in Callers : d # e /\ stop'[d] = "packet" /\ stop'[e] = "packet"
  BY DEF TwoInv
<1>1. /\ ~Fault
      /\ task[t] = "cancelling" => \E d \in Callers : stop[d] = "packet"
      /\ task[t] = "recancelled" =>
            \E d, e \in Callers : d # e /\ stop[d] = "packet" /\ stop[e] = "packet"
  BY DEF TwoInv
<1>2. t \in Tasks /\ DOMAIN stop = Callers /\ task[t] \in Live \cup {"none", "ended", "failed", "killed"}
  BY DEF Tasks, FaultInv, TypeOK
<1>3. \/ Proceed(c, "call") /\ stop[c] = "idle"
      \/ Proceed(c, "system") /\ stop[c] = "system"
      \/ Proceed(c, "packet") /\ task[t] = "ended"
      \/ Proceed(c, "redis") /\ stop[c] = "redis"
  BY <1>1 DEF StopCall, StopResumes, SystemJoined, PacketJoined, RedisClosed, Raise, Fault, Tasks
<1>4. PICK after \in {"call"} \cup Stages :
         /\ Proceed(c, after)
         /\ stop[c] # "packet" \/ task[t] = "ended"
  BY <1>3 DEF Stages
<1>5. /\ \A d \in Callers : stop'[d] = IF d = c THEN NextStage(after) ELSE stop[d]
      /\ task'[t] = IF t \in Targets(NextStage(after)) THEN Cancelled(t) ELSE task[t]
  BY <1>2, <1>4 DEF Proceed, Cancel
<1>6. CASE task[t] = "ended"
  BY <1>5, <1>6 DEF Cancelled
<1>7. CASE task[t] # "ended" /\ NextStage(after) = "packet"
  <2>1. stop[c] # "packet" /\ stop'[c] = "packet"
    BY <1>4, <1>5, <1>7
  <2>2. \A d \in Callers : stop[d] = "packet" => d # c /\ stop'[d] = "packet"
    BY <1>5, <2>1
  <2>3. task'[t] = "recancelled" => task[t] \in {"cancelling", "recancelled"}
    BY <1>2, <1>5 DEF Cancelled
  <2> QED BY <1>1, <2>1, <2>2, <2>3
<1>8. CASE task[t] # "ended" /\ NextStage(after) # "packet"
  <2>1. t \notin Targets(NextStage(after))
    BY <1>8, TasksAssumption DEF Targets
  <2>2. \A d \in Callers : stop[d] = "packet" => stop'[d] = "packet"
    BY <1>4, <1>5, <1>8
  <2> QED BY <1>1, <1>5, <2>1, <2>2
<1> QED BY <1>6, <1>7, <1>8

\* Only two calls of stop() that wait for the packet tasks together, or the failure of
\* a task, interrupt a clean-up (base.py:120-126).
THEOREM InterruptedByTwo == Spec => []SecondCancelNeedsOverlap
<1>1. Init => TwoInv
  BY DEF Init, TwoInv, Tasks
<1>2. FaultInv /\ TwoInv /\ [Next]_vars => TwoInv'
  <2> SUFFICES ASSUME FaultInv, TwoInv, [Next]_vars PROVE TwoInv'
    OBVIOUS
  <2>1. Fault => Fault'
    BY FaultStays DEF FaultInv
  <2>2. CASE UNCHANGED vars
    BY <2>2 DEF vars, TwoInv, Fault
  <2> QED BY <2>1, <2>2, TwoTask, TwoStop DEF Next
<1>3. TwoInv => SecondCancelNeedsOverlap
  BY DEF TwoInv, SecondCancelNeedsOverlap, Fault
<1> QED BY <1>1, <1>2, <1>3, FaultInvariance, PTL DEF Spec
=============================================================================

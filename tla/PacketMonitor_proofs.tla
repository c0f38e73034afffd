------------------------- MODULE PacketMonitor_proofs -------------------------
(***************************************************************************)
(* Theorems about PacketMonitor, for any queue size and any bounds on the  *)
(* packets and the cancellations.                                          *)
(***************************************************************************)
EXTENDS PacketMonitor, FiniteSetTheorems, TLAPS

USE SizesAssumption

BatchOK ==
    /\ items \in Seq(Nat)
    /\ Len(items) <= QueueSize + 1

\* Where the task is, what it was told, and how that is linked: a clean-up is due
\* to an exception or to a cancellation, and what reaches the task in a clean-up
\* begun by a cancellation is a second one.
ControlOK ==
    /\ pc \in {"created", "drain", "zadd", "sleep", "stopwait", "termwait", "over"}
    /\ failing \in BOOLEAN
    /\ cancels \in Nat
    /\ pending \in BOOLEAN
    /\ outcome \in {"none", "ended", "failed", "killed"}
    /\ outcome = "none" <=> pc # "over"
    /\ pc = "created" => cancels = 0 /\ ~pending /\ proc = "none"
    /\ failing => pc \in {"stopwait", "termwait", "over"}
    /\ pending => cancels > 0 /\ pc \notin {"drain", "over"}
    /\ pc \in {"drain", "zadd", "sleep"} /\ ~pending => cancels = 0
    /\ pc \in {"stopwait", "termwait"} /\ ~failing => cancels > 0 /\ (pending => cancels > 1)
    /\ pc \notin {"created", "over"} => proc \in {"capturing", "exited"}

IInv ==
    /\ BatchOK
    /\ queue \in Seq(Nat)
    /\ captured \in Nat
    /\ ControlOK
    /\ CaptureStopped

LEMMA EmptyBatch == <<>> \in Seq(Nat) /\ Len(<<>>) <= QueueSize + 1
OBVIOUS

LEMMA InitInv == Init => IInv
<1> SUFFICES ASSUME Init PROVE IInv
  OBVIOUS
<1>1. BatchOK /\ queue \in Seq(Nat)
  BY EmptyBatch DEF Init, BatchOK
<1>2. captured \in Nat /\ ControlOK /\ CaptureStopped
  BY DEF Init, ControlOK, CaptureStopped
<1> QED BY <1>1, <1>2 DEF IInv

\* The process touches nothing of the task.
LEMMA ProcessInv ==
  ASSUME IInv, Capture \/ CaptureEnds \/ CaptureKilled
  PROVE  IInv'
<1> USE DEF IInv, BatchOK, ControlOK, CaptureStopped, taskVars
<1>1. CASE Capture
  <2>1. captured' \in Nat
    BY <1>1 DEF Capture
  <2>2. queue' = queue \/ queue' = Append(queue, captured')
    BY <1>1 DEF Capture
  <2>3. queue' \in Seq(Nat)
    <3>1. captured' \in Nat => Append(queue, captured') \in Seq(Nat)
      OBVIOUS
    <3> QED BY <2>1, <2>2, <3>1
  <2>4. pc \notin {"created", "over"} => proc' \in {"capturing", "exited"}
    BY <1>1 DEF Capture
  <2> QED BY <1>1, <2>1, <2>3, <2>4 DEF Capture
<1>2. CASE CaptureEnds \/ CaptureKilled
  BY <1>2 DEF CaptureKilled, CaptureEnds
<1> QED BY <1>1, <1>2

LEMMA TaskInv ==
  ASSUME IInv, TaskStep \/ Cancel
  PROVE  IInv'
<1> USE DEF IInv, BatchOK, ControlOK, CaptureStopped, procVars
<1>1. CASE Spawn
  BY <1>1 DEF Spawn
<1>0. CASE SpawnFails
  BY <1>0 DEF SpawnFails, Over
<1>2. CASE DrainOne
  <2>1. Head(queue) \in Nat /\ Tail(queue) \in Seq(Nat)
    BY <1>2 DEF DrainOne
  <2>2. items' \in Seq(Nat) /\ Len(items') = Len(items) + 1
    BY <1>2, <2>1 DEF DrainOne
  <2> QED BY <1>2, <2>1, <2>2 DEF DrainOne
<1>3. CASE DrainDone
  BY <1>3 DEF DrainDone, HealthCheck, Finally, Over
<1>4. CASE CallbackReturns
  BY EmptyBatch, <1>4 DEF CallbackReturns, HealthCheck, Finally, Over
<1>5. CASE CallbackFails
  BY EmptyBatch, <1>5 DEF CallbackFails, Finally, Over
<1>6. CASE Wake
  BY <1>6 DEF Wake
<1>7. CASE CancelledInLoop
  BY EmptyBatch, <1>7 DEF CancelledInLoop, Finally, Over
<1>8. CASE CancelledInStopWait
  BY <1>8 DEF CancelledInStopWait, Over
<1>9. CASE StopWaitExit
  BY <1>9 DEF StopWaitExit, Over, How
<1>10. CASE StopTimeout
  BY <1>10 DEF StopTimeout
<1>11. CASE TermWaitOver
  BY <1>11 DEF TermWaitOver, Over, How
<1>12. CASE Cancel
  <2>1. BatchOK' /\ queue' \in Seq(Nat) /\ captured' \in Nat
    BY <1>12 DEF Cancel
  <2>2. CASE pc = "created"
    BY <1>12, <2>1, <2>2 DEF Cancel, Over
  <2>3. CASE pc # "created"
    <3>1. cancels' \in Nat /\ cancels' > 0 /\ cancels' = cancels + 1
      BY <1>12 DEF Cancel
    <3> QED BY <1>12, <2>1, <2>3, <3>1 DEF Cancel
  <2> QED BY <2>2, <2>3
<1> HIDE DEF IInv, BatchOK, ControlOK, CaptureStopped, procVars
<1> QED
  BY <1>0, <1>1, <1>2, <1>3, <1>4, <1>5, <1>6, <1>7, <1>8, <1>9, <1>10, <1>11, <1>12
  DEF TaskStep

LEMMA Invariance == Spec => []IInv
<1>1. IInv /\ UNCHANGED vars => IInv'
  BY DEF IInv, BatchOK, ControlOK, CaptureStopped, vars
<1>2. IInv /\ [Next]_vars => IInv'
  BY <1>1, ProcessInv, TaskInv DEF Next
<1> QED BY <1>2, InitInv, PTL DEF Spec

\* However fast the process appends, a batch holds one item more than the queue
\* at most (packet.py:119-124).
THEOREM BatchIsBounded == Spec => []BatchBound
<1>1. IInv => BatchBound
  BY DEF IInv, BatchOK, BatchBound
<1> QED BY <1>1, Invariance, PTL

\* A task that ended or failed left no process that was not killed
\* (packet.py:162-186, 242-244).
THEOREM NoProcessLeft == Spec => []CaptureStopped
<1>1. IInv => CaptureStopped
  BY DEF IInv
<1> QED BY <1>1, Invariance, PTL

\* Every step of the detailed task is a step of the task that NodeMonitor was
\* checked with, or a stutter (packet.py:235-244).
THEOREM ImplementsTask == Spec => ImplementsMonitorTask
<1>1. ASSUME IInv, IInv', [Next]_vars PROVE [Promise!Next]_TaskState
  <2> USE DEF IInv, ControlOK, TaskState, Promise!Next, Promise!Run, Promise!Fail,
              Promise!Cancel, Promise!End, Promise!Kill
  <2>1. CASE Spawn
    BY <1>1, <2>1 DEF Spawn
  <2>0. CASE SpawnFails
    BY <1>1, <2>0 DEF SpawnFails, Over
  <2>2. CASE DrainOne \/ Wake \/ StopTimeout
    BY <1>1, <2>2 DEF DrainOne, Wake, StopTimeout
  <2>3. CASE DrainDone
    BY <1>1, <2>3 DEF DrainDone, HealthCheck, Finally, Over
  <2>4. CASE CallbackReturns
    BY <1>1, <2>4 DEF CallbackReturns, HealthCheck, Finally, Over
  <2>5. CASE CallbackFails
    BY <1>1, <2>5 DEF CallbackFails, Finally, Over
  <2>6. CASE CancelledInLoop
    BY <1>1, <2>6 DEF CancelledInLoop, Finally, Over
  <2>7. CASE CancelledInStopWait
    BY <1>1, <2>7 DEF CancelledInStopWait, Over
  <2>8. CASE StopWaitExit
    BY <1>1, <2>8 DEF StopWaitExit, Over, How
  <2>9. CASE TermWaitOver
    BY <1>1, <2>9 DEF TermWaitOver, Over, How
  <2>10. CASE Cancel
    BY <1>1, <2>10 DEF Cancel, Over
  <2>11. CASE Capture \/ CaptureEnds \/ CaptureKilled
    BY <1>1, <2>11 DEF Capture, CaptureKilled, CaptureEnds, taskVars
  <2>12. CASE UNCHANGED vars
    BY <2>12 DEF vars
  <2> QED
    BY <1>1, <2>0, <2>1, <2>2, <2>3, <2>4, <2>5, <2>6, <2>7, <2>8, <2>9, <2>10, <2>11, <2>12
    DEF Next, TaskStep
<1> QED BY <1>1, Invariance, PTL DEF Spec, ImplementsMonitorTask

(***************************************************************************)
(* Types                                                                   *)
(***************************************************************************)

LEMMA ElementsArePackets ==
  ASSUME NEW s \in Seq(Packets)
  PROVE  Elements(s) \subseteq Packets
BY DEF Elements

LEMMA InitTypeOK == Init => TypeOK
<1> SUFFICES ASSUME Init PROVE TypeOK
  OBVIOUS
<1>1. <<>> \in Seq(Packets) /\ Len(<<>>) <= QueueSize
  OBVIOUS
<1>2. /\ items \in Seq(Packets) /\ written \in Seq(Packets)
      /\ queue \in Seq(Packets) /\ Len(queue) <= QueueSize
  BY <1>1 DEF Init
<1>3. captured \in 0..MaxPackets /\ cancels \in 0..MaxCancels
  BY DEF Init
<1> QED BY <1>2, <1>3 DEF Init, TypeOK

LEMMA ProcessTypeOK ==
  ASSUME TypeOK, Capture \/ CaptureEnds \/ CaptureKilled
  PROVE  TypeOK'
<1> USE DEF TypeOK, taskVars
<1>1. CASE Capture
  <2>1. captured' \in 0..MaxPackets /\ captured' \in Packets
    BY <1>1 DEF Capture, Packets
  <2>2. queue' \in Seq(Packets) /\ Len(queue') <= QueueSize
    BY <1>1, <2>1 DEF Capture
  <2>3. dropped' \subseteq Packets
    BY <1>1, <2>1 DEF Capture
  <2> QED BY <1>1, <2>1, <2>2, <2>3 DEF Capture
<1>2. CASE CaptureEnds \/ CaptureKilled
  BY <1>2 DEF CaptureKilled, CaptureEnds
<1> QED BY <1>1, <1>2

LEMMA StoringTypeOK ==
  ASSUME TypeOK, \/ Stored
                 \/ NotStored
  PROVE  written' \in Seq(Packets) /\ lost' \subseteq Packets
<1>1. CASE Stored
  BY <1>1 DEF Stored, TypeOK
<1>2. CASE NotStored
  BY <1>2, ElementsArePackets DEF NotStored, TypeOK
<1> QED BY <1>1, <1>2

LEMMA TaskTypeOK ==
  ASSUME TypeOK, TaskStep \/ Cancel
  PROVE  TypeOK'
<1>0. <<>> \in Seq(Packets)
  OBVIOUS
<1> USE DEF procVars
<1>1. CASE Spawn \/ SpawnFails \/ Wake \/ StopTimeout
  BY <1>1 DEF TypeOK, Spawn, SpawnFails, Wake, StopTimeout, Over
<1>2. CASE DrainOne
  <2>1. Head(queue) \in Packets /\ Tail(queue) \in Seq(Packets) /\ Len(Tail(queue)) <= QueueSize
    BY <1>2 DEF TypeOK, DrainOne
  <2> QED BY <1>2, <2>1 DEF TypeOK, DrainOne
<1>3. CASE DrainDone
  BY <1>3 DEF TypeOK, DrainDone, HealthCheck, Finally, Over
<1>4. CASE CallbackReturns
  <2>1. written' \in Seq(Packets) /\ lost' \subseteq Packets
    BY <1>4, StoringTypeOK DEF CallbackReturns
  <2> QED BY <1>0, <1>4, <2>1 DEF TypeOK, CallbackReturns, HealthCheck, Finally, Over
<1>5. CASE CallbackFails
  <2>1. written' \in Seq(Packets) /\ lost' \subseteq Packets
    BY <1>5, StoringTypeOK DEF CallbackFails
  <2> QED BY <1>0, <1>5, <2>1 DEF TypeOK, CallbackFails, Finally, Over
<1>6. CASE CancelledInLoop
  <2>1. written' \in Seq(Packets) /\ lost' \subseteq Packets
    BY <1>6, StoringTypeOK DEF CancelledInLoop
  <2> QED BY <1>0, <1>6, <2>1 DEF TypeOK, CancelledInLoop, Finally, Over
<1>7. CASE CancelledInStopWait \/ StopWaitExit \/ TermWaitOver
  BY <1>7 DEF TypeOK, CancelledInStopWait, StopWaitExit, TermWaitOver, Over, How
<1>8. CASE Cancel
  <2>1. cancels' \in 0..MaxCancels
    BY <1>8 DEF TypeOK, Cancel
  <2>2. CASE pc = "created"
    BY <1>8, <2>1, <2>2 DEF TypeOK, Cancel, Over
  <2>3. CASE pc # "created"
    BY <1>8, <2>1, <2>3 DEF TypeOK, Cancel
  <2> QED BY <2>2, <2>3
<1> QED
  BY <1>1, <1>2, <1>3, <1>4, <1>5, <1>6, <1>7, <1>8 DEF TaskStep

LEMMA TypeInvariance == Spec => []TypeOK
<1>1. TypeOK /\ UNCHANGED vars => TypeOK'
  BY DEF TypeOK, vars
<1>2. TypeOK /\ [Next]_vars => TypeOK'
  BY <1>1, ProcessTypeOK, TaskTypeOK DEF Next
<1> QED BY <1>2, InitTypeOK, PTL DEF Spec

\* Every variable keeps its type, and the queue stays within its size
\* (packet.py:76-85, 119-129).
THEOREM TypeCorrect == Spec => []TypeOK
BY TypeInvariance, PTL

(***************************************************************************)
(* Order                                                                   *)
(***************************************************************************)

Increasing(s) == \A i, j \in 1..Len(s) : i < j => s[i] < s[j]
Before(s, t) == \A i \in 1..Len(s), j \in 1..Len(t) : s[i] < t[j]
UpTo(s, n) == \A i \in 1..Len(s) : s[i] <= n

\* What is stored, in the batch and in the queue is, one after the other, in the
\* order of capture.
OrderOK ==
    /\ Increasing(written) /\ Increasing(items) /\ Increasing(queue)
    /\ Before(written, items) /\ Before(written, queue) /\ Before(items, queue)
    /\ UpTo(written, captured) /\ UpTo(items, captured) /\ UpTo(queue, captured)

\* The end of the batch is what the queue began with.
LEMMA Moved ==
  ASSUME NEW w \in Seq(Nat), NEW s \in Seq(Nat), NEW q \in Seq(Nat), NEW n \in Nat, q # <<>>,
         Increasing(s), Increasing(q), Before(w, s), Before(w, q), Before(s, q),
         UpTo(s, n), UpTo(q, n)
  PROVE  /\ Increasing(Append(s, Head(q))) /\ Increasing(Tail(q))
         /\ Before(w, Append(s, Head(q))) /\ Before(w, Tail(q))
         /\ Before(Append(s, Head(q)), Tail(q))
         /\ UpTo(Append(s, Head(q)), n) /\ UpTo(Tail(q), n)
<1> DEFINE a == Append(s, Head(q))
           t == Tail(q)
<1>1. /\ Len(q) \in Nat \ {0} /\ Head(q) = q[1] /\ Head(q) \in Nat
      /\ t \in Seq(Nat) /\ Len(t) = Len(q) - 1
      /\ \A i \in 1..Len(t) : t[i] = q[i + 1] /\ i + 1 \in 1..Len(q) /\ t[i] \in Nat
  OBVIOUS
<1>2. /\ a \in Seq(Nat) /\ Len(a) = Len(s) + 1
      /\ \A i \in 1..Len(s) : a[i] = s[i] /\ s[i] \in Nat
      /\ a[Len(s) + 1] = q[1]
  BY <1>1
<1>3. \A i \in 1..Len(a) : i \in 1..Len(s) \/ i = Len(s) + 1
  BY <1>2
<1>4. 1 \in 1..Len(q) /\ \A i \in 1..Len(t) : q[1] < t[i]
  BY <1>1 DEF Increasing
<1> HIDE DEF a, t
<1>5. Increasing(a)
  <2> SUFFICES ASSUME NEW i \in 1..Len(a), NEW j \in 1..Len(a), i < j
               PROVE  a[i] < a[j]
    BY DEF Increasing
  <2>1. i \in 1..Len(s)
    BY <1>2
  <2>2. CASE j \in 1..Len(s)
    BY <1>2, <2>1, <2>2 DEF Increasing
  <2>3. CASE j = Len(s) + 1
    BY <1>2, <1>4, <2>1, <2>3 DEF Before
  <2> QED BY <1>3, <2>2, <2>3
<1>6. Increasing(t)
  <2> SUFFICES ASSUME NEW i \in 1..Len(t), NEW j \in 1..Len(t), i < j
               PROVE  t[i] < t[j]
    BY DEF Increasing
  <2>1. t[i] = q[i + 1] /\ t[j] = q[j + 1] /\ i + 1 \in 1..Len(q) /\ j + 1 \in 1..Len(q)
    BY <1>1
  <2>2. i + 1 < j + 1
    OBVIOUS
  <2> QED BY <2>1, <2>2 DEF Increasing
<1>7. Before(w, a) /\ Before(w, t)
  BY <1>1, <1>2, <1>3, <1>4 DEF Before
<1>8. Before(a, t)
  BY <1>1, <1>2, <1>3, <1>4 DEF Before
<1>9. UpTo(a, n) /\ UpTo(t, n)
  BY <1>1, <1>2, <1>3, <1>4 DEF UpTo
<1> QED BY <1>5, <1>6, <1>7, <1>8, <1>9 DEF a, t

\* A packet that has just been captured comes after all the others.
LEMMA Queued ==
  ASSUME NEW s \in Seq(Nat), NEW q \in Seq(Nat), NEW n \in Nat,
         Increasing(q), Before(s, q), UpTo(s, n), UpTo(q, n)
  PROVE  /\ Increasing(Append(q, n + 1)) /\ Before(s, Append(q, n + 1))
         /\ UpTo(Append(q, n + 1), n + 1)
<1> DEFINE a == Append(q, n + 1)
<1>1. /\ a \in Seq(Nat) /\ Len(a) = Len(q) + 1
      /\ \A i \in 1..Len(q) : a[i] = q[i] /\ q[i] \in Nat
      /\ a[Len(q) + 1] = n + 1
      /\ \A i \in 1..Len(a) : i \in 1..Len(q) \/ i = Len(q) + 1
      /\ \A i \in 1..Len(s) : s[i] \in Nat
  OBVIOUS
<1> HIDE DEF a
<1>2. Increasing(a)
  <2> SUFFICES ASSUME NEW i \in 1..Len(a), NEW j \in 1..Len(a), i < j
               PROVE  a[i] < a[j]
    BY DEF Increasing
  <2>1. i \in 1..Len(q)
    BY <1>1
  <2>2. CASE j \in 1..Len(q)
    BY <1>1, <2>1, <2>2 DEF Increasing
  <2>3. CASE j = Len(q) + 1
    <3>1. a[i] = q[i] /\ q[i] <= n /\ q[i] \in Nat
      BY <1>1, <2>1 DEF UpTo
    <3> QED BY <1>1, <2>3, <3>1
  <2> QED BY <1>1, <2>2, <2>3
<1>3. Before(s, a)
  <2> SUFFICES ASSUME NEW i \in 1..Len(s), NEW j \in 1..Len(a)
               PROVE  s[i] < a[j]
    BY DEF Before
  <2>1. s[i] <= n /\ s[i] \in Nat
    BY <1>1 DEF UpTo
  <2>2. CASE j \in 1..Len(q)
    BY <1>1, <2>2 DEF Before
  <2>3. CASE j = Len(q) + 1
    BY <1>1, <2>1, <2>3
  <2> QED BY <1>1, <2>2, <2>3
<1>4. UpTo(a, n + 1)
  <2> SUFFICES ASSUME NEW i \in 1..Len(a)
               PROVE  a[i] <= n + 1
    BY DEF UpTo
  <2>1. CASE i \in 1..Len(q)
    <3>1. a[i] = q[i] /\ q[i] <= n /\ q[i] \in Nat
      BY <1>1, <2>1 DEF UpTo
    <3> QED BY <3>1
  <2> QED BY <1>1, <2>1
<1> QED BY <1>2, <1>3, <1>4 DEF a

\* A batch is stored behind the batches before it.
LEMMA StoredBehind ==
  ASSUME NEW w \in Seq(Nat), NEW s \in Seq(Nat), NEW q \in Seq(Nat), NEW n \in Nat,
         Increasing(w), Increasing(s), Before(w, s), Before(w, q), Before(s, q),
         UpTo(w, n), UpTo(s, n)
  PROVE  Increasing(w \o s) /\ Before(w \o s, q) /\ UpTo(w \o s, n)
<1> DEFINE c == w \o s
<1>1. /\ c \in Seq(Nat) /\ Len(c) = Len(w) + Len(s)
      /\ \A i \in 1..Len(w) : c[i] = w[i] /\ w[i] \in Nat
  OBVIOUS
<1>2. \A i \in 1..Len(c) : i \notin 1..Len(w) =>
         c[i] = s[i - Len(w)] /\ i - Len(w) \in 1..Len(s) /\ s[i - Len(w)] \in Nat
  BY <1>1
<1> HIDE DEF c
<1>3. Increasing(c)
  <2> SUFFICES ASSUME NEW i \in 1..Len(c), NEW j \in 1..Len(c), i < j
               PROVE  c[i] < c[j]
    BY DEF Increasing
  <2>1. CASE j \in 1..Len(w)
    <3>1. i \in 1..Len(w)
      BY <1>1, <2>1
    <3> QED BY <1>1, <2>1, <3>1 DEF Increasing
  <2>2. CASE i \in 1..Len(w) /\ j \notin 1..Len(w)
    BY <1>1, <1>2, <2>2 DEF Before
  <2>3. CASE i \notin 1..Len(w) /\ j \notin 1..Len(w)
    <3>1. i - Len(w) < j - Len(w)
      BY <1>1
    <3> QED BY <1>2, <2>3, <3>1 DEF Increasing
  <2>4. i \notin 1..Len(w) => j \notin 1..Len(w)
    BY <1>1
  <2> QED BY <2>1, <2>2, <2>3, <2>4
<1>4. Before(c, q)
  BY <1>1, <1>2 DEF Before
<1>5. UpTo(c, n)
  BY <1>1, <1>2 DEF UpTo
<1> QED BY <1>3, <1>4, <1>5 DEF c

LEMMA UpToMore ==
  ASSUME NEW s \in Seq(Nat), NEW n \in Nat, UpTo(s, n)
  PROVE  UpTo(s, n + 1)
<1> SUFFICES ASSUME NEW i \in 1..Len(s)
             PROVE  s[i] <= n + 1
  BY DEF UpTo
<1>1. s[i] \in Nat /\ s[i] <= n
  BY DEF UpTo
<1> QED BY <1>1

LEMMA EmptyInOrder ==
  ASSUME NEW s \in Seq(Nat), NEW n \in Nat
  PROVE  Increasing(<<>>) /\ Before(s, <<>>) /\ Before(<<>>, s) /\ UpTo(<<>>, n)
BY DEF Increasing, Before, UpTo

\* A callback, or its cancellation, stores the batch or gives it up.
LEMMA BatchGone ==
  ASSUME TypeOK, OrderOK, Stored \/ NotStored, items' = <<>>, UNCHANGED <<queue, captured>>
  PROVE  OrderOK'
<1>1. written \in Seq(Nat) /\ items \in Seq(Nat) /\ queue \in Seq(Nat) /\ captured \in Nat
  BY DEF TypeOK, Packets
<1>2. Increasing(written') /\ Before(written', queue) /\ UpTo(written', captured)
  BY <1>1, StoredBehind DEF OrderOK, Stored, NotStored
<1>3. written' \in Seq(Nat)
  <2>1. CASE Stored
    BY <1>1, <2>1 DEF Stored
  <2>2. CASE NotStored
    BY <1>1, <2>2 DEF NotStored
  <2> QED BY <2>1, <2>2
<1>4. Increasing(items') /\ Before(written', items') /\ Before(items', queue) /\ UpTo(items', captured)
  BY <1>1, <1>3, EmptyInOrder
<1>5. UNCHANGED <<queue, captured>>
  OBVIOUS
<1> QED BY <1>2, <1>4, <1>5 DEF OrderOK

LEMMA NextOrderOK ==
  ASSUME TypeOK, OrderOK, [Next]_vars
  PROVE  OrderOK'
<1> USE DEF taskVars, procVars
<1>0. written \in Seq(Nat) /\ items \in Seq(Nat) /\ queue \in Seq(Nat) /\ captured \in Nat
  BY DEF TypeOK, Packets
<1>1. CASE Capture
  <2>1. CASE queue' = queue
    <3>1. UpTo(written, captured') /\ UpTo(items, captured') /\ UpTo(queue, captured')
      BY <1>0, <1>1, UpToMore DEF Capture, OrderOK
    <3>2. UNCHANGED <<written, items>>
      BY <1>1 DEF Capture
    <3> QED BY <2>1, <3>1, <3>2 DEF OrderOK
  <2>2. CASE queue' = Append(queue, captured + 1)
    <3>1. /\ Increasing(queue') /\ UpTo(queue', captured')
          /\ Before(written, queue') /\ Before(items, queue')
      BY <1>0, <1>1, <2>2, Queued DEF Capture, OrderOK
    <3>2. UpTo(written, captured') /\ UpTo(items, captured')
      BY <1>0, <1>1, UpToMore DEF Capture, OrderOK
    <3>3. UNCHANGED <<written, items>>
      BY <1>1 DEF Capture
    <3> QED BY <3>1, <3>2, <3>3 DEF OrderOK
  <2> QED BY <1>1, <2>1, <2>2 DEF Capture
<1>2. CASE DrainOne
  <2>1. /\ items' = Append(items, Head(queue)) /\ queue' = Tail(queue) /\ queue # <<>>
        /\ UNCHANGED <<written, captured>>
    BY <1>2 DEF DrainOne
  <2> QED BY <1>0, <2>1, Moved DEF OrderOK
<1>3. CASE CallbackReturns
  BY <1>3, BatchGone DEF CallbackReturns
<1>4. CASE CallbackFails
  BY <1>4, BatchGone DEF CallbackFails
<1>5. CASE CancelledInLoop
  BY <1>5, BatchGone DEF CancelledInLoop
<1>6. UNCHANGED <<written, items, queue, captured>> => OrderOK'
  BY DEF OrderOK
<1>7. CASE Spawn \/ SpawnFails \/ DrainDone \/ Wake \/ CancelledInStopWait \/ StopWaitExit
             \/ StopTimeout \/ TermWaitOver \/ Cancel \/ CaptureEnds \/ CaptureKilled \/ UNCHANGED vars
  BY <1>6, <1>7 DEF Spawn, SpawnFails, DrainDone, Wake, CancelledInStopWait, StopWaitExit,
                    StopTimeout, TermWaitOver, Cancel, CaptureEnds, CaptureKilled, vars
<1> QED BY <1>1, <1>2, <1>3, <1>4, <1>5, <1>7 DEF Next, TaskStep

\* Packets are stored in the order of capture and none twice, whatever batches
\* fail or are interrupted by a cancellation (packet.py:114-129, 235-244).
THEOREM StoredAreInOrder == Spec => []StoredInOrder
<1>1. Init => OrderOK
  <2>1. <<>> \in Seq(Nat)
    OBVIOUS
  <2> QED BY <2>1, EmptyInOrder DEF Init, OrderOK
<1>2. OrderOK => StoredInOrder
  BY DEF OrderOK, Increasing, StoredInOrder
<1> QED BY <1>1, <1>2, NextOrderOK, TypeInvariance, PTL DEF Spec

(***************************************************************************)
(* Nothing vanishes                                                        *)
(***************************************************************************)

LEMMA EmptyHolds == Elements(<<>>) = {}
BY DEF Elements

LEMMA AppendHolds ==
  ASSUME NEW s \in Seq(Nat), NEW n \in Nat
  PROVE  Elements(Append(s, n)) = Elements(s) \cup {n} /\ Len(Append(s, n)) = Len(s) + 1
<1> DEFINE a == Append(s, n)
<1>1. /\ Len(a) = Len(s) + 1 /\ Len(s) \in Nat /\ a[Len(s) + 1] = n
      /\ \A i \in 1..Len(s) : a[i] = s[i]
  OBVIOUS
<1>2. 1..Len(a) = 1..Len(s) \cup {Len(s) + 1}
  BY <1>1
<1> HIDE DEF a
<1>3. Elements(a) = Elements(s) \cup {n}
  BY <1>1, <1>2 DEF Elements
<1> QED BY <1>1, <1>3 DEF a

LEMMA HeadTailHold ==
  ASSUME NEW s \in Seq(Nat), s # <<>>
  PROVE  /\ Elements(s) = Elements(Tail(s)) \cup {Head(s)}
         /\ Len(Tail(s)) = Len(s) - 1 /\ Head(s) \in Nat
<1> DEFINE t == Tail(s)
<1>1. /\ Len(s) \in Nat \ {0} /\ Head(s) = s[1] /\ Head(s) \in Nat
      /\ t \in Seq(Nat) /\ Len(t) = Len(s) - 1
      /\ \A i \in 1..Len(t) : t[i] = s[i + 1] /\ i + 1 \in 1..Len(s)
  OBVIOUS
<1> HIDE DEF t
<1>2. \A i \in 1..Len(s) : i = 1 \/ (i - 1 \in 1..Len(t) /\ t[i - 1] = s[i])
  BY <1>1
<1>3. Elements(s) \subseteq Elements(t) \cup {Head(s)}
  <2> SUFFICES ASSUME NEW i \in 1..Len(s) PROVE s[i] \in Elements(t) \cup {s[1]}
    BY <1>1 DEF Elements
  <2> QED BY <1>2 DEF Elements
<1>4. Elements(t) \subseteq Elements(s) /\ Head(s) \in Elements(s)
  BY <1>1 DEF Elements
<1> QED BY <1>1, <1>3, <1>4 DEF t

LEMMA ConcatHolds ==
  ASSUME NEW s \in Seq(Nat), NEW t \in Seq(Nat)
  PROVE  Elements(s \o t) = Elements(s) \cup Elements(t) /\ Len(s \o t) = Len(s) + Len(t)
<1> DEFINE c == s \o t
<1>1. /\ Len(c) = Len(s) + Len(t) /\ Len(s) \in Nat /\ Len(t) \in Nat
      /\ \A i \in 1..Len(s) : c[i] = s[i] /\ i \in 1..Len(c)
      /\ \A i \in 1..Len(t) : c[i + Len(s)] = t[i] /\ i + Len(s) \in 1..Len(c)
  OBVIOUS
<1> HIDE DEF c
<1>2. \A i \in 1..Len(c) : \/ i \in 1..Len(s) /\ c[i] = s[i]
                           \/ i - Len(s) \in 1..Len(t) /\ c[i] = t[i - Len(s)]
  <2> SUFFICES ASSUME NEW i \in 1..Len(c), i \notin 1..Len(s)
               PROVE  i - Len(s) \in 1..Len(t) /\ c[i] = t[i - Len(s)]
    BY <1>1
  <2>1. i - Len(s) \in 1..Len(t) /\ (i - Len(s)) + Len(s) = i
    BY <1>1
  <2> QED BY <1>1, <2>1
<1>3. Elements(c) \subseteq Elements(s) \cup Elements(t)
  BY <1>2 DEF Elements
<1>4. Elements(s) \subseteq Elements(c) /\ Elements(t) \subseteq Elements(c)
  BY <1>1 DEF Elements
<1> QED BY <1>1, <1>3, <1>4 DEF c

\* What the account of NothingVanishes adds up.
LEMMA Numbers ==
  ASSUME TypeOK
  PROVE  /\ written \in Seq(Nat) /\ queue \in Seq(Nat) /\ items \in Seq(Nat) /\ captured \in Nat
         /\ Len(written) \in Nat /\ Len(queue) \in Nat /\ Len(items) \in Nat
         /\ IsFiniteSet(dropped) /\ Cardinality(dropped) \in Nat
<1>1. IsFiniteSet(Packets)
  BY FS_Interval DEF TypeOK, Packets
<1>2. IsFiniteSet(dropped) /\ Cardinality(dropped) \in Nat
  BY <1>1, FS_Subset, FS_CardinalityType DEF TypeOK
<1> QED BY <1>2 DEF TypeOK, Packets

\* The account of the step of the process: the next number goes into the queue or,
\* when that is full, to the dropped ones.
LEMMA CaptureKeepsCount ==
  ASSUME TypeOK, NothingVanishes, cancels = 0, ~failing, Capture
  PROVE  NothingVanishes'
<1>0. 1..(captured + 1) = 1..captured \cup {captured + 1}
  BY Numbers
<1>1. captured' = captured + 1 /\ UNCHANGED <<written, items, cancels, failing>>
  BY DEF Capture, taskVars
<1>2. CASE queue' = Append(queue, captured + 1) /\ UNCHANGED dropped
  <2>1. Elements(queue') = Elements(queue) \cup {captured + 1} /\ Len(queue') = Len(queue) + 1
    BY <1>2, Numbers, AppendHolds
  <2>2. 1..captured' = Elements(written') \cup Elements(queue') \cup Elements(items') \cup dropped'
    BY <1>0, <1>1, <1>2, <2>1 DEF NothingVanishes
  <2>3. Cardinality(dropped') + Len(written') + Len(queue') + Len(items') = captured'
    BY <1>1, <1>2, <2>1, Numbers DEF NothingVanishes
  <2> QED BY <2>2, <2>3 DEF NothingVanishes
<1>3. CASE dropped' = dropped \cup {captured + 1} /\ UNCHANGED queue
  <2>1. captured + 1 \notin dropped
    <3>1. dropped \subseteq 1..captured
      BY DEF NothingVanishes
    <3> QED BY <3>1, Numbers
  <2>2. Cardinality(dropped') = Cardinality(dropped) + 1
    BY <1>3, <2>1, Numbers, FS_AddElement
  <2>3. 1..captured' = Elements(written') \cup Elements(queue') \cup Elements(items') \cup dropped'
    BY <1>0, <1>1, <1>3 DEF NothingVanishes
  <2>4. Cardinality(dropped') + Len(written') + Len(queue') + Len(items') = captured'
    BY <1>1, <1>3, <2>2, Numbers DEF NothingVanishes
  <2> QED BY <2>3, <2>4 DEF NothingVanishes
<1> QED BY <1>1, <1>2, <1>3 DEF Capture

\* One get moves a packet from the queue to the batch, a callback that returns the
\* batch to Redis.
LEMMA BatchKeepsCount ==
  ASSUME TypeOK, NothingVanishes, cancels = 0, ~failing, DrainOne \/ CallbackReturns
  PROVE  NothingVanishes'
<1>1. UNCHANGED <<captured, dropped, cancels>>
  BY DEF DrainOne, CallbackReturns, procVars
<1>2. CASE DrainOne
  <2>1. Elements(queue) = Elements(queue') \cup {Head(queue)} /\ Len(queue') = Len(queue) - 1
    BY <1>2, Numbers, HeadTailHold DEF DrainOne
  <2>2. Elements(items') = Elements(items) \cup {Head(queue)} /\ Len(items') = Len(items) + 1
    BY <1>2, Numbers, HeadTailHold, AppendHolds DEF DrainOne
  <2>3. UNCHANGED written
    BY <1>2 DEF DrainOne
  <2>4. 1..captured' = Elements(written') \cup Elements(queue') \cup Elements(items') \cup dropped'
    BY <1>1, <2>1, <2>2, <2>3 DEF NothingVanishes
  <2>5. Cardinality(dropped') + Len(written') + Len(queue') + Len(items') = captured'
    BY <1>1, <2>1, <2>2, <2>3, Numbers DEF NothingVanishes
  <2> QED BY <2>4, <2>5 DEF NothingVanishes
<1>3. CASE CallbackReturns
  <2>1. Elements(written') = Elements(written) \cup Elements(items)
        /\ Len(written') = Len(written) + Len(items)
    BY <1>3, Numbers, ConcatHolds DEF CallbackReturns, Stored
  <2>2. Elements(items') = {} /\ Len(items') = 0
    BY <1>3, EmptyHolds DEF CallbackReturns
  <2>3. UNCHANGED queue
    BY <1>3 DEF CallbackReturns, procVars
  <2>4. 1..captured' = Elements(written') \cup Elements(queue') \cup Elements(items') \cup dropped'
    BY <1>1, <2>1, <2>2, <2>3 DEF NothingVanishes
  <2>5. Cardinality(dropped') + Len(written') + Len(queue') + Len(items') = captured'
    BY <1>1, <2>1, <2>2, <2>3, Numbers DEF NothingVanishes
  <2> QED BY <2>4, <2>5 DEF NothingVanishes
<1> QED BY <1>2, <1>3

LEMMA NextNothingVanishes ==
  ASSUME IInv, TypeOK, NothingVanishes, [Next]_vars
  PROVE  NothingVanishes'
<1> SUFFICES ASSUME cancels' = 0, ~failing' PROVE NothingVanishes'
  BY DEF NothingVanishes
<1>1. cancels = 0
  <2>1. cancels \in Nat /\ (cancels' = cancels \/ cancels' = cancels + 1)
    BY DEF IInv, ControlOK, Next, TaskStep, Spawn, SpawnFails, DrainOne, DrainDone, CallbackReturns,
           CallbackFails, Wake, CancelledInLoop, CancelledInStopWait, StopWaitExit, StopTimeout,
           TermWaitOver, Cancel, Capture, CaptureKilled, CaptureEnds, taskVars, vars
  <2> QED BY <2>1
<1>2. ~pending
  BY <1>1 DEF IInv, ControlOK
<1>3. ~CallbackFails /\ ~CancelledInLoop /\ ~CancelledInStopWait /\ ~Cancel
  BY <1>1, <1>2 DEF CallbackFails, Finally, CancelledInLoop, CancelledInStopWait, Cancel, IInv,
                    ControlOK
<1>4. ~failing
  BY <1>3 DEF Next, TaskStep, Spawn, SpawnFails, DrainOne, DrainDone, CallbackReturns, HealthCheck, Finally,
              Wake, StopWaitExit, StopTimeout, TermWaitOver, Capture, CaptureKilled, CaptureEnds,
              taskVars, vars, IInv, ControlOK
<1>5. CASE Capture
  BY <1>1, <1>4, <1>5, CaptureKeepsCount
<1>6. CASE DrainOne \/ CallbackReturns
  BY <1>1, <1>4, <1>6, BatchKeepsCount
<1>7. UNCHANGED <<written, items, queue, captured, dropped>> => NothingVanishes'
  BY <1>1, <1>4 DEF NothingVanishes
<1>8. CASE Spawn \/ SpawnFails \/ DrainDone \/ Wake \/ StopWaitExit \/ StopTimeout \/ TermWaitOver
             \/ CaptureEnds \/ CaptureKilled \/ UNCHANGED vars
  BY <1>7, <1>8 DEF Spawn, SpawnFails, DrainDone, Wake, StopWaitExit, StopTimeout, TermWaitOver,
                    CaptureEnds, CaptureKilled, vars, procVars, taskVars
<1> QED BY <1>3, <1>5, <1>6, <1>8 DEF Next, TaskStep

\* Until the task is cancelled or fails, no packet is anywhere twice and none has
\* disappeared: it is stored, in the batch, queued, or was dropped by a full queue
\* (packet.py:76-85, 119-129).
THEOREM NothingIsLost == Spec => []NothingVanishes
<1>1. Init => NothingVanishes
  <2> SUFFICES ASSUME Init PROVE NothingVanishes
    OBVIOUS
  <2>1. Elements(written) = {} /\ Elements(queue) = {} /\ Elements(items) = {} /\ dropped = {}
    BY EmptyHolds DEF Init
  <2>2. Len(written) = 0 /\ Len(queue) = 0 /\ Len(items) = 0 /\ Cardinality(dropped) = 0
    BY FS_EmptySet DEF Init
  <2>3. captured = 0 /\ 1..0 = {}
    BY DEF Init
  <2> QED BY <2>1, <2>2, <2>3 DEF NothingVanishes
<1> QED BY <1>1, NextNothingVanishes, TypeInvariance, Invariance, PTL DEF Spec
=============================================================================

------------------------ MODULE SystemMonitor_proofs ------------------------
(***************************************************************************)
(* What SystemMonitor guarantees for any group size and any numbers of     *)
(* samples and cancellations.                                              *)
(***************************************************************************)
EXTENDS SystemMonitor, SequenceTheorems, TLAPS

\* At most this many samples are held.
Capacity == IF GroupSize = 0 THEN 1 ELSE GroupSize

\* What each write is made of (system.py:187, 202, 207): the next samples, in order.
GroupOK ==
    /\ samples = Len(written) + Len(data)
    /\ Len(data) <= Capacity
    /\ pc # "zadd" => Len(data) < Capacity
    /\ \A i \in 1..Len(data) : data[i].time = Len(written) + i

CountInv ==
    /\ TypeOK
    /\ StoredIsPrefix
    /\ AtMostOneGroupMissing
    /\ pc # "over" => GroupOK

LEMMA TypeInit == Init => TypeOK
BY SizesAssumption DEF Init, TypeOK

LEMMA TypeNext == TypeOK /\ [Next]_vars => TypeOK'
<1> SUFFICES ASSUME TypeOK, [Next]_vars PROVE TypeOK'
  OBVIOUS
<1> USE SizesAssumption DEF TypeOK
<1>1. CASE Run
  BY <1>1 DEF Run
<1>2. CASE RunFails
  BY <1>2 DEF RunFails, Over
<1>3. CASE TakeSample
  <2>1. PICK s \in Sample : ReadCpu(samples', s, times') /\ data' = Append(data, s)
    BY <1>3 DEF TakeSample
  <2>2. samples' \in 0..MaxSamples /\ times' \in 0..MaxSamples
    BY <1>3, <2>1 DEF TakeSample, ReadCpu
  <2>3. data' \in Seq(Sample)
    BY <2>1, AppendProperties
  <2> QED BY <1>3, <2>2, <2>3 DEF TakeSample
<1>4. written \o data \in Seq(Sample)
  BY ConcatProperties
<1>5. CASE CallbackReturns
  <2>1. data' \in Seq(Sample)
    BY <1>5 DEF CallbackReturns
  <2> QED BY <1>4, <1>5, <2>1 DEF CallbackReturns
<1>6. CASE CallbackFails
  BY <1>4, <1>6 DEF CallbackFails, Over
<1>7. CASE Cancel
  BY <1>7 DEF Cancel, Over
<1>8. CASE Cancelled
  BY <1>4, <1>8 DEF Cancelled, Over
<1>9. CASE UNCHANGED vars
  BY <1>9 DEF vars
<1> QED BY <1>1, <1>2, <1>3, <1>5, <1>6, <1>7, <1>8, <1>9 DEF Next

\* The order and completeness of a write: the group continues what is stored.
LEMMA WriteInOrder ==
  ASSUME TypeOK, StoredIsPrefix, GroupOK
  PROVE  /\ Len(written \o data) = samples
         /\ \A i \in 1..Len(written \o data) : (written \o data)[i].time = i
<1>1. /\ Len(written \o data) = Len(written) + Len(data)
      /\ \A i \in 1..Len(written) + Len(data) :
            (written \o data)[i] = IF i <= Len(written) THEN written[i] ELSE data[i - Len(written)]
  BY ConcatProperties DEF TypeOK
<1>2. Len(written) \in Nat /\ Len(data) \in Nat
  BY DEF TypeOK
<1>3. ASSUME NEW i \in 1..Len(written) + Len(data) PROVE (written \o data)[i].time = i
  <2>1. CASE i <= Len(written)
    BY <1>1, <1>2, <2>1 DEF StoredIsPrefix
  <2>2. CASE i > Len(written)
    <3>1. i - Len(written) \in 1..Len(data)
      BY <1>2, <2>2
    <3>2. data[i - Len(written)].time = Len(written) + (i - Len(written))
      BY <3>1 DEF GroupOK
    <3> QED BY <1>1, <1>2, <2>2, <3>2
  <2> QED BY <1>2, <2>1, <2>2
<1> QED BY <1>1, <1>3 DEF GroupOK

LEMMA CountInit == Init => CountInv
<1> SUFFICES ASSUME Init PROVE CountInv
  OBVIOUS
<1>1. Len(data) = 0 /\ Len(written) = 0 /\ samples = 0
  BY DEF Init
<1> QED
  BY <1>1, TypeInit, SizesAssumption
  DEF Init, CountInv, StoredIsPrefix, AtMostOneGroupMissing, GroupOK, Capacity

LEMMA CountNext == CountInv /\ [Next]_vars => CountInv'
<1> SUFFICES ASSUME CountInv, [Next]_vars PROVE CountInv'
  OBVIOUS
<1>1. TypeOK /\ TypeOK'
  BY TypeNext DEF CountInv
<1>2. Len(written) \in Nat /\ Len(data) \in Nat /\ samples \in Nat /\ Capacity \in Nat \ {0}
  BY <1>1, SizesAssumption DEF TypeOK, Capacity
<1>3. CASE Run \/ RunFails \/ Cancel \/ UNCHANGED vars
  BY <1>1, <1>3
  DEF Run, RunFails, Cancel, Over, vars, CountInv, StoredIsPrefix, AtMostOneGroupMissing, GroupOK
<1>4. CASE TakeSample
  <2>1. PICK s \in Sample : ReadCpu(samples', s, times') /\ data' = Append(data, s)
    BY <1>4 DEF TakeSample
  <2>2. s.time = samples + 1 /\ samples' = samples + 1
    BY <1>4, <2>1 DEF TakeSample, ReadCpu
  <2>3. GroupOK /\ pc = "sleep" /\ written' = written
    BY <1>4 DEF TakeSample, CountInv
  <2>4. /\ Len(data') = Len(data) + 1
        /\ data'[Len(data) + 1] = s
        /\ \A i \in 1..Len(data) : data'[i] = data[i]
    BY <1>1, <2>1, AppendProperties DEF TypeOK
  <2>5. Len(data') <= Capacity
    BY <1>2, <2>3, <2>4 DEF GroupOK
  <2>6. pc' # "zadd" => Len(data') < Capacity
    BY <1>2, <1>4, <2>4, <2>5, SizesAssumption DEF TakeSample, GroupFull, Capacity
  <2>7. samples' = Len(written') + Len(data')
    BY <1>2, <2>2, <2>3, <2>4 DEF GroupOK
  <2>8. ASSUME NEW i \in 1..Len(data') PROVE data'[i].time = Len(written') + i
    <3>1. CASE i = Len(data) + 1
      BY <1>2, <2>2, <2>3, <2>4, <3>1 DEF GroupOK
    <3>2. CASE i \in 1..Len(data)
      BY <2>3, <2>4, <3>2 DEF GroupOK
    <3> QED BY <1>2, <2>4, <3>1, <3>2
  <2>9. GroupOK'
    BY <2>5, <2>6, <2>7, <2>8 DEF GroupOK, Capacity
  <2>10. StoredIsPrefix'
    BY <2>3 DEF CountInv, StoredIsPrefix
  <2>11. AtMostOneGroupMissing'
    BY <1>2, <2>3, <2>4, <2>5, <2>7 DEF AtMostOneGroupMissing, Capacity
  <2> QED BY <1>1, <2>9, <2>10, <2>11 DEF CountInv
<1>5. ASSUME pc # "over", written' = written \o data, samples' = samples
      PROVE  StoredIsPrefix' /\ AtMostOneGroupMissing' /\ Len(written') = samples'
  <2>1. /\ Len(written') = samples
        /\ \A i \in 1..Len(written') : written'[i].time = i
    BY <1>5, WriteInOrder DEF CountInv
  <2> QED
    BY <1>2, <1>5, <2>1, SizesAssumption DEF StoredIsPrefix, AtMostOneGroupMissing
<1>6. CASE CallbackReturns
  <2>1. StoredIsPrefix' /\ AtMostOneGroupMissing' /\ Len(written') = samples'
    BY <1>5, <1>6 DEF CallbackReturns
  <2>2. Len(data') = 0
    BY <1>6 DEF CallbackReturns
  <2>3. GroupOK'
    BY <1>2, <1>6, <2>1, <2>2, SizesAssumption DEF GroupOK, Capacity, CallbackReturns
  <2> QED BY <1>1, <2>1, <2>3 DEF CountInv
<1>7. CASE CallbackFails \/ Cancelled
  <2>1. pc # "over" /\ pc' = "over" /\ samples' = samples
    BY <1>7 DEF CallbackFails, Cancelled, Over
  <2>2. CASE written' = written \o data
    BY <1>1, <1>5, <2>1, <2>2 DEF CountInv
  <2>3. CASE written' = written
    BY <1>1, <2>1, <2>3 DEF CountInv, StoredIsPrefix, AtMostOneGroupMissing
  <2> QED BY <1>7, <2>2, <2>3 DEF CallbackFails, Cancelled
<1> QED BY <1>3, <1>4, <1>6, <1>7 DEF Next

LEMMA Counted == Spec => []CountInv
BY CountInit, CountNext, PTL DEF Spec

\* Redis holds the first samples, each once and in order, for every group size
\* (system.py:205-208).
THEOREM StoredOnce == Spec => []StoredIsPrefix
<1>1. CountInv => StoredIsPrefix
  BY DEF CountInv
<1> QED BY <1>1, Counted, PTL

\* Every variable keeps its type (system.py:165-231).
THEOREM TypeCorrect == Spec => []TypeOK
<1>1. CountInv => TypeOK
  BY DEF CountInv
<1> QED BY <1>1, Counted, PTL

\* A cancellation or a failure never costs more than one group (system.py:205-208).
THEOREM OneGroupAtStake == Spec => []AtMostOneGroupMissing
<1>1. CountInv => AtMostOneGroupMissing
  BY DEF CountInv
<1> QED BY <1>1, Counted, PTL

(***************************************************************************)
(* The spans of the CPU percentages                                        *)
(***************************************************************************)

\* The span of s ends before that of t begins, unless one of them is empty.
Before(s, t) == s.since < s.time => s.time <= t.since

\* A span that is over when the next one starts from `times`.
Past(s) == s.since < s.time => s.time <= times

SpanInv ==
    /\ CpuSpansDisjoint
    /\ pc # "over" =>
        /\ times <= samples
        /\ \A i \in 1..Len(written) : Past(written[i])
        /\ \A i \in 1..Len(data) : Past(data[i])
        /\ \A i \in 1..Len(written), j \in 1..Len(data) : Before(written[i], data[j])
        /\ \A i, j \in 1..Len(data) : i < j => Before(data[i], data[j])

LEMMA SpanInit == Init => SpanInv
<1> SUFFICES ASSUME Init PROVE SpanInv
  OBVIOUS
<1>1. Len(data) = 0 /\ Len(written) = 0
  BY DEF Init
<1> QED BY <1>1 DEF Init, SpanInv, CpuSpansDisjoint

\* A sample begins where every earlier span is over.
LEMMA SampleAfterAll ==
  ASSUME TypeOK, SpanInv, pc # "over", NEW s \in Sample, NEW t \in 0..MaxSamples,
         ReadCpu(samples + 1, s, t),
         NEW r \in Sample, Past(r)
  PROVE  /\ Before(r, s)
         /\ r.since < r.time => r.time <= t
         /\ s.since < s.time => s.time <= t
         /\ t <= samples + 1
<1>1. samples \in Nat /\ times \in Nat /\ times <= samples /\ t \in Nat
  BY SizesAssumption DEF TypeOK, SpanInv
<1>2. r.time \in Nat /\ r.since \in Nat /\ s.time \in Nat /\ s.since \in Nat
  BY SizesAssumption DEF Sample
<1> QED BY <1>1, <1>2 DEF ReadCpu, Before, Past

\* A write joins two sequences whose spans follow one another.
LEMMA WriteKeepsSpans ==
  ASSUME TypeOK, SpanInv, pc # "over"
  PROVE  LET w == written \o data IN
         /\ \A i \in 1..Len(w) : Past(w[i])
         /\ \A i, j \in 1..Len(w) : i < j => Before(w[i], w[j])
<1> DEFINE w == written \o data
<1>1. /\ Len(w) = Len(written) + Len(data)
      /\ \A i \in 1..Len(written) + Len(data) :
            w[i] = IF i <= Len(written) THEN written[i] ELSE data[i - Len(written)]
  BY ConcatProperties DEF TypeOK
<1>2. Len(written) \in Nat /\ Len(data) \in Nat
  BY DEF TypeOK
<1>3. ASSUME NEW i \in 1..Len(w)
      PROVE  \/ i \in 1..Len(written) /\ w[i] = written[i]
             \/ /\ i > Len(written)
                /\ i - Len(written) \in 1..Len(data)
                /\ w[i] = data[i - Len(written)]
  BY <1>1, <1>2
<1>4. ASSUME NEW i \in 1..Len(w) PROVE Past(w[i])
  BY <1>3 DEF SpanInv
<1>5. ASSUME NEW i \in 1..Len(w), NEW j \in 1..Len(w), i < j PROVE Before(w[i], w[j])
  <2>1. CASE j \in 1..Len(written) /\ w[j] = written[j]
    <3>1. i \in 1..Len(written) /\ w[i] = written[i]
      BY <1>2, <1>3, <1>5, <2>1
    <3> QED BY <1>5, <2>1, <3>1 DEF SpanInv, CpuSpansDisjoint, Before
  <2>2. CASE /\ j > Len(written)
             /\ j - Len(written) \in 1..Len(data)
             /\ w[j] = data[j - Len(written)]
    <3>1. CASE i \in 1..Len(written) /\ w[i] = written[i]
      BY <2>2, <3>1 DEF SpanInv
    <3>2. CASE /\ i - Len(written) \in 1..Len(data)
               /\ w[i] = data[i - Len(written)]
      <4>1. i - Len(written) < j - Len(written)
        BY <1>2, <1>5
      <4> QED BY <2>2, <3>2, <4>1 DEF SpanInv
    <3> QED BY <1>3, <3>1, <3>2
  <2> QED BY <1>3, <2>1, <2>2
<1> QED BY <1>4, <1>5

LEMMA SpanNext == TypeOK /\ TypeOK' /\ SpanInv /\ [Next]_vars => SpanInv'
<1> SUFFICES ASSUME TypeOK, TypeOK', SpanInv, [Next]_vars PROVE SpanInv'
  OBVIOUS
<1>1. CASE Run \/ RunFails \/ Cancel \/ UNCHANGED vars
  BY <1>1 DEF Run, RunFails, Cancel, Over, vars, SpanInv, CpuSpansDisjoint, Past, Before
<1>2. CASE TakeSample
  <2>1. PICK s \in Sample : ReadCpu(samples + 1, s, times') /\ data' = Append(data, s)
    BY <1>2 DEF TakeSample
  <2>2. pc = "sleep" /\ written' = written /\ samples' = samples + 1
    BY <1>2 DEF TakeSample
  <2>3. /\ Len(data) \in Nat
        /\ Len(data') = Len(data) + 1
        /\ data'[Len(data) + 1] = s
        /\ \A i \in 1..Len(data) : data'[i] = data[i]
    BY <2>1, AppendProperties DEF TypeOK
  <2>4. times' \in 0..MaxSamples
    BY DEF TypeOK
  <2>5. ASSUME NEW r \in Sample, Past(r)
        PROVE  Before(r, s) /\ (r.since < r.time => r.time <= times')
    BY <2>1, <2>2, <2>4, <2>5, SampleAfterAll
  <2>6. (s.since < s.time => s.time <= times') /\ times' <= samples'
    <3>1. samples \in Nat /\ times \in Nat /\ times <= samples
      BY <2>2, SizesAssumption DEF TypeOK, SpanInv
    <3>2. s.time \in Nat /\ s.since \in Nat
      BY SizesAssumption DEF Sample
    <3> QED BY <2>1, <2>2, <3>1, <3>2 DEF ReadCpu
  <2>7. ASSUME NEW i \in 1..Len(written)
        PROVE  Before(written[i], s) /\ Past(written[i])'
    <3>1. written[i] \in Sample /\ Past(written[i])
      BY <2>2 DEF TypeOK, SpanInv
    <3> QED BY <2>2, <2>5, <3>1 DEF Past
  <2>8. ASSUME NEW i \in 1..Len(data)
        PROVE  Before(data[i], s) /\ (data[i].since < data[i].time => data[i].time <= times')
    <3>1. data[i] \in Sample /\ Past(data[i])
      BY <2>2 DEF TypeOK, SpanInv
    <3> QED BY <2>5, <3>1
  <2>9. ASSUME NEW i \in 1..Len(data')
        PROVE  i = Len(data) + 1 \/ i \in 1..Len(data)
    BY <2>3
  <2>10. CpuSpansDisjoint'
    BY <2>2 DEF SpanInv, CpuSpansDisjoint
  <2>11. \A i \in 1..Len(written') : Past(written[i])'
    BY <2>2, <2>7
  <2>12. ASSUME NEW i \in 1..Len(data') PROVE Past(data[i])'
    BY <2>3, <2>6, <2>8, <2>9 DEF Past
  <2>13. ASSUME NEW i \in 1..Len(written'), NEW j \in 1..Len(data')
         PROVE  Before(written'[i], data'[j])
    BY <2>2, <2>3, <2>7, <2>9 DEF SpanInv
  <2>14. ASSUME NEW i \in 1..Len(data'), NEW j \in 1..Len(data'), i < j
         PROVE  Before(data'[i], data'[j])
    <3>1. i \in 1..Len(data)
      BY <2>3, <2>14
    <3>2. CASE j = Len(data) + 1
      BY <2>3, <2>8, <3>1, <3>2
    <3>3. CASE j \in 1..Len(data)
      BY <2>2, <2>3, <2>14, <3>1, <3>3 DEF SpanInv
    <3> QED BY <2>9, <3>2, <3>3
  <2> HIDE DEF Before, Past
  <2> QED BY <2>6, <2>10, <2>11, <2>12, <2>13, <2>14 DEF SpanInv, Before
<1>3. CASE CallbackReturns
  <2>1. pc # "over" /\ written' = written \o data /\ data' = <<>> /\ UNCHANGED <<times, samples>>
    BY <1>3 DEF CallbackReturns
  <2>2. Len(data') = 0
    BY <2>1
  <2>3. CpuSpansDisjoint'
    BY <2>1, WriteKeepsSpans DEF CpuSpansDisjoint, Before
  <2>4. \A i \in 1..Len(written') : Past(written[i])'
    BY <2>1, WriteKeepsSpans DEF Past
  <2>5. times' <= samples'
    BY <2>1 DEF SpanInv
  <2> QED BY <2>2, <2>3, <2>4, <2>5 DEF SpanInv
<1>4. CASE CallbackFails \/ Cancelled
  <2>1. pc # "over" /\ pc' = "over"
    BY <1>4 DEF CallbackFails, Cancelled, Over
  <2>2. CASE written' = written \o data
    BY <2>1, <2>2, WriteKeepsSpans DEF SpanInv, CpuSpansDisjoint, Before
  <2>3. CASE written' = written
    BY <2>1, <2>3 DEF SpanInv, CpuSpansDisjoint
  <2> QED BY <1>4, <2>2, <2>3 DEF CallbackFails, Cancelled
<1> QED BY <1>1, <1>2, <1>3, <1>4 DEF Next

\* No moment is counted in two CPU percentages, whatever readings fail
\* (system.py:75-94, 131-146).
THEOREM NoMomentCountedTwice == Spec => []CpuSpansDisjoint
<1>1. CountInv => TypeOK
  BY DEF CountInv
<1>2. SpanInv => CpuSpansDisjoint
  BY DEF SpanInv
<1> QED BY <1>1, <1>2, Counted, SpanInit, SpanNext, PTL DEF Spec

(***************************************************************************)
(* The implementation                                                      *)
(***************************************************************************)

\* Where the task is, given what it was told.
ControlOK ==
    /\ cancels \in Nat
    /\ pc = "created" => cancels = 0
    /\ pc # "over" => outcome = "none"
    /\ pc \in {"created", "sleep", "zadd", "over"}
    /\ outcome \in {"none", "ended", "failed", "killed"}

\* Every step of the detailed task is a step of the task that NodeMonitor was
\* checked with, or a stutter (system.py:225-234).
THEOREM ImplementsTask == Spec => ImplementsMonitorTask
<1>1. Init => ControlOK
  BY DEF Init, ControlOK
<1>2. ControlOK /\ [Next]_vars => ControlOK'
  BY DEF ControlOK, Next, Run, RunFails, TakeSample, CallbackReturns, CallbackFails,
         Cancel, Cancelled, Over, vars
<1>3. ASSUME ControlOK, [Next]_vars PROVE [Promise!Next]_TaskState
  <2> USE <1>3 DEF ControlOK, TaskState, Promise!Next, Promise!Run, Promise!Fail,
                   Promise!Cancel, Promise!End
  <2>1. CASE Run \/ RunFails
    BY <2>1 DEF Run, RunFails, Over
  <2>2. CASE TakeSample \/ CallbackReturns
    BY <2>2 DEF TakeSample, CallbackReturns
  <2>3. CASE CallbackFails \/ Cancelled
    BY <2>3 DEF CallbackFails, Cancelled, Over
  <2>4. CASE Cancel
    BY <2>4 DEF Cancel, Over
  <2>5. CASE UNCHANGED vars
    BY <2>5 DEF vars
  <2> QED BY <2>1, <2>2, <2>3, <2>4, <2>5 DEF Next
<1> QED BY <1>1, <1>2, <1>3, PTL DEF Spec, ImplementsMonitorTask
=============================================================================

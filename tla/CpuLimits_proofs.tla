--------------------------- MODULE CpuLimits_proofs ---------------------------
(***************************************************************************)
(* Theorems about CpuLimits, for any finite set of replicas and any bounds. *)
(***************************************************************************)
EXTENDS CpuLimits, TLAPS

USE DEF Polys, Locations

\* The strengthening.  AppliesMeasuredPoly needs to know what a replica that is
\* about to publish holds; NoLateBenchmark needs the claim to outlive every
\* step of an undisturbed execution, and to know who may have got past the GET.
HoldsMeasuredPoly ==
    \A r \in Replicas : pc[r] \in {"publish", "apply", "done"} => poly[r] \in Polys

ClaimStands == claimed => key # NoKey

BuildersAreEarly ==
    \A r \in Replicas : /\ pc[r] \in {"lock", "bench"} => r \in early
                        /\ pc[r] # "local"

IInv ==
    /\ TypeOK
    /\ HoldsMeasuredPoly
    /\ ~disturbed => ClaimStands /\ BuildersAreEarly

LEMMA InitInv == Init => IInv
<1> SUFFICES ASSUME Init PROVE IInv
  OBVIOUS
<1> USE DEF Init
<1>1. 0 \in 0..MaxPolls /\ 0 \in 0..MaxDeaths /\ 0 \in 0..MaxExpiries
  BY BoundsAssumption
<1>2. TypeOK
  BY <1>1 DEF TypeOK
<1>3. HoldsMeasuredPoly /\ ClaimStands /\ BuildersAreEarly
  BY DEF HoldsMeasuredPoly, ClaimStands, BuildersAreEarly
<1> QED BY <1>2, <1>3 DEF IInv

LEMMA StepInv == IInv /\ [Next]_vars => IInv'
<1> SUFFICES ASSUME IInv, [Next]_vars PROVE IInv'
  OBVIOUS
<1> USE NamesAssumption, BoundsAssumption
        DEF IInv, TypeOK, HoldsMeasuredPoly, ClaimStands, BuildersAreEarly, Goto
<1>1. ASSUME NEW r \in Replicas, Start(r) PROVE IInv'
  BY <1>1 DEF Start
<1>2. ASSUME NEW r \in Replicas, Check(r) PROVE IInv'
  BY <1>2 DEF Check, ShouldBuild
<1>3. ASSUME NEW r \in Replicas, Lock(r) PROVE IInv'
  BY <1>3 DEF Lock, LockPoly
<1>4. ASSUME NEW r \in Replicas, Benchmark(r) PROVE IInv'
  BY <1>4 DEF Benchmark
<1>5. ASSUME NEW r \in Replicas, Publish(r) PROVE IInv'
  BY <1>5 DEF Publish, SetRedisPoly
<1>6. ASSUME NEW r \in Replicas, Poll(r) PROVE IInv'
  BY <1>6 DEF Poll, ReadPoly
<1>7. ASSUME NEW r \in Replicas, PollAgain(r) PROVE IInv'
  BY <1>7 DEF PollAgain
<1>8. ASSUME NEW r \in Replicas, GiveUp(r) PROVE IInv'
  BY <1>8 DEF GiveUp
<1>9. ASSUME NEW r \in Replicas, DistributedError(r) PROVE IInv'
  BY <1>9 DEF DistributedError, LockPoly, SetRedisPoly
<1>10. ASSUME NEW r \in Replicas, LocalPoly(r) PROVE IInv'
  BY <1>10 DEF LocalPoly
<1>11. ASSUME NEW r \in Replicas, Apply(r) PROVE IInv'
  BY <1>11 DEF Apply
<1>12. ASSUME NEW r \in Replicas, Die(r) PROVE IInv'
  BY <1>12 DEF Die
<1>13. ASSUME NEW r \in Replicas, Restart(r) PROVE IInv'
  BY <1>13 DEF Restart
<1>14. CASE Expire
  BY <1>14 DEF Expire
<1>15. CASE UNCHANGED vars
  BY <1>15 DEF vars
<1> QED
  BY <1>1, <1>2, <1>3, <1>4, <1>5, <1>6, <1>7, <1>8, <1>9, <1>10, <1>11, <1>12,
     <1>13, <1>14, <1>15 DEF Next, Step, Finished

LEMMA Invariance == Spec => []IInv
BY InitInv, StepInv, PTL DEF Spec

\* Every variable stays in its set.  This already needs HoldsMeasuredPoly: a
\* publication writes what the replica holds (limits.py:78-79).
THEOREM TypeCorrect == Spec => []TypeOK
<1>1. IInv => TypeOK
  BY DEF IInv
<1> QED BY <1>1, Invariance, PTL

\* No container is limited by anything but a measured polynomial
\* (limits.py:45-47, 96, 124).
THEOREM AppliedIsMeasured == Spec => []AppliesMeasuredPoly
<1>1. IInv => AppliesMeasuredPoly
  BY DEF IInv, HoldsMeasuredPoly, AppliesMeasuredPoly
<1> QED BY <1>1, Invariance, PTL

\* However many replicas a host runs, one whose GET comes after the first claim
\* never benchmarks while nothing fails, times out or expires (limits.py:56-63).
THEOREM LateReplicasWait == Spec => []NoLateBenchmark
<1>1. IInv => NoLateBenchmark
  BY DEF IInv, BuildersAreEarly, NoLateBenchmark, Benchmarking
<1> QED BY <1>1, Invariance, PTL

\* No step of any replica turns published coefficients back into a claim
\* (limits.py:63).
THEOREM PublicationIsKept == Spec => PublishedSurvives
<1>1. IInv /\ IInv' /\ [Next]_vars
        => [(key \in Polys) => (key' # Placeholder)]_vars
  <2> SUFFICES ASSUME IInv, Next, key \in Polys PROVE key' # Placeholder
    BY NamesAssumption DEF vars, IInv
  <2> USE NamesAssumption DEF IInv, TypeOK, HoldsMeasuredPoly
  <2>1. ASSUME NEW r \in Replicas, Step(r) PROVE key' # Placeholder
    BY <2>1 DEF Step, Start, Check, Lock, LockPoly, Benchmark, Publish,
                SetRedisPoly, Poll, PollAgain, GiveUp, LocalPoly, Apply, Goto
  <2>2. ASSUME NEW r \in Replicas, DistributedError(r) \/ Die(r) \/ Restart(r)
        PROVE  key' # Placeholder
    BY <2>2 DEF DistributedError, LockPoly, SetRedisPoly, Die, Restart, Goto
  <2>3. CASE Expire
    BY <2>3 DEF Expire
  <2>4. CASE Finished
    BY <2>4 DEF Finished, vars
  <2> QED BY <2>1, <2>2, <2>3, <2>4 DEF Next
<1> QED BY <1>1, Invariance, PTL DEF Spec, PublishedSurvives
=============================================================================

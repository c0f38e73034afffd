---------------------------- MODULE MCCpuLimits ----------------------------
\* Instances of CpuLimits for TLC.  Replicas are interchangeable: the run
\* with a safety property only uses the symmetry, the one with liveness does not.
EXTENDS CpuLimits, TLC

Symmetry == Permutations(Replicas)
=============================================================================

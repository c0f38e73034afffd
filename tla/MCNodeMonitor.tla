---------------------------- MODULE MCNodeMonitor ----------------------------
\* Instances of NodeMonitor for TLC.
EXTENDS NodeMonitor, TLC
=============================================================================

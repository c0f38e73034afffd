--------------------------- MODULE MCSystemMonitor ---------------------------
\* Instances of SystemMonitor for TLC.
EXTENDS SystemMonitor, TLC
=============================================================================

--------------------------- MODULE MCPacketMonitor ---------------------------
\* Instances of PacketMonitor for TLC.
EXTENDS PacketMonitor, TLC
=============================================================================

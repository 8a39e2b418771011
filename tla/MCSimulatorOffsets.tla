--------------------------- MODULE MCSimulatorOffsets ---------------------------
EXTENDS SimulatorOffsets, TLC

CONSTANTS p1, p2, d1, d2

\* Both deliveries have their key on the same partition.
OneHome == [d \in Deliveries |-> p1]
=============================================================================

------------------------------- MODULE MCOutbox -------------------------------
EXTENDS Outbox, TLC

CONSTANTS p1, p2, k1, aggregate

MCKeyOf == [e \in Events |-> aggregate]

Symmetry == Permutations(Publishers)
=============================================================================

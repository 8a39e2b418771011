----------------------------- MODULE MCDlqRecovery -----------------------------
EXTENDS DlqRecovery, TLC

CONSTANTS position, delivery, op1, op2, k1, k2, c1, c2, p1

MCHome == [m \in Payloads |-> IF m = delivery THEN "created" ELSE "telemetry"]

Symmetry == Permutations(Operators) \cup Permutations(Keys) \cup Permutations(Clients)
=============================================================================

---------------------------- MODULE MCDeliveryAlerts ----------------------------
EXTENDS DeliveryAlerts, TLC

CONSTANTS a1, a2, op1, op2, k1, k2, c1, c2, t1, t2

Symmetry ==
    Permutations(Alerts) \cup Permutations(Operators) \cup Permutations(Keys)
        \cup Permutations(Clients) \cup Permutations(Consumers)
=============================================================================

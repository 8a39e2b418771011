------------------------------ MODULE MCWarehouse ------------------------------
EXTENDS Warehouse, TLC

CONSTANTS s1, s2, k1, k2, k3, r1, r2, c1, c2

Symmetry ==
    Permutations(Stocks) \cup Permutations(Keys) \cup Permutations(DispatchKeys)
        \cup Permutations(Clients)
=============================================================================

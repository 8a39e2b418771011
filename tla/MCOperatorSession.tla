------------------------- MODULE MCOperatorSession -------------------------
(* Two logins and a session of an older release, two requests in flight.   *)
EXTENDS OperatorSession, TLC

CONSTANTS a1, a2, s1, s2

Symmetry == Permutations(Attempts) \cup Permutations(Slots)
=============================================================================

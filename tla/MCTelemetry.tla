------------------------------ MODULE MCTelemetry ------------------------------
EXTENDS Telemetry, TLC

CONSTANTS moving, detour, done, redone, broken, i1, i2

\* Two positions with the same progress, a completion, a second completion under
\* another id (a repeated simulation), and an event for the wrong vehicle.
MCEventOf ==
    moving :> [valid |-> TRUE, at |-> 1, progress |-> 1]
    @@ detour :> [valid |-> TRUE, at |-> 2, progress |-> 1]
    @@ done :> [valid |-> TRUE, at |-> 3, progress |-> 2]
    @@ redone :> [valid |-> TRUE, at |-> 4, progress |-> 2]
    @@ broken :> [valid |-> FALSE, at |-> 2, progress |-> 1]

Symmetry == Permutations(Instances)
=============================================================================

---------------------------- MODULE MCConsoleSync ----------------------------
(* A console with two deliveries, and over small inputs what its lists     *)
(* make of them and of the alerts.                                         *)
EXTENDS ConsoleSync, FleetView, AlertList, TLC

CONSTANTS d1, d2

Symmetry == Permutations(Deliveries)

SomeAlerts ==
    [delay : {FALSE}, critical : BOOLEAN, active : BOOLEAN,
     occurrenceCount : {1, 2}, excess : {0}, firstObservedAt : {0},
     lastObservedAt : {1, 2}, resolvedAt : {Missing, 3}, acknowledgedAt : {Missing, 2}]

Lists == SeqOf(Deliveries, 3)

(* The comparator over these alerts, as ComparatorConsistent states it for *)
(* all.                                                                    *)
ASSUME ComparatorOnSamples ==
    \A sort \in {"PRIORITY", "RECENT", "FREQUENT"} : \A x, y, z \in SomeAlerts :
        /\ ~(Before(sort, x, y) /\ Before(sort, y, x))
        /\ ~Before(sort, x, y) /\ ~Before(sort, y, z) => ~Before(sort, x, z)

(* The selection moves to the first listed delivery with a route.          *)
ASSUME SelectionOnSamples ==
    \A list \in Lists, selected \in Deliveries, routed \in SUBSET Deliveries :
        LET chosen == Selection(list, selected, routed)
        IN  /\ list # <<>> => chosen \in ToSet(list)
            /\ chosen # selected /\ ToSet(list) \cap routed # {} => chosen \in routed

(* What is paged stays between one page and the list, and the last page    *)
(* shows all of it.                                                        *)
ASSUME PagesOnSamples ==
    \A length \in 0 .. 20, count \in 3 .. 20 :
        LET kept == KeepCount(count, 3, length)
        IN  kept >= 3 /\ kept <= count
            /\ (NextPage(kept, 3, length) < length => NextPage(kept, 3, length) = kept + 3)

(* A vehicle that progresses is never drawn further back.                  *)
ASSUME TrackOnSamples ==
    \A n \in 1 .. 6, done \in 0 .. 9 :
        Reached(n, done, 10) <= Reached(n, done + 1, 10) /\ Reached(n, 10, 10) = n
=============================================================================

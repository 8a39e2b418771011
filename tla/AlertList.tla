----------------------------- MODULE AlertList -----------------------------
(***************************************************************************)
(* Which alerts the console lists, and in which order:                     *)
(* AlertOperationsPanel.tsx:26-97.  The texts, and what a query finds in   *)
(* them, are left out: found are the alerts the query leaves.              *)
(***************************************************************************)
EXTENDS Integers, Sequences

CONSTANT Missing      \* a time an alert does not have

ASSUME MissingIsNoTime == Missing \notin Int

(* DeliveryAlert of types.ts.  excess is the place of its                  *)
(* alertExceedanceRatio in the order of these ratios.                      *)
Alert ==
    [delay : BOOLEAN, critical : BOOLEAN, active : BOOLEAN,
     occurrenceCount : Int, excess : Int,
     firstObservedAt : Int, lastObservedAt : Int,
     resolvedAt : Int \cup {Missing}, acknowledgedAt : Int \cup {Missing}]

Sorts == {"PRIORITY", "RECENT", "LONGEST", "FREQUENT", "EXCEEDANCE"}

Acknowledged(a) == a.acknowledgedAt # Missing
Flag(b) == IF b THEN 1 ELSE 0

(* The filters of the panel.                                               *)
Matches(a, f) ==
    /\ f.scope = "ALL" \/ a.active
    /\ f.severity = "ALL" \/ a.critical = (f.severity = "CRITICAL")
    /\ f.alertType = "ALL" \/ a.delay = (f.alertType = "DELAY")
    /\ f.acknowledgement = "ALL" \/ Acknowledged(a) = (f.acknowledgement = "ACKNOWLEDGED")
    /\ f.occurrence = "ALL" \/ a.occurrenceCount > 1

Scoped(alerts, f, found) == {a \in alerts \cap found : Matches(a, f)}
-----------------------------------------------------------------------------
(* The comparator of the list: negative when l comes first.  Each order    *)
(* that finds no difference leaves it to the priority.                     *)
Closed(a) == IF a.resolvedAt # Missing THEN a.resolvedAt ELSE a.lastObservedAt
Duration(a) == a.lastObservedAt - a.firstObservedAt

BySeverity(l, r) ==
    LET severity == Flag(~l.critical) - Flag(~r.critical)
    IN  IF severity # 0 THEN severity ELSE r.lastObservedAt - l.lastObservedAt

ByAcknowledgement(l, r) ==
    LET acknowledgement == Flag(Acknowledged(l)) - Flag(Acknowledged(r))
    IN  IF acknowledgement # 0 THEN acknowledgement
        ELSE IF Acknowledged(l) /\ l.acknowledgedAt # r.acknowledgedAt
        THEN r.acknowledgedAt - l.acknowledgedAt
        ELSE BySeverity(l, r)

ByPriority(l, r) ==
    LET status == Flag(~l.active) - Flag(~r.active)
    IN  IF status # 0 THEN status
        ELSE IF ~l.active /\ Closed(l) # Closed(r) THEN Closed(r) - Closed(l)
        ELSE ByAcknowledgement(l, r)

Compare(sort, l, r) ==
    CASE sort = "RECENT" -> r.lastObservedAt - l.lastObservedAt
      [] sort = "FREQUENT" /\ l.occurrenceCount # r.occurrenceCount ->
             r.occurrenceCount - l.occurrenceCount
      [] sort = "EXCEEDANCE" /\ l.excess # r.excess -> r.excess - l.excess
      [] sort = "LONGEST" /\ Duration(l) # Duration(r) -> Duration(r) - Duration(l)
      [] OTHER -> ByPriority(l, r)

Before(sort, l, r) == Compare(sort, l, r) < 0

(* A list the comparator has sorted.                                       *)
SortedBy(sort, list) ==
    \A i, j \in DOMAIN list : i < j => ~Before(sort, list[j], list[i])

(* What an operator must see first.                                        *)
Urgent(a) == a.active /\ ~Acknowledged(a) /\ a.critical
=============================================================================

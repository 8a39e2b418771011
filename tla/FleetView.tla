----------------------------- MODULE FleetView -----------------------------
(***************************************************************************)
(* What the console makes of its deliveries: which are overdue or have a   *)
(* stale position, which a scope shows, which of them fit the map and the  *)
(* list, what is selected, and the line a vehicle has travelled.           *)
(* page.tsx:102-123, FleetTelemetryPanel.tsx, FleetMap.tsx.                *)
(*                                                                         *)
(* Times are milliseconds; a time that is missing or cannot be read is     *)
(* NoTime.  A list of deliveries is the sequence of their ids.  Labels,      *)
(* colours and how lists of one scope are sorted are left out.             *)
(***************************************************************************)
EXTENDS Integers, SequencesExt

CONSTANTS NoTime, Delivery, Time

ASSUME TimesAreMilliseconds == Time \subseteq Nat /\ NoTime \notin Time

(* Delivery, TelemetryPoint and RouteSnapshot of types.ts.                 *)
Status == {"CREATED", "IN_TRANSIT", "DELAYED", "DELIVERED"}
Row == [status : Status, eta : Time \cup {NoTime}, lastTelemetryAt : Time \cup {NoTime}]
Point == [delivery : Delivery, occurredAt : Time]
-----------------------------------------------------------------------------
(* The times a position of a delivery is known from, by its row and by the *)
(* points that have arrived; the latest of them says how fresh it is.      *)
Heard(id, row, telemetry) ==
    ({row.lastTelemetryAt} \cup
     {telemetry[i].occurredAt : i \in {j \in DOMAIN telemetry : telemetry[j].delivery = id}})
    \ {NoTime}

Live(row) == row.status # "DELIVERED"

(* The console counts 300 000 ms from a clock it reads every 30 seconds.   *)
Stale(id, row, telemetry, freshnessNow) ==
    Live(row) /\ \A t \in Heard(id, row, telemetry) : freshnessNow - t >= 300000

(* The list and the map count whole minutes from the moment they render.   *)
AgeMinutes(t, now) == (IF now > t THEN now - t ELSE 0) \div 60000
Freshness(id, row, telemetry, now) ==
    [stale |-> \A t \in Heard(id, row, telemetry) : AgeMinutes(t, now) >= 5]

Overdue(row, now) == Live(row) /\ row.eta # NoTime /\ row.eta < now

(* deliveryTiming of the list.                                             *)
Timing(row, now) ==
    [label |-> IF ~Live(row) THEN "delivered"
               ELSE IF row.eta # NoTime THEN "eta" ELSE "position",
     overdue |-> Overdue(row, now)]
-----------------------------------------------------------------------------
(* Whether a scope shows a delivery; alerts are the deliveries that have   *)
(* an active one.                                                          *)
Attention(id, row, alerts, now) == id \in alerts \/ Overdue(row, now)

InScope(scope, id, row, telemetry, alerts, freshnessNow, now) ==
    CASE scope = "MOVING" -> Live(row) /\ ~Stale(id, row, telemetry, freshnessNow)
      [] scope = "LIVE" -> Live(row)
      [] scope = "ATTENTION" -> Live(row) /\ Attention(id, row, alerts, now)
      [] scope = "STALE" -> Stale(id, row, telemetry, freshnessNow)
      [] OTHER -> TRUE

(* The scope the console begins with, when it has rows for the first time. *)
FirstScope(rows, telemetry, freshnessNow) ==
    IF \E id \in DOMAIN rows :
           Live(rows[id]) /\ ~Stale(id, rows[id], telemetry, freshnessNow)
    THEN "MOVING"
    ELSE IF \E id \in DOMAIN rows : Live(rows[id]) THEN "LIVE" ELSE "ALL"
-----------------------------------------------------------------------------
First(list, n) == SubSeq(list, 1, IF n < Len(list) THEN n ELSE Len(list))

(* mapItems with its limit of 50, visibleDeliveries with visibleCount: the *)
(* first ones, among them the selected one wherever it is in the list.     *)
Window(list, selected, limit) ==
    LET first == First(list, limit)
    IN  IF selected \in ToSet(list) \ ToSet(first)
        THEN <<selected>> \o First(first, limit - 1)
        ELSE first

(* The effect that keeps the selection on what is shown: the first one     *)
(* with a route, or the first.                                             *)
Selection(list, selected, routes) ==
    LET routed == {i \in DOMAIN list : list[i] \in routes}
    IN  IF list = <<>> \/ selected \in ToSet(list) THEN selected
        ELSE IF routed = {} THEN list[1]
        ELSE list[CHOOSE i \in routed : \A j \in routed : i <= j]

(* focusDelivery: what the alerts, the orders and the list select.         *)
FocusDelivery(view, id, row) ==
    [view EXCEPT !.scope = IF Live(row) THEN @ ELSE "ALL",
                 !.query = "", !.selected = id]

(* visibleCount of the lists (15 vehicles, 8 alerts): the next page, and   *)
(* the effect of a list that has changed its length.                       *)
NextPage(count, step, length) == IF count + step < length THEN count + step ELSE length
KeepCount(count, step, length) ==
    LET most == IF length > step THEN length ELSE step
        kept == IF count < most THEN count ELSE most
    IN  IF kept > step THEN kept ELSE step
-----------------------------------------------------------------------------
(* routeIndex: the first route of a delivery counts.                       *)
RouteOf(routes, id, straight) ==
    LET own == {i \in DOMAIN routes : routes[i].delivery = id}
    IN  IF own = {} THEN straight
        ELSE routes[CHOOSE i \in own : \A j \in own : i <= j].coordinates

(* estimatedCoordinates: the part of the planned route that a progress of  *)
(* done of total stands for, and where the vehicle is.                     *)
Reached(n, done, total) ==
    LET ceiling == -((-(done * (n - 1))) \div total)
    IN  IF ceiling + 1 > 1 THEN ceiling + 1 ELSE 1
Travelled(route, done, total, current) ==
    Append(First(route, Reached(Len(route), done, total)), current)
=============================================================================

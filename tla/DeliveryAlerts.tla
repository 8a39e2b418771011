----------------------------- MODULE DeliveryAlerts -----------------------------
(***************************************************************************)
(* The alerts of one type for one delivery (AlertService, DeliveryAlert):  *)
(* telemetry transactions open, observe and resolve them, operators        *)
(* acknowledge them.  An operator's transaction locks the alert's row; a   *)
(* telemetry transaction reads the active alert without a lock and writes  *)
(* every column of the row it read when it commits.  Telemetry is          *)
(* serialised by the version of the delivery, which only it writes.        *)
(***************************************************************************)
EXTENDS Naturals, Sequences, FiniteSets

CONSTANTS
    Alerts,       \* identities for delivery_alerts rows
    Operators,
    Keys,         \* Idempotency-Key values of acknowledgements
    Clients,      \* acknowledgements that run at the same time
    Consumers,    \* telemetry transactions that run at the same time
    MaxReadings,  \* bound: telemetry transactions that commit
    None

ASSUME DeliveryAlertsAssumption ==
    /\ MaxReadings \in Nat
    /\ None \notin Alerts \cup Operators \cup Keys

VARIABLES
    alert,     \* alert[a]: committed row [status, severity, by, key]
    version,   \* version of the delivery
    reading,   \* reading[t]: what telemetry transaction t has read
    request,   \* request[c]: what client c's acknowledgement is doing
    alertEvents \* alertEvents[a]: actions of the delivery.alert.v1 events, in commit order

alertVars == <<alert, version, reading, request, alertEvents>>

\* by and key are acknowledged_by and acknowledgement_request_key
AlertRow == [status : {"NONE", "ACTIVE", "RESOLVED"}, severity : {"WARNING", "CRITICAL"},
             by : Operators \cup {None}, key : Keys \cup {None}]

NoAlert == [status |-> "NONE", severity |-> "WARNING", by |-> None, key |-> None]

\* What a position says under the vehicle's policy: at or above the open (and
\* the critical) threshold, between close and open, or at most the close one.
Measures == {"critical", "open", "between", "close"}

Reading == [measure : Measures \cup {None}, of : Alerts \cup {None}, seen : AlertRow, version : Nat]

NoReading == [measure |-> None, of |-> None, seen |-> NoAlert, version |-> 0]

Request == [stage : {"idle", "received", "keyed", "locked"}, alert : Alerts \cup {None},
            by : Operators \cup {None}, key : Keys \cup {None}]

Idle == [stage |-> "idle", alert |-> None, by |-> None, key |-> None]

Actions == {"OPENED", "ESCALATED", "ACKNOWLEDGED", "RESOLVED"}

AlertTypeOK ==
    /\ alert \in [Alerts -> AlertRow]
    /\ version \in 0..MaxReadings
    /\ reading \in [Consumers -> Reading]
    /\ request \in [Clients -> Request]
    /\ alertEvents \in [Alerts -> Seq(Actions)]

AlertInit ==
    /\ alert = [a \in Alerts |-> NoAlert]
    /\ version = 0
    /\ reading = [t \in Consumers |-> NoReading]
    /\ request = [c \in Clients |-> Idle]
    /\ alertEvents = [a \in Alerts |-> <<>>]

Active == {a \in Alerts : alert[a].status = "ACTIVE"}

\* Row lock of findByIdForUpdate.
RowLocked(a) == \E c \in Clients : request[c].stage = "locked" /\ request[c].alert = a

\* pg_advisory_xact_lock('alert-acknowledgement:' || key) of another transaction.
KeyLocked(c) ==
    \E b \in Clients \ {c} : request[b].stage \in {"keyed", "locked"}
                             /\ request[b].key = request[c].key /\ request[c].key # None

Emit(a, action) == alertEvents' = [alertEvents EXCEPT ![a] = Append(@, action)]

-----------------------------------------------------------------------------
\* reconcile reads the active alert, if there is one.
Evaluate(t, m) ==
    /\ version < MaxReadings
    /\ reading[t] = NoReading
    /\ reading' = [reading EXCEPT ![t] =
          IF Active = {}
          THEN [measure |-> m, of |-> None, seen |-> NoAlert, version |-> version]
          ELSE LET a == CHOOSE x \in Active : TRUE
               IN  [measure |-> m, of |-> a, seen |-> alert[a], version |-> version]]
    /\ UNCHANGED <<alert, version, request, alertEvents>>

\* A new alert, when none was active; the partial unique index allows one.
Open(r) ==
    /\ r.of = None
    /\ r.measure \in {"critical", "open"}
    /\ Active = {}
    /\ \E a \in Alerts :
          /\ alert[a] = NoAlert
          /\ alert' = [alert EXCEPT ![a] = [NoAlert EXCEPT !.status = "ACTIVE",
                !.severity = IF r.measure = "critical" THEN "CRITICAL" ELSE "WARNING"]]
          /\ Emit(a, "OPENED")

\* The alert goes on: its severity only rises.
Observe(r) ==
    /\ r.of # None
    /\ r.measure \in {"critical", "open"}
    /\ ~RowLocked(r.of)
    /\ IF r.measure = "critical" /\ r.seen.severity = "WARNING"
       THEN /\ alert' = [alert EXCEPT ![r.of] = [r.seen EXCEPT !.severity = "CRITICAL"]]
            /\ Emit(r.of, "ESCALATED")
       ELSE /\ alert' = [alert EXCEPT ![r.of] = r.seen]
            /\ UNCHANGED alertEvents

Resolve(r) ==
    /\ r.of # None
    /\ r.measure = "close"
    /\ ~RowLocked(r.of)
    /\ alert' = [alert EXCEPT ![r.of] = [r.seen EXCEPT !.status = "RESOLVED"]]
    /\ Emit(r.of, "RESOLVED")

\* Nothing to open, nothing to close: no row is written.
LeaveAlone(r) ==
    /\ r.measure = "between" \/ (r.measure = "close" /\ r.of = None)
    /\ UNCHANGED <<alert, alertEvents>>

\* Fault: the delivery has no version, two telemetry transactions both commit.
CommitUnversioned(t) ==
    /\ reading[t] # NoReading
    /\ LET r == reading[t]
       IN  Open(r) \/ Observe(r) \/ Resolve(r) \/ LeaveAlone(r)
    /\ version < MaxReadings
    /\ version' = version + 1
    /\ reading' = [reading EXCEPT ![t] = NoReading]
    /\ UNCHANGED request

\* The telemetry transaction commits, if the delivery still has the version it
\* read: alert, outbox event and delivery together.
CommitReading(t) ==
    /\ reading[t] # NoReading
    /\ reading[t].version = version
    /\ LET r == reading[t]
       IN  Open(r) \/ Observe(r) \/ Resolve(r) \/ LeaveAlone(r)
    /\ version' = version + 1
    /\ reading' = [reading EXCEPT ![t] = NoReading]
    /\ UNCHANGED request

\* It is rolled back: a version conflict or a failure.
AbandonReading(t) ==
    /\ reading[t] # NoReading
    /\ reading' = [reading EXCEPT ![t] = NoReading]
    /\ UNCHANGED <<alert, version, request, alertEvents>>

-----------------------------------------------------------------------------
Finish(c) == request' = [request EXCEPT ![c] = Idle]

Advance(c, stage) == request' = [request EXCEPT ![c].stage = stage]

\* POST /alerts/{id}/acknowledgement; without a key before V40.
Receive(c, a, op, k) ==
    /\ request[c].stage = "idle"
    /\ alert[a] # NoAlert
    /\ request' = [request EXCEPT ![c] = [stage |-> "received", alert |-> a, by |-> op, key |-> k]]
    /\ UNCHANGED <<alert, version, reading, alertEvents>>

\* Lock the key and look it up: whatever the answer for a known key is, a result
\* or a conflict, nothing is written.
LookUpKey(c) ==
    /\ request[c].stage = "received"
    /\ ~KeyLocked(c)
    /\ IF request[c].key # None /\ \E a \in Alerts : alert[a].key = request[c].key
       THEN Finish(c)
       ELSE Advance(c, "keyed")
    /\ UNCHANGED <<alert, version, reading, alertEvents>>

\* Fault: the alert is read without FOR UPDATE.
LockAlertNot(c) ==
    /\ request[c].stage = "keyed"
    /\ IF alert[request[c].alert].status = "ACTIVE" /\ alert[request[c].alert].by = None
       THEN Advance(c, "locked")
       ELSE Finish(c)
    /\ UNCHANGED <<alert, version, reading, alertEvents>>

\* Lock the row.  An acknowledged alert takes the key of its own operator if it
\* has none yet; a resolved one is refused.
LockAlert(c) ==
    /\ request[c].stage = "keyed"
    /\ ~RowLocked(request[c].alert)
    /\ LET r == request[c]
           row == alert[r.alert]
       IN  IF row.by = None /\ row.status = "ACTIVE"
           THEN Advance(c, "locked") /\ UNCHANGED alert
           ELSE /\ Finish(c)
                /\ alert' = IF row.by = r.by /\ row.key = None
                            THEN [alert EXCEPT ![r.alert].key = r.key]
                            ELSE alert
    /\ UNCHANGED <<version, reading, alertEvents>>

\* The acknowledgement and its event are committed.
Acknowledge(c) ==
    /\ request[c].stage = "locked"
    /\ LET r == request[c]
       IN  /\ alert' = [alert EXCEPT ![r.alert] = [@ EXCEPT !.by = r.by, !.key = r.key]]
           /\ Emit(r.alert, "ACKNOWLEDGED")
    /\ Finish(c)
    /\ UNCHANGED <<version, reading>>

RollBack(c) ==
    /\ request[c].stage # "idle"
    /\ Finish(c)
    /\ UNCHANGED <<alert, version, reading, alertEvents>>

AlertNext ==
    \/ \E t \in Consumers :
          \/ \E m \in Measures : Evaluate(t, m)
          \/ CommitReading(t) \/ AbandonReading(t)
    \/ \E c \in Clients :
          \/ \E a \in Alerts, op \in Operators, k \in Keys \cup {None} : Receive(c, a, op, k)
          \/ LookUpKey(c) \/ LockAlert(c) \/ Acknowledge(c) \/ RollBack(c)

AlertSpec == AlertInit /\ [][AlertNext]_alertVars

-----------------------------------------------------------------------------
Times(a, action) == Cardinality({n \in DOMAIN alertEvents[a] : alertEvents[a][n] = action})

\* The events tell the life of an alert: it is opened once and first, escalated
\* once at most, resolved once and last; it is resolved and critical exactly when
\* its events said so, and one alert at most is active.
LifeIsAnnounced ==
    /\ Cardinality(Active) <= 1
    /\ \A a \in Alerts : alert[a] # NoAlert =>
          LET events == alertEvents[a]
          IN  /\ Times(a, "OPENED") = 1 /\ events[1] = "OPENED"
              /\ Times(a, "ESCALATED") <= 1
              /\ Times(a, "ESCALATED") = 1 => alert[a].severity = "CRITICAL"
              /\ Times(a, "RESOLVED") = IF alert[a].status = "RESOLVED" THEN 1 ELSE 0
              /\ alert[a].status = "RESOLVED" => events[Len(events)] = "RESOLVED"

\* Two operators who acknowledge an alert together do not replace each other: no
\* step changes one operator's name, or the key it came with, for another one.
NeverReplaced ==
    [][\A a \in Alerts : alert[a].by # None /\ alert'[a].by # None =>
          /\ alert'[a].by = alert[a].by
          /\ alert'[a].key \in {alert[a].key, None} \/ alert[a].key = None]_alertVars

\* docs/architecture.md: the acknowledgement is recorded once, and even concurrent
\* requests make one audit event only.
AcknowledgedOnce == \A a \in Alerts : Times(a, "ACKNOWLEDGED") <= 1
=============================================================================

----------------------------- MODULE OrderDispatch -----------------------------
(***************************************************************************)
(* Orders and the deliveries they are dispatched to (OrderService,         *)
(* DeliveryService): concurrent API requests with idempotency keys, the    *)
(* locks their transactions take one after the other, the unique indexes   *)
(* behind the locks, and the telemetry transaction that completes a        *)
(* delivery and fulfils its order without locking the order's row.         *)
(*                                                                         *)
(* A request is a transaction of several steps.  What it writes becomes    *)
(* visible when it commits, in its last step; until then it only holds     *)
(* locks.  A lock is held exactly in the stages that follow its step, so   *)
(* the locks are read off the stages of the requests.                      *)
(***************************************************************************)
EXTENDS Naturals, FiniteSets

CONSTANTS
    Orders, Vehicles, Keys, Clients,
    Deliveries,   \* identities for delivery rows
    LegacyOrders, \* orders dispatched before V44, whose request key is null
    None

\* The legacy orders have deliveries of their own (uq_deliveries_order_id).
ASSUME DispatchAssumption ==
    /\ LegacyOrders \subseteq Orders
    /\ None \notin Orders \cup Vehicles \cup Keys \cup Deliveries
    /\ \E f \in [LegacyOrders -> Deliveries] :
          \A o, n \in LegacyOrders : f[o] = f[n] => o = n

VARIABLES
    order,     \* order[o]: the committed row [status, key]
    delivery,  \* delivery[d]: the committed row [status, order, vehicle, key]
    request,   \* request[c]: what client c's transaction is doing
    telemetry, \* telemetry[d]: the completing transaction and the order row it read
    announced, \* announced[o]: outbox events committed for o, by kind
    granted    \* history: dispatches answered with success

vars == <<order, delivery, request, telemetry, announced, granted>>

OrderRow == [status : {"NONE", "READY", "DISPATCHED", "FULFILLED"}, key : Keys \cup {None}]

DeliveryRow == [status : {"NONE", "ACTIVE", "DELIVERED"}, order : Orders \cup {None},
                vehicle : Vehicles \cup {None}, key : Keys \cup {None}]

Dispatch == [order : Orders, vehicle : Vehicles, key : Keys]

Request == [stage : {"idle", "received", "keyed", "locked", "routing"},
            order : Orders \cup {None}, vehicle : Vehicles \cup {None},
            key : Keys \cup {None}]

Idle == [stage |-> "idle", order |-> None, vehicle |-> None, key |-> None]

NoDelivery == [status |-> "NONE", order |-> None, vehicle |-> None, key |-> None]

TypeOK ==
    /\ order \in [Orders -> OrderRow]
    /\ delivery \in [Deliveries -> DeliveryRow]
    /\ request \in [Clients -> Request]
    /\ telemetry \in [Deliveries -> [open : BOOLEAN, seen : OrderRow]]
    /\ announced \in [Orders -> [dispatched : Nat, fulfilled : Nat]]
    /\ granted \in SUBSET Dispatch

NotRead == [open |-> FALSE, seen |-> [status |-> "NONE", key |-> None]]

\* The deliveries of LegacyOrders: any that differ do.
LegacyDelivery == CHOOSE f \in [LegacyOrders -> Deliveries] :
    \A o, n \in LegacyOrders : f[o] = f[n] => o = n

\* Orders dispatched before V44 have their delivery and no request key.
Init ==
    /\ \E v \in Vehicles : delivery = [d \in Deliveries |->
          LET own == {o \in LegacyOrders : LegacyDelivery[o] = d}
          IN  IF own = {} THEN NoDelivery
              ELSE [status |-> "ACTIVE", order |-> CHOOSE o \in own : TRUE,
                    vehicle |-> v, key |-> None]]
    /\ order = [o \in Orders |->
          [status |-> IF o \in LegacyOrders THEN "DISPATCHED" ELSE "NONE", key |-> None]]
    /\ request = [c \in Clients |-> Idle]
    /\ telemetry = [d \in Deliveries |-> NotRead]
    /\ announced = [o \in Orders |->
          [dispatched |-> IF o \in LegacyOrders THEN 1 ELSE 0, fulfilled |-> 0]]
    /\ granted = {}

-----------------------------------------------------------------------------
\* Rows and locks

Rows == {d \in Deliveries : delivery[d].status # "NONE"}

LinkedTo(o) == {d \in Rows : delivery[d].order = o}

KeyedBy(k) == {d \in Rows : delivery[d].key = k}

BoundTo(k) == {o \in Orders : order[o].key = k}

\* pg_advisory_xact_lock('order-dispatch:' || key) of another transaction.
DispatchKeyLocked(c) ==
    \E b \in Clients \ {c} :
        /\ request[b].order # None
        /\ request[b].stage \in {"keyed", "locked", "routing"}
        /\ request[b].key = request[c].key

\* Row lock on the order, taken by findForUpdateById.
OrderLocked(o) ==
    \E b \in Clients : request[b].order = o /\ request[b].stage \in {"locked", "routing"}

\* Fault: create() waits for a lock that its own transaction took on entry.
DeliveryKeyLockedEarly(k) ==
    \E b \in Clients : request[b].stage \in {"locked", "routing"} /\ request[b].key = k

\* pg_advisory_xact_lock(key) of a transaction that is creating a delivery.
DeliveryKeyLocked(k) ==
    \E b \in Clients : request[b].stage = "routing" /\ request[b].key = k

Finish(c) == request' = [request EXCEPT ![c] = Idle]

Advance(c, stage) == request' = [request EXCEPT ![c].stage = stage]

-----------------------------------------------------------------------------
\* POST /orders: the key's lock makes the lookup and the insert one step, and a
\* repeated key finds the order.
CreateOrder(o) ==
    /\ order[o].status = "NONE"
    /\ order' = [order EXCEPT ![o].status = "READY"]
    /\ UNCHANGED <<delivery, request, telemetry, announced, granted>>

\* POST /orders/{id}/dispatch, or POST /deliveries when there is no order.
Receive(c, o, v, k) ==
    /\ request[c].stage = "idle"
    /\ request' = [request EXCEPT ![c] =
          [stage |-> IF o = None THEN "locked" ELSE "received",
           order |-> o, vehicle |-> v, key |-> k]]
    /\ UNCHANGED <<order, delivery, telemetry, announced, granted>>

\* Fault: the prior dispatch of the key is not compared with the request.
LookUpKeyOnly(c) ==
    /\ request[c].stage = "received"
    /\ ~DispatchKeyLocked(c)
    /\ LET r == request[c]
       IN  IF BoundTo(r.key) # {}
           THEN /\ Finish(c)
                /\ granted' = granted \cup {[order |-> r.order, vehicle |-> r.vehicle, key |-> r.key]}
           ELSE Advance(c, "keyed") /\ UNCHANGED granted
    /\ UNCHANGED <<order, delivery, telemetry, announced>>

\* Lock the dispatch key and look for the order it was used for: the same order
\* and vehicle are answered again, anything else is a conflict.
LookUpKey(c) ==
    /\ request[c].stage = "received"
    /\ ~DispatchKeyLocked(c)
    /\ LET r == request[c]
       IN  IF BoundTo(r.key) = {}
           THEN Advance(c, "keyed") /\ UNCHANGED granted
           ELSE /\ Finish(c)
                /\ granted' = granted \cup
                      {[order |-> r.order, vehicle |-> r.vehicle, key |-> r.key] :
                          d \in {x \in LinkedTo(r.order) :
                                    /\ r.order \in BoundTo(r.key)
                                    /\ delivery[x].vehicle = r.vehicle}}
    /\ UNCHANGED <<order, delivery, telemetry, announced>>

\* Lock the order's row.  A dispatched order whose request key is still null is
\* bound to this key (bindDispatchRequestKey); its own key is answered again.
LockOrder(c) ==
    /\ request[c].stage = "keyed"
    /\ LET r == request[c]
       IN  /\ ~OrderLocked(r.order)
           /\ \/ /\ LinkedTo(r.order) = {}
                 /\ IF order[r.order].status = "READY" THEN Advance(c, "locked") ELSE Finish(c)
                 /\ UNCHANGED <<order, granted>>
              \/ /\ LinkedTo(r.order) # {}
                 /\ Finish(c)
                 /\ IF /\ \A d \in LinkedTo(r.order) : delivery[d].vehicle = r.vehicle
                       /\ \/ order[r.order].key = r.key
                          \/ order[r.order].key = None /\ order[r.order].status = "DISPATCHED"
                    THEN /\ order' = [order EXCEPT ![r.order].key = r.key]
                         /\ granted' = granted \cup
                               {[order |-> r.order, vehicle |-> r.vehicle, key |-> r.key]}
                    ELSE UNCHANGED <<order, granted>>
    /\ UNCHANGED <<delivery, telemetry, announced>>

\* Fault: the delivery key is looked up without its lock.
LockDeliveryKeyNot(c) ==
    /\ request[c].stage = "locked"
    /\ IF KeyedBy(request[c].key) = {} THEN Advance(c, "routing") ELSE Finish(c)
    /\ UNCHANGED <<order, delivery, telemetry, announced, granted>>

\* createForOrder / create: lock the delivery key and look for its delivery.  A
\* key that already has one is a conflict, or for a direct request the answer;
\* otherwise the route is analysed while every lock is held.
LockDeliveryKey(c) ==
    /\ request[c].stage = "locked"
    /\ ~DeliveryKeyLocked(request[c].key)
    /\ IF KeyedBy(request[c].key) = {} THEN Advance(c, "routing") ELSE Finish(c)
    /\ UNCHANGED <<order, delivery, telemetry, announced, granted>>

\* uq_deliveries_order_id, deliveries.idempotency_key, uq_orders_dispatch_request
UniqueIndexesAllow(r) ==
    /\ KeyedBy(r.key) = {}
    /\ r.order # None => LinkedTo(r.order) = {} /\ BoundTo(r.key) = {}

\* The id of the next delivery; which of the free ones it is makes no difference.
NextId ==
    LET free == {d \in Deliveries : delivery[d] = NoDelivery}
    IN  IF free = {} THEN {} ELSE {CHOOSE d \in free : TRUE}

\* Fault: dispatched() is called without the request key.
CommitUnbound(c, d) ==
    /\ request[c].stage = "routing"
    /\ d \in NextId
    /\ LET r == request[c]
       IN  /\ UniqueIndexesAllow(r)
           /\ r.order # None
           /\ delivery' = [delivery EXCEPT ![d] =
                 [status |-> "ACTIVE", order |-> r.order, vehicle |-> r.vehicle, key |-> r.key]]
           /\ order' = [order EXCEPT ![r.order].status = "DISPATCHED"]
           /\ announced' = [announced EXCEPT ![r.order].dispatched = @ + 1]
           /\ granted' = granted \cup
                 {[order |-> r.order, vehicle |-> r.vehicle, key |-> r.key]}
    /\ Finish(c)
    /\ UNCHANGED telemetry

\* Commit the delivery, its route snapshot and delivery.created event, and for a
\* dispatch the order's new state and its order.dispatched event.
Commit(c, d) ==
    /\ request[c].stage = "routing"
    /\ d \in NextId
    /\ LET r == request[c]
       IN  /\ UniqueIndexesAllow(r)
           /\ delivery' = [delivery EXCEPT ![d] =
                 [status |-> "ACTIVE", order |-> r.order, vehicle |-> r.vehicle, key |-> r.key]]
           /\ IF r.order = None
              THEN UNCHANGED <<order, announced, granted>>
              ELSE /\ order' = [order EXCEPT ![r.order] =
                         [status |-> "DISPATCHED", key |-> r.key]]
                   /\ announced' = [announced EXCEPT ![r.order].dispatched = @ + 1]
                   /\ granted' = granted \cup
                         {[order |-> r.order, vehicle |-> r.vehicle, key |-> r.key]}
    /\ Finish(c)
    /\ UNCHANGED telemetry

\* The transaction is lost: a crash, a timeout, or a unique index (HTTP 409).
RollBack(c) ==
    /\ request[c].stage # "idle"
    /\ Finish(c)
    /\ UNCHANGED <<order, delivery, telemetry, announced, granted>>

-----------------------------------------------------------------------------
\* The telemetry transaction that completes delivery d reads the order's row
\* without a lock (orders.findById in fulfillFromDelivery).
ReadOrder(d) ==
    /\ delivery[d].status = "ACTIVE"
    /\ ~telemetry[d].open
    /\ telemetry' = [telemetry EXCEPT ![d] =
          [open |-> TRUE,
           seen |-> IF delivery[d].order = None THEN NotRead.seen ELSE order[delivery[d].order]]]
    /\ UNCHANGED <<order, delivery, request, announced, granted>>

\* Fault: the order is fulfilled in a transaction of its own, which can be lost.
CompleteApart(d) ==
    /\ telemetry[d].open
    /\ delivery' = [delivery EXCEPT ![d].status = "DELIVERED"]
    /\ telemetry' = [telemetry EXCEPT ![d] = NotRead]
    /\ UNCHANGED <<order, announced, request, granted>>

\* Its commit writes every column of the order as read, but for the status: the
\* row has no version, and the update waits only for a lock held right now.
Complete(d) ==
    /\ telemetry[d].open
    /\ delivery' = [delivery EXCEPT ![d].status = "DELIVERED"]
    /\ telemetry' = [telemetry EXCEPT ![d] = NotRead]
    /\ LET o == delivery[d].order
           seen == telemetry[d].seen
       IN  IF o = None \/ seen.status = "FULFILLED"
           THEN UNCHANGED <<order, announced>>
           ELSE /\ ~OrderLocked(o)
                /\ seen.status = "DISPATCHED"
                /\ order' = [order EXCEPT ![o] = [seen EXCEPT !.status = "FULFILLED"]]
                /\ announced' = [announced EXCEPT ![o].fulfilled = @ + 1]
    /\ UNCHANGED <<request, granted>>

Step(c) ==
    \/ LookUpKey(c)
    \/ LockOrder(c)
    \/ LockDeliveryKey(c)
    \/ \E d \in Deliveries : Commit(c, d)

Next ==
    \/ \E o \in Orders : CreateOrder(o)
    \/ \E c \in Clients, v \in Vehicles, k \in Keys :
          \E o \in Orders \cup {None} : Receive(c, o, v, k)
    \/ \E c \in Clients : Step(c) \/ RollBack(c)
    \/ \E d \in Deliveries : ReadOrder(d) \/ Complete(d)

Spec == Init /\ [][Next]_vars

\* Postgres serves the waiters of a lock in turn, so a transaction that waits for
\* a lock which is released again and again gets it (strong fairness); analyze()
\* is bounded by its timeouts, so a transaction that has its locks commits.
Fairness == \A c \in Clients : SF_vars(Step(c))

FairSpec == Spec /\ Fairness

-----------------------------------------------------------------------------
\* Orders, deliveries and their announcements never disagree: a dispatched order
\* has exactly one delivery, a fulfilled one a delivered delivery and the other
\* way round, and each transition was announced once (ADR 0010: the two states
\* are never committed apart).
StatesAgree ==
    \A o \in Orders :
        LET linked == LinkedTo(o)
            done == {d \in linked : delivery[d].status = "DELIVERED"}
        IN  /\ Cardinality(linked) =
                   IF order[o].status \in {"DISPATCHED", "FULFILLED"} THEN 1 ELSE 0
            /\ (done # {}) <=> (order[o].status = "FULFILLED")
            /\ announced[o] = [dispatched |-> Cardinality(linked), fulfilled |-> Cardinality(done)]

\* What the completing transaction can do to an order dispatched before V44: it
\* read the row before a repeated dispatch bound it to its key, and writes the
\* key back as null (docs/progress.md:631 says it is kept).
BindingLost(o) == o \in LegacyOrders /\ order[o] = [status |-> "FULFILLED", key |-> None]

\* A request key stands for one command: whatever is retried, raced or reused,
\* two dispatches answered with success under one key are the same dispatch, and
\* an order is only ever dispatched to one vehicle.
OneCommandPerKey ==
    \A g, h \in granted :
        /\ g.key = h.key => g = h \/ BindingLost(g.order) \/ BindingLost(h.order)
        /\ g.order = h.order => g.vehicle = h.vehicle

\* The advisory and row locks serialise everything the unique indexes would
\* refuse: no transaction that is on its way to commit will be turned away by one.
LocksSuffice ==
    \A c \in Clients : request[c].stage = "routing" => UniqueIndexesAllow(request[c])

\* The dispatch key stays bound to the order through every later write of the
\* order's row, so a client that lost the answer can ask again.
KeyBindingKept ==
    \A g \in granted : order[g.order].key = g.key \/ BindingLost(g.order)

\* Every request is answered: the locks of dispatches and direct deliveries are
\* always taken in an order that lets one of the transactions finish.
RequestsFinish == \A c \in Clients : request[c].stage # "idle" ~> request[c].stage = "idle"
=============================================================================

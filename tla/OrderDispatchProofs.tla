------------------------- MODULE OrderDispatchProofs -------------------------
(***************************************************************************)
(* Dispatches for any clients, keys, orders and deliveries.  The locks     *)
(* keep what a transaction looked up true until it commits (LookedUp); no  *)
(* row of an order and its delivery is written apart (Linked); and what    *)
(* the completing transaction read of the order, which it does not lock,   *)
(* is still true when it writes it back, but for the binding of an order   *)
(* from before V44 (ReadStillTrue).                                        *)
(***************************************************************************)
EXTENDS OrderDispatch, FiniteSetTheorems, TLAPS

Dispatching(c) == request[c].order # None /\ request[c].stage \in {"keyed", "locked", "routing"}

Creating(c) == request[c].stage \in {"locked", "routing"}

(* A request carries its vehicle and key until it ends, and waits for the  *)
(* locks of a dispatch only if it is one.                                  *)
RequestsFormed ==
    \A c \in Clients :
        /\ request[c].stage # "idle" => request[c].vehicle \in Vehicles /\ request[c].key \in Keys
        /\ request[c].stage \in {"received", "keyed"} => request[c].order # None

(* No two transactions hold one dispatch key, one order or one delivery key. *)
LocksExclusive ==
    \A b, c \in Clients : b # c =>
        /\ Dispatching(b) /\ Dispatching(c) => request[b].key # request[c].key
        /\ Creating(b) /\ Creating(c) /\ request[b].order # None =>
              request[b].order # request[c].order
        /\ request[b].stage = "routing" /\ request[c].stage = "routing" =>
              request[b].key # request[c].key

(* What a transaction looked up under a lock it holds is still so.         *)
Holds(c) ==
    /\ Dispatching(c) => BoundTo(request[c].key) = {}
    /\ Dispatching(c) /\ Creating(c) =>
          /\ order[request[c].order].status = "READY"
          /\ LinkedTo(request[c].order) = {}
    /\ request[c].stage = "routing" => KeyedBy(request[c].key) = {}

LookedUp == \A c \in Clients : Holds(c)

OwnKeys ==
    /\ \A o, n \in Orders : order[o].key = order[n].key /\ order[o].key # None => o = n
    /\ \A o \in Orders :
          /\ order[o].status \in {"NONE", "READY"} => order[o].key = None
          /\ order[o].key = None /\ order[o].status \in {"DISPATCHED", "FULFILLED"} =>
                o \in LegacyOrders

(* An order and its one delivery are in the same state, announced so far.  *)
Linked ==
    /\ \A d, e \in Rows : delivery[d].order = delivery[e].order /\ delivery[d].order # None => d = e
    /\ \A o \in Orders :
          /\ LinkedTo(o) # {} <=> order[o].status \in {"DISPATCHED", "FULFILLED"}
          /\ announced[o].dispatched =
                IF order[o].status \in {"DISPATCHED", "FULFILLED"} THEN 1 ELSE 0
          /\ announced[o].fulfilled = IF order[o].status = "FULFILLED" THEN 1 ELSE 0
          /\ \A d \in LinkedTo(o) :
                delivery[d].status = "DELIVERED" <=> order[o].status = "FULFILLED"

(* A completing transaction has read the order as it is, or as it was      *)
(* before a repeated dispatch bound an order from before V44.              *)
StillTrue(d) ==
    telemetry[d].open =>
        /\ delivery[d].status = "ACTIVE"
        /\ delivery[d].order # None =>
              LET now == order[delivery[d].order]
                  seen == telemetry[d].seen
              IN  /\ seen.status = "DISPATCHED"
                  /\ \/ seen.key = now.key
                     \/ seen.key = None /\ delivery[d].order \in LegacyOrders

ReadStillTrue == \A d \in Deliveries : StillTrue(d)

StillAnswered(g) ==
    /\ order[g.order].key = g.key \/ BindingLost(g.order)
    /\ \E d \in LinkedTo(g.order) : delivery[d].vehicle = g.vehicle

Answered == \A g \in granted : StillAnswered(g)

IInv ==
    /\ TypeOK
    /\ RequestsFormed
    /\ LocksExclusive
    /\ LookedUp
    /\ OwnKeys
    /\ Linked
    /\ ReadStillTrue
    /\ Answered

-----------------------------------------------------------------------------
(* The type invariant *)

LEMMA InitTyped == Init => TypeOK
<1>. SUFFICES ASSUME Init PROVE TypeOK
  OBVIOUS
<1>1. delivery \in [Deliveries -> DeliveryRow]
  BY DispatchAssumption DEF Init, DeliveryRow, NoDelivery
<1>2. /\ order \in [Orders -> OrderRow]
      /\ request \in [Clients -> Request]
      /\ telemetry \in [Deliveries -> [open : BOOLEAN, seen : OrderRow]]
      /\ announced \in [Orders -> [dispatched : Nat, fulfilled : Nat]]
      /\ granted \in SUBSET Dispatch
  BY DEF Init, OrderRow, Request, Idle, NotRead
<1>. QED
  BY <1>1, <1>2 DEF TypeOK

(* The forms of a request's steps: it begins, ends, or moves on.           *)
LEMMA RequestMoves ==
    ASSUME [Next]_vars
    PROVE  \/ UNCHANGED request
           \/ \E c \in Clients, v \in Vehicles, k \in Keys, o \in Orders \cup {None} :
                 Receive(c, o, v, k)
           \/ \E c \in Clients : Finish(c)
           \/ \E c \in Clients : request[c].stage = "received" /\ Advance(c, "keyed")
           \/ \E c \in Clients : request[c].stage = "keyed" /\ Advance(c, "locked")
           \/ \E c \in Clients : request[c].stage = "locked" /\ Advance(c, "routing")
<1>1. ASSUME NEW c \in Clients, Step(c) \/ RollBack(c)
      PROVE  \/ UNCHANGED request
             \/ Finish(c)
             \/ request[c].stage = "received" /\ Advance(c, "keyed")
             \/ request[c].stage = "keyed" /\ Advance(c, "locked")
             \/ request[c].stage = "locked" /\ Advance(c, "routing")
  BY <1>1 DEF Step, RollBack, LookUpKey, LockOrder, LockDeliveryKey, Commit
<1>. QED
  BY <1>1 DEF Next, CreateOrder, ReadOrder, Complete, vars

LEMMA RequestStep ==
    ASSUME TypeOK, RequestsFormed, [Next]_vars
    PROVE  request' \in [Clients -> Request] /\ RequestsFormed'
<1>1. ASSUME NEW c \in Clients, NEW v \in Vehicles, NEW k \in Keys,
             NEW o \in Orders \cup {None}, Receive(c, o, v, k)
      PROVE  request' \in [Clients -> Request] /\ RequestsFormed'
  BY <1>1 DEF Receive, TypeOK, Request, RequestsFormed
<1>2. ASSUME NEW c \in Clients, Finish(c)
      PROVE  request' \in [Clients -> Request] /\ RequestsFormed'
  BY <1>2 DEF Finish, Idle, TypeOK, Request, RequestsFormed
<1>3. ASSUME NEW c \in Clients, NEW s \in {"keyed", "locked", "routing"}, Advance(c, s),
             request[c].stage \in {"received", "keyed", "locked"},
             s = "keyed" => request[c].stage = "received"
      PROVE  request' \in [Clients -> Request] /\ RequestsFormed'
  BY <1>3, SMTT(30) DEF Advance, TypeOK, Request, RequestsFormed
<1>4. CASE UNCHANGED request
  BY <1>4 DEF TypeOK, RequestsFormed
<1>. QED
  BY <1>1, <1>2, <1>3, <1>4, RequestMoves

LEMMA TypeStep ==
    ASSUME TypeOK, RequestsFormed, [Next]_vars
    PROVE  TypeOK'
<1>0. request' \in [Clients -> Request]
  BY RequestStep
<1>1. ASSUME NEW o \in Orders, CreateOrder(o)
      PROVE  TypeOK'
  BY <1>0, <1>1, SMTT(30) DEF CreateOrder, TypeOK, OrderRow
<1>2. ASSUME NEW c \in Clients, NEW v \in Vehicles, NEW k \in Keys,
             NEW o \in Orders \cup {None}, Receive(c, o, v, k)
      PROVE  TypeOK'
  BY <1>0, <1>2 DEF Receive, TypeOK
<1>3. ASSUME NEW c \in Clients, LookUpKey(c)
      PROVE  TypeOK'
  <2>1. request[c].order \in Orders /\ request[c].vehicle \in Vehicles /\ request[c].key \in Keys
    BY <1>3 DEF LookUpKey, TypeOK, Request, RequestsFormed
  <2>. QED
    BY <1>0, <1>3, <2>1 DEF LookUpKey, TypeOK, Dispatch
<1>4. ASSUME NEW c \in Clients, LockOrder(c)
      PROVE  TypeOK'
  <2>1. request[c].order \in Orders /\ request[c].vehicle \in Vehicles /\ request[c].key \in Keys
    BY <1>4 DEF LockOrder, TypeOK, Request, RequestsFormed
  <2>2. order' \in [Orders -> OrderRow]
    BY <1>4, <2>1 DEF LockOrder, TypeOK, OrderRow
  <2>3. granted' \in SUBSET Dispatch
    BY <1>4, <2>1 DEF LockOrder, TypeOK, Dispatch
  <2>. QED
    BY <1>0, <1>4, <2>2, <2>3 DEF LockOrder, TypeOK
<1>5. ASSUME NEW c \in Clients, LockDeliveryKey(c) \/ RollBack(c)
      PROVE  TypeOK'
  BY <1>0, <1>5 DEF LockDeliveryKey, RollBack, TypeOK
<1>6. ASSUME NEW c \in Clients, NEW d \in Deliveries, Commit(c, d)
      PROVE  TypeOK'
  <2>1. /\ request[c].order \in Orders \cup {None}
        /\ request[c].vehicle \in Vehicles /\ request[c].key \in Keys
    BY <1>6 DEF Commit, TypeOK, Request, RequestsFormed
  <2>2. delivery' \in [Deliveries -> DeliveryRow]
    BY <1>6, <2>1 DEF Commit, TypeOK, DeliveryRow
  <2>. DEFINE row == [status |-> "DISPATCHED", key |-> request[c].key]
  <2>3. order' \in [Orders -> OrderRow]
    <3>1. row \in OrderRow
      BY <2>1 DEF OrderRow
    <3>2. order' = order \/ order' = [order EXCEPT ![request[c].order] = row]
      BY <1>6 DEF Commit
    <3>. QED
      BY <3>1, <3>2 DEF TypeOK
  <2>4. announced' \in [Orders -> [dispatched : Nat, fulfilled : Nat]]
    BY <1>6, <2>1 DEF Commit, TypeOK
  <2>5. granted' \in SUBSET Dispatch
    BY <1>6, <2>1 DEF Commit, TypeOK, Dispatch
  <2>. QED
    BY <1>0, <1>6, <2>2, <2>3, <2>4, <2>5 DEF Commit, TypeOK
<1>7. ASSUME NEW d \in Deliveries, ReadOrder(d)
      PROVE  TypeOK'
  <2>1. NotRead.seen \in OrderRow
    BY DEF NotRead, OrderRow
  <2>2. delivery[d].order # None => order[delivery[d].order] \in OrderRow
    BY DEF TypeOK, DeliveryRow
  <2>. QED
    BY <1>0, <1>7, <2>1, <2>2 DEF ReadOrder, TypeOK
<1>8. ASSUME NEW d \in Deliveries, Complete(d)
      PROVE  TypeOK'
  <2>1. telemetry[d].seen \in OrderRow /\ delivery[d].order \in Orders \cup {None}
    BY DEF TypeOK, DeliveryRow
  <2>2. delivery' \in [Deliveries -> DeliveryRow]
    <3>. DEFINE row == [delivery[d] EXCEPT !.status = "DELIVERED"]
    <3>1. delivery[d] \in DeliveryRow
      BY DEF TypeOK
    <3>2. row \in DeliveryRow
      BY <3>1 DEF DeliveryRow
    <3>3. delivery' = [delivery EXCEPT ![d] = row]
      BY <1>8 DEF Complete
    <3>. HIDE DEF row
    <3>. QED
      BY <3>2, <3>3 DEF TypeOK
  <2>3. telemetry' \in [Deliveries -> [open : BOOLEAN, seen : OrderRow]]
    BY <1>8 DEF Complete, TypeOK, NotRead, OrderRow
  <2>4. order' \in [Orders -> OrderRow]
    <3>. DEFINE row == [telemetry[d].seen EXCEPT !.status = "FULFILLED"]
    <3>1. row \in OrderRow
      BY <2>1 DEF OrderRow
    <3>2. order' = order \/ order' = [order EXCEPT ![delivery[d].order] = row]
      BY <1>8 DEF Complete
    <3>. QED
      BY <3>1, <3>2 DEF TypeOK
  <2>5. announced' \in [Orders -> [dispatched : Nat, fulfilled : Nat]]
    <3>1. announced \in [Orders -> [dispatched : Nat, fulfilled : Nat]]
      BY DEF TypeOK
    <3>2. \/ UNCHANGED announced
          \/ announced' = [announced EXCEPT ![delivery[d].order].fulfilled = @ + 1]
      BY <1>8 DEF Complete
    <3>. QED
      BY <3>1, <3>2
  <2>. QED
    BY <1>0, <1>8, <2>2, <2>3, <2>4, <2>5 DEF Complete, TypeOK
<1>9. CASE UNCHANGED vars
  BY <1>9 DEF vars, TypeOK
<1>. QED
  BY <1>1, <1>2, <1>3, <1>4, <1>5, <1>6, <1>7, <1>8, <1>9 DEF Next, Step

-----------------------------------------------------------------------------
(* The locks *)

LEMMA LocksStep ==
    ASSUME TypeOK, LocksExclusive, [Next]_vars
    PROVE  LocksExclusive'
<1>1. ASSUME NEW c \in Clients, NEW v \in Vehicles, NEW k \in Keys,
             NEW o \in Orders \cup {None}, Receive(c, o, v, k)
      PROVE  LocksExclusive'
  BY <1>1 DEF Receive, LocksExclusive, Dispatching, Creating, TypeOK
<1>2. ASSUME NEW c \in Clients, Finish(c)
      PROVE  LocksExclusive'
  BY <1>2 DEF Finish, Idle, LocksExclusive, Dispatching, Creating, TypeOK
<1>3. ASSUME NEW c \in Clients, LookUpKey(c), Advance(c, "keyed")
      PROVE  LocksExclusive'
  BY <1>3 DEF LookUpKey, Advance, DispatchKeyLocked, LocksExclusive, Dispatching, Creating,
              TypeOK, Request
<1>4. ASSUME NEW c \in Clients, LockOrder(c), Advance(c, "locked")
      PROVE  LocksExclusive'
  BY <1>4 DEF LockOrder, Advance, OrderLocked, LocksExclusive, Dispatching, Creating,
              TypeOK, Request
<1>5. ASSUME NEW c \in Clients, LockDeliveryKey(c), Advance(c, "routing")
      PROVE  LocksExclusive'
  BY <1>5 DEF LockDeliveryKey, Advance, DeliveryKeyLocked, LocksExclusive, Dispatching,
              Creating, TypeOK, Request
<1>6. CASE UNCHANGED request
  BY <1>6 DEF LocksExclusive, Dispatching, Creating
<1>7. ASSUME NEW c \in Clients, Step(c) \/ RollBack(c)
      PROVE  LocksExclusive'
  BY <1>2, <1>3, <1>4, <1>5, <1>6, <1>7
     DEF Step, RollBack, LookUpKey, LockOrder, LockDeliveryKey, Commit
<1>. QED
  BY <1>1, <1>6, <1>7 DEF Next, CreateOrder, ReadOrder, Complete, vars

-----------------------------------------------------------------------------
(* Rows *)

(* The only steps that write an order or a delivery.                       *)
Writes ==
    \/ \E o \in Orders : CreateOrder(o)
    \/ \E c \in Clients : LockOrder(c)
    \/ \E c \in Clients, d \in Deliveries : Commit(c, d)
    \/ \E d \in Deliveries : Complete(d)

LEMMA OthersWriteNothing ==
    ASSUME [Next]_vars, ~Writes
    PROVE  UNCHANGED <<order, delivery, announced>>
  BY DEF Next, Step, Writes, Receive, LookUpKey, LockDeliveryKey, RollBack, ReadOrder, vars

(* An order that was locked is in the state and has the key its row had,   *)
(* or is bound to the key of the request.                                  *)
LEMMA LockOrderWrites ==
    ASSUME IInv, NEW c \in Clients, LockOrder(c)
    PROVE  /\ request[c].order \in Orders /\ request[c].key \in Keys
           /\ delivery' = delivery /\ announced' = announced /\ telemetry' = telemetry
           /\ \A o \in Orders : order'[o].status = order[o].status
           /\ \A o \in Orders : o # request[c].order => order'[o] = order[o]
           /\ \/ order'[request[c].order] = order[request[c].order]
              \/ /\ order[request[c].order].key = None
                 /\ order[request[c].order].status = "DISPATCHED"
                 /\ order'[request[c].order].key = request[c].key
<1>1. request[c].order \in Orders /\ request[c].key \in Keys
  BY DEF IInv, LockOrder, TypeOK, Request, RequestsFormed
<1>2. order[request[c].order] \in OrderRow
  BY <1>1 DEF IInv, TypeOK
<1>3. order[request[c].order].key # request[c].key
  BY <1>1 DEF IInv, LookedUp, Holds, LockOrder, Dispatching, BoundTo, RequestsFormed
<1>. QED
  BY <1>1, <1>2, <1>3 DEF LockOrder, Finish, Advance, IInv, TypeOK, OrderRow

(* A transaction that commits finds nothing under its keys.                *)
LEMMA CommitWrites ==
    ASSUME IInv, NEW c \in Clients, NEW d \in Deliveries, Commit(c, d)
    PROVE  /\ request[c].order \in Orders \cup {None} /\ request[c].key \in Keys
           /\ request[c].vehicle \in Vehicles
           /\ d \notin Rows /\ Rows' = Rows \cup {d}
           /\ \A e \in Deliveries : e # d => delivery'[e] = delivery[e]
           /\ delivery'[d].status = "ACTIVE" /\ delivery'[d].order = request[c].order
           /\ delivery'[d].key = request[c].key /\ delivery'[d].vehicle = request[c].vehicle
           /\ telemetry' = telemetry /\ ~telemetry[d].open
           /\ \A o \in Orders : o # request[c].order =>
                 order'[o] = order[o] /\ announced'[o] = announced[o]
           /\ request[c].order # None =>
                 LET o == request[c].order
                 IN  /\ order[o].status = "READY" /\ LinkedTo(o) = {}
                     /\ order'[o].status = "DISPATCHED" /\ order'[o].key = request[c].key
                     /\ announced'[o].dispatched = announced[o].dispatched + 1
                     /\ announced'[o].fulfilled = announced[o].fulfilled
                     /\ BoundTo(request[c].key) = {}
<1>1. /\ request[c].order \in Orders \cup {None} /\ request[c].key \in Keys
      /\ request[c].vehicle \in Vehicles
  BY DEF IInv, Commit, TypeOK, Request, RequestsFormed
<1>2. delivery[d] = NoDelivery
  BY DEF Commit, NextId
<1>3. d \notin Rows /\ ~telemetry[d].open
  BY <1>2 DEF Rows, NoDelivery, IInv, ReadStillTrue, StillTrue
<1>4. /\ delivery'[d].status = "ACTIVE" /\ delivery'[d].order = request[c].order
      /\ delivery'[d].key = request[c].key /\ delivery'[d].vehicle = request[c].vehicle
      /\ \A e \in Deliveries : e # d => delivery'[e] = delivery[e]
      /\ telemetry' = telemetry
  BY DEF Commit, IInv, TypeOK
<1>5. Rows' = Rows \cup {d}
  BY <1>4 DEF Rows
<1>6. \A o \in Orders : o # request[c].order =>
         order'[o] = order[o] /\ announced'[o] = announced[o]
  BY <1>1 DEF Commit, IInv, TypeOK
<1>7. ASSUME request[c].order # None
      PROVE  LET o == request[c].order
             IN  /\ order[o].status = "READY" /\ LinkedTo(o) = {}
                 /\ order'[o].status = "DISPATCHED" /\ order'[o].key = request[c].key
                 /\ announced'[o].dispatched = announced[o].dispatched + 1
                 /\ announced'[o].fulfilled = announced[o].fulfilled
                 /\ BoundTo(request[c].key) = {}
  <2>1. /\ order[request[c].order].status = "READY" /\ LinkedTo(request[c].order) = {}
        /\ BoundTo(request[c].key) = {}
    BY <1>7 DEF Commit, IInv, LookedUp, Holds, Dispatching, Creating
  <2>. QED
    BY <1>1, <1>7, <2>1 DEF Commit, IInv, TypeOK
<1>. QED
  BY <1>1, <1>3, <1>4, <1>5, <1>6, <1>7

(* A completion writes what it read, which is what is there, but for the   *)
(* binding of an order from before V44.                                    *)
LEMMA CompleteWrites ==
    ASSUME IInv, NEW d \in Deliveries, Complete(d)
    PROVE  /\ d \in Rows /\ Rows' = Rows /\ delivery[d].status = "ACTIVE"
           /\ delivery[d].order \in Orders \cup {None}
           /\ \A e \in Deliveries :
                 /\ e # d => delivery'[e] = delivery[e]
                 /\ delivery'[e].order = delivery[e].order /\ delivery'[e].key = delivery[e].key
                 /\ delivery'[e].vehicle = delivery[e].vehicle
           /\ delivery'[d].status = "DELIVERED"
           /\ ~telemetry'[d].open
           /\ \A e \in Deliveries : e # d => telemetry'[e] = telemetry[e]
           /\ \A o \in Orders : o # delivery[d].order =>
                 order'[o] = order[o] /\ announced'[o] = announced[o]
           /\ delivery[d].order # None =>
                 LET o == delivery[d].order
                 IN  /\ order[o].status = "DISPATCHED" /\ order'[o].status = "FULFILLED"
                     /\ \/ order'[o].key = order[o].key
                        \/ order'[o].key = None /\ o \in LegacyOrders
                     /\ announced'[o].fulfilled = announced[o].fulfilled + 1
                     /\ announced'[o].dispatched = announced[o].dispatched
<1>1. /\ delivery[d].status = "ACTIVE" /\ d \in Rows
      /\ delivery[d].order \in Orders \cup {None}
  BY DEF Complete, IInv, ReadStillTrue, StillTrue, Rows, TypeOK, DeliveryRow
<1>2. /\ \A e \in Deliveries :
            /\ e # d => delivery'[e] = delivery[e]
            /\ delivery'[e].order = delivery[e].order /\ delivery'[e].key = delivery[e].key
            /\ delivery'[e].vehicle = delivery[e].vehicle
      /\ delivery'[d].status = "DELIVERED"
  BY DEF Complete, IInv, TypeOK, DeliveryRow
<1>3. /\ ~telemetry'[d].open
      /\ \A e \in Deliveries : e # d => telemetry'[e] = telemetry[e]
  BY DEF Complete, IInv, TypeOK, NotRead
<1>4. Rows' = Rows
  BY <1>1, <1>2 DEF Rows
<1>5. \A o \in Orders : o # delivery[d].order =>
         order'[o] = order[o] /\ announced'[o] = announced[o]
  BY <1>1 DEF Complete, IInv, TypeOK
<1>6. ASSUME delivery[d].order # None
      PROVE  LET o == delivery[d].order
             IN  /\ order[o].status = "DISPATCHED" /\ order'[o].status = "FULFILLED"
                 /\ \/ order'[o].key = order[o].key
                    \/ order'[o].key = None /\ o \in LegacyOrders
                 /\ announced'[o].fulfilled = announced[o].fulfilled + 1
                 /\ announced'[o].dispatched = announced[o].dispatched
  <2>. DEFINE o == delivery[d].order
              seen == telemetry[d].seen
  <2>1. o \in Orders /\ seen \in OrderRow
    BY <1>1, <1>6 DEF IInv, TypeOK
  <2>2. /\ seen.status = "DISPATCHED"
        /\ \/ seen.key = order[o].key
           \/ seen.key = None /\ o \in LegacyOrders
    <3>1. telemetry[d].open
      BY DEF Complete
    <3>2. ReadStillTrue
      BY DEF IInv
    <3>. QED
      BY <1>6, <3>1, <3>2 DEF ReadStillTrue, StillTrue
  <2>3. d \in LinkedTo(o)
    BY <1>1 DEF LinkedTo
  <2>4. order[o].status = "DISPATCHED"
    BY <1>1, <2>1, <2>3 DEF IInv, Linked
  <2>5. /\ order' = [order EXCEPT ![o] = [seen EXCEPT !.status = "FULFILLED"]]
        /\ announced' = [announced EXCEPT ![o].fulfilled = @ + 1]
    BY <1>6, <2>2 DEF Complete
  <2>6. order'[o].status = "FULFILLED" /\ order'[o].key = seen.key
    BY <2>1, <2>5 DEF OrderRow, IInv, TypeOK
  <2>7. /\ announced'[o].fulfilled = announced[o].fulfilled + 1
        /\ announced'[o].dispatched = announced[o].dispatched
    BY <2>1, <2>5 DEF IInv, TypeOK
  <2>. QED
    BY <2>2, <2>4, <2>6, <2>7
<1>. QED
  BY <1>1, <1>2, <1>3, <1>4, <1>5, <1>6

-----------------------------------------------------------------------------
(* Each part of the invariant is kept *)

LEMMA OwnKeysStep ==
    ASSUME IInv, [Next]_vars
    PROVE  OwnKeys'
<1>0. OwnKeys /\ order \in [Orders -> OrderRow]
  BY DEF IInv, TypeOK
<1>1. ASSUME NEW o \in Orders, CreateOrder(o)
      PROVE  OwnKeys'
  BY <1>0, <1>1 DEF CreateOrder, OwnKeys, OrderRow
<1>2. ASSUME NEW c \in Clients, LockOrder(c)
      PROVE  OwnKeys'
  <2>1. BoundTo(request[c].key) = {}
    BY <1>2 DEF LockOrder, IInv, LookedUp, Holds, RequestsFormed, Dispatching
  <2>2. \A o \in Orders : order[o].key # request[c].key
    BY <2>1 DEF BoundTo
  <2>. QED
    BY <1>0, <1>2, <2>2, LockOrderWrites DEF OwnKeys
<1>3. ASSUME NEW c \in Clients, NEW d \in Deliveries, Commit(c, d)
      PROVE  OwnKeys'
  <2>1. request[c].order # None => \A o \in Orders : order[o].key # request[c].key
    BY <1>3, CommitWrites DEF BoundTo
  <2>2. request[c].key # None
    BY <1>3, CommitWrites, DispatchAssumption
  <2>3. \A o \in Orders : o # request[c].order => order'[o] = order[o]
    BY <1>3, CommitWrites
  <2>4. ASSUME NEW o \in Orders, o = request[c].order
        PROVE  order'[o].status = "DISPATCHED" /\ order'[o].key = request[c].key
    BY <1>3, <2>4, CommitWrites, DispatchAssumption
  <2>5. ASSUME NEW o \in Orders, o = request[c].order, NEW n \in Orders, n # o
        PROVE  order'[n].key # order'[o].key
    BY <2>1, <2>3, <2>4, <2>5, DispatchAssumption
  <2>. QED
    BY <1>0, <2>2, <2>3, <2>4, <2>5 DEF OwnKeys
<1>4. ASSUME NEW d \in Deliveries, Complete(d)
      PROVE  OwnKeys'
  <2>1. \A o \in Orders : o # delivery[d].order => order'[o] = order[o]
    BY <1>4, CompleteWrites
  <2>2. ASSUME NEW o \in Orders, o = delivery[d].order
        PROVE  /\ order[o].status = "DISPATCHED" /\ order'[o].status = "FULFILLED"
               /\ \/ order'[o].key = order[o].key
                  \/ order'[o].key = None /\ o \in LegacyOrders
    BY <1>4, <2>2, CompleteWrites, DispatchAssumption
  <2>. QED
    BY <1>0, <2>1, <2>2 DEF OwnKeys
<1>5. CASE ~Writes
  BY <1>0, <1>5, OthersWriteNothing DEF OwnKeys
<1>. QED
  BY <1>1, <1>2, <1>3, <1>4, <1>5 DEF Writes

LEMMA LinkedStep ==
    ASSUME IInv, [Next]_vars
    PROVE  Linked'
<1>0. Linked /\ TypeOK
  BY DEF IInv
<1>1. ASSUME NEW o \in Orders, CreateOrder(o)
      PROVE  Linked'
  BY <1>0, <1>1 DEF CreateOrder, Linked, Rows, LinkedTo, TypeOK, OrderRow
<1>2. ASSUME NEW c \in Clients, LockOrder(c)
      PROVE  Linked'
  BY <1>0, <1>2, LockOrderWrites DEF Linked, Rows, LinkedTo
<1>3. ASSUME NEW c \in Clients, NEW d \in Deliveries, Commit(c, d)
      PROVE  Linked'
  <2>1. ASSUME NEW o \in Orders
        PROVE  LinkedTo(o)' = IF o = request[c].order THEN {d} ELSE LinkedTo(o)
    BY <1>3, CommitWrites, DispatchAssumption DEF LinkedTo, Rows
  <2>2. ASSUME NEW e \in Rows', NEW f \in Rows', delivery'[e].order = delivery'[f].order,
               delivery'[e].order # None
        PROVE  e = f
    BY <1>0, <1>3, <2>2, CommitWrites DEF Linked, LinkedTo, Rows
  <2>3. ASSUME NEW o \in Orders
        PROVE  /\ LinkedTo(o)' # {} <=> order'[o].status \in {"DISPATCHED", "FULFILLED"}
               /\ announced'[o].dispatched =
                     IF order'[o].status \in {"DISPATCHED", "FULFILLED"} THEN 1 ELSE 0
               /\ announced'[o].fulfilled = IF order'[o].status = "FULFILLED" THEN 1 ELSE 0
               /\ \A e \in LinkedTo(o)' :
                     delivery'[e].status = "DELIVERED" <=> order'[o].status = "FULFILLED"
    <3>1. CASE o = request[c].order
      <4>1. /\ order[o].status = "READY" /\ order'[o].status = "DISPATCHED"
            /\ announced'[o].dispatched = announced[o].dispatched + 1
            /\ announced'[o].fulfilled = announced[o].fulfilled
        BY <1>3, <3>1, CommitWrites, DispatchAssumption
      <4>2. announced[o].dispatched = 0 /\ announced[o].fulfilled = 0
        BY <1>0, <4>1 DEF Linked
      <4>3. LinkedTo(o)' = {d} /\ delivery'[d].status = "ACTIVE"
        BY <1>3, <2>1, <3>1, CommitWrites
      <4>. QED
        BY <4>1, <4>2, <4>3
    <3>2. CASE o # request[c].order
      <4>1. LinkedTo(o)' = LinkedTo(o) /\ order'[o] = order[o] /\ announced'[o] = announced[o]
        BY <1>3, <2>1, <3>2, CommitWrites
      <4>2. \A e \in LinkedTo(o) : delivery'[e] = delivery[e]
        BY <1>3, CommitWrites DEF LinkedTo, Rows
      <4>. QED
        BY <1>0, <4>1, <4>2 DEF Linked
    <3>. QED
      BY <3>1, <3>2
  <2>. QED
    BY <2>2, <2>3 DEF Linked
<1>4. ASSUME NEW d \in Deliveries, Complete(d)
      PROVE  Linked'
  <2>1. \A o \in Orders : LinkedTo(o)' = LinkedTo(o)
    BY <1>4, CompleteWrites DEF LinkedTo, Rows
  <2>2. ASSUME NEW e \in Rows', NEW f \in Rows', delivery'[e].order = delivery'[f].order,
               delivery'[e].order # None
        PROVE  e = f
    BY <1>0, <1>4, <2>2, CompleteWrites DEF Linked, Rows
  <2>3. ASSUME NEW o \in Orders
        PROVE  /\ LinkedTo(o)' # {} <=> order'[o].status \in {"DISPATCHED", "FULFILLED"}
               /\ announced'[o].dispatched =
                     IF order'[o].status \in {"DISPATCHED", "FULFILLED"} THEN 1 ELSE 0
               /\ announced'[o].fulfilled = IF order'[o].status = "FULFILLED" THEN 1 ELSE 0
               /\ \A e \in LinkedTo(o)' :
                     delivery'[e].status = "DELIVERED" <=> order'[o].status = "FULFILLED"
    <3>1. CASE o = delivery[d].order
      <4>1. o # None
        BY DispatchAssumption
      <4>2. LinkedTo(o) = {d}
        BY <1>0, <1>4, <3>1, <4>1, CompleteWrites DEF Linked, LinkedTo
      <4>. QED
        BY <1>0, <1>4, <2>1, <3>1, <4>1, <4>2, CompleteWrites DEF Linked
    <3>2. CASE o # delivery[d].order
      <4>1. LinkedTo(o)' = LinkedTo(o) /\ order'[o] = order[o] /\ announced'[o] = announced[o]
        BY <1>4, <2>1, <3>2, CompleteWrites
      <4>2. \A e \in LinkedTo(o) : delivery'[e] = delivery[e]
        BY <1>4, <3>2, CompleteWrites DEF LinkedTo, Rows
      <4>. QED
        BY <1>0, <4>1, <4>2 DEF Linked
    <3>. QED
      BY <3>1, <3>2
  <2>. QED
    BY <2>2, <2>3 DEF Linked
<1>5. CASE ~Writes
  BY <1>0, <1>5, OthersWriteNothing DEF Linked, Rows, LinkedTo
<1>. QED
  BY <1>1, <1>2, <1>3, <1>4, <1>5 DEF Writes

LEMMA ReadStep ==
    ASSUME IInv, [Next]_vars
    PROVE  ReadStillTrue'
<1>0. ReadStillTrue /\ TypeOK
  BY DEF IInv
<1>. SUFFICES ASSUME NEW e \in Deliveries
              PROVE  StillTrue(e)'
  BY DEF ReadStillTrue
<1>1. delivery[e].order \in Orders \cup {None}
  BY <1>0 DEF TypeOK, DeliveryRow
<1>2. StillTrue(e)
  BY <1>0 DEF ReadStillTrue
<1>3. delivery[e].status = "ACTIVE" /\ delivery[e].order # None =>
         order[delivery[e].order].status = "DISPATCHED"
  <2>. SUFFICES ASSUME delivery[e].status = "ACTIVE", delivery[e].order # None
                PROVE  order[delivery[e].order].status = "DISPATCHED"
    OBVIOUS
  <2>1. e \in LinkedTo(delivery[e].order)
    BY DEF LinkedTo, Rows
  <2>. QED
    BY <1>1, <2>1 DEF IInv, Linked
<1>4. ASSUME NEW o \in Orders, CreateOrder(o)
      PROVE  StillTrue(e)'
  <2>1. \A n \in Orders : order'[n].key = order[n].key
    BY <1>0, <1>4 DEF CreateOrder, TypeOK, OrderRow
  <2>. QED
    BY <1>1, <1>2, <1>4, <2>1 DEF CreateOrder, StillTrue
<1>5. ASSUME NEW c \in Clients, LockOrder(c)
      PROVE  StillTrue(e)'
  <2>1. order[request[c].order].key = None /\ order[request[c].order].status = "DISPATCHED"
           => request[c].order \in LegacyOrders
    BY <1>5, LockOrderWrites DEF IInv, OwnKeys
  <2>. QED
    BY <1>1, <1>2, <1>5, <2>1, LockOrderWrites DEF StillTrue
<1>6. ASSUME NEW c \in Clients, NEW d \in Deliveries, Commit(c, d)
      PROVE  StillTrue(e)'
  <2>1. CASE e = d
    BY <1>6, <2>1, CommitWrites DEF StillTrue
  <2>2. CASE e # d
    <3>1. delivery'[e] = delivery[e] /\ telemetry' = telemetry
      BY <1>6, <2>2, CommitWrites
    <3>2. delivery[e].status = "ACTIVE" /\ delivery[e].order # None =>
             delivery[e].order # request[c].order
      BY <1>3, <1>6, CommitWrites
    <3>. QED
      BY <1>1, <1>2, <1>6, <3>1, <3>2, CommitWrites DEF StillTrue
  <2>. QED
    BY <2>1, <2>2
<1>7. ASSUME NEW d \in Deliveries, ReadOrder(d)
      PROVE  StillTrue(e)'
  <2>1. CASE e = d
    <3>1. delivery'[e] = delivery[e] /\ order' = order /\ delivery[e].status = "ACTIVE"
      BY <1>7, <2>1 DEF ReadOrder
    <3>2. delivery[e].order # None => telemetry'[e].seen = order[delivery[e].order]
      BY <1>0, <1>7, <2>1 DEF ReadOrder, TypeOK
    <3>. QED
      BY <1>3, <3>1, <3>2 DEF StillTrue
  <2>2. CASE e # d
    BY <1>0, <1>2, <1>7, <2>2 DEF ReadOrder, StillTrue, TypeOK
  <2>. QED
    BY <2>1, <2>2
<1>8. ASSUME NEW d \in Deliveries, Complete(d)
      PROVE  StillTrue(e)'
  <2>1. CASE e = d
    BY <1>8, <2>1, CompleteWrites DEF StillTrue
  <2>2. CASE e # d
    <3>1. delivery'[e] = delivery[e] /\ telemetry'[e] = telemetry[e]
      BY <1>8, <2>2, CompleteWrites
    <3>2. delivery[e].status = "ACTIVE" /\ delivery[e].order # None =>
             delivery[e].order # delivery[d].order
      BY <1>8, <2>2, CompleteWrites DEF IInv, Linked, Rows
    <3>. QED
      BY <1>1, <1>2, <1>8, <3>1, <3>2, CompleteWrites DEF StillTrue
  <2>. QED
    BY <2>1, <2>2
<1>9. CASE UNCHANGED <<order, delivery, telemetry>>
  BY <1>2, <1>9 DEF StillTrue
<1>. QED
  BY <1>4, <1>5, <1>6, <1>7, <1>8, <1>9
     DEF Next, Step, Receive, LookUpKey, LockDeliveryKey, RollBack, vars

(* The rows a transaction looked up are not written by another one.        *)
LEMMA RowsAreSafe ==
    ASSUME IInv, [Next]_vars, NEW b \in Clients, UNCHANGED request[b]
    PROVE  Holds(b)'
<1>0. /\ TypeOK /\ Holds(b) /\ LocksExclusive
      /\ request[b].order \in Orders \cup {None}
  BY DEF IInv, TypeOK, Request, LookedUp
<1>k. Dispatching(b) \/ request[b].stage = "routing" => request[b].key \in Keys
  BY DEF IInv, RequestsFormed, Dispatching
<1>1. ASSUME NEW o \in Orders, CreateOrder(o)
      PROVE  Holds(b)'
  <2>1. /\ \A n \in Orders : order'[n].key = order[n].key
        /\ \A n \in Orders : order[n].status = "READY" => order'[n].status = "READY"
        /\ delivery' = delivery /\ request' = request
    BY <1>0, <1>1 DEF CreateOrder, TypeOK, OrderRow
  <2>. QED
    BY <1>0, <2>1 DEF Holds, Dispatching, Creating, BoundTo, LinkedTo, KeyedBy, Rows
<1>2. ASSUME NEW c \in Clients, LockOrder(c)
      PROVE  Holds(b)'
  <2>1. /\ \A n \in Orders : order'[n].status = order[n].status
        /\ delivery' = delivery
    BY <1>2, LockOrderWrites
  <2>2. c # b
    BY <1>0, <1>2 DEF LockOrder, Finish, Advance, Idle, TypeOK, Request
  <2>3. Dispatching(b) => request[b].key # request[c].key
    BY <1>0, <1>2, <2>2 DEF IInv, LocksExclusive, LockOrder, Dispatching, RequestsFormed
  <2>4. \A n \in Orders : order'[n].key \in {order[n].key, request[c].key}
    BY <1>2, LockOrderWrites
  <2>. QED
    BY <1>0, <2>1, <2>3, <2>4 DEF Holds, Dispatching, Creating, BoundTo, LinkedTo, KeyedBy, Rows
<1>3. ASSUME NEW c \in Clients, NEW d \in Deliveries, Commit(c, d)
      PROVE  Holds(b)'
  <2>1. c # b
    BY <1>0, <1>3 DEF Commit, Finish, Idle, TypeOK, Request
  <2>2. request[c].stage = "routing"
    BY <1>3 DEF Commit
  <2>3. /\ Dispatching(b) /\ request[c].order # None => request[b].key # request[c].key
        /\ Dispatching(b) /\ Creating(b) => request[b].order # request[c].order
        /\ request[b].stage = "routing" => request[b].key # request[c].key
    BY <1>0, <2>1, <2>2 DEF LocksExclusive, Dispatching, Creating
  <2>4. Dispatching(b) => BoundTo(request[b].key)' = {}
    <3>1. ASSUME NEW n \in Orders, Dispatching(b)
          PROVE  order'[n].key # request[b].key
      BY <1>0, <1>3, <2>3, <3>1, CommitWrites, DispatchAssumption DEF Holds, BoundTo
    <3>. QED
      BY <3>1 DEF BoundTo
  <2>5. Dispatching(b) /\ Creating(b) =>
           /\ order'[request[b].order].status = "READY"
           /\ LinkedTo(request[b].order)' = {}
    <3>. SUFFICES ASSUME Dispatching(b), Creating(b)
                  PROVE  /\ order'[request[b].order].status = "READY"
                         /\ LinkedTo(request[b].order)' = {}
      OBVIOUS
    <3>1. order'[request[b].order] = order[request[b].order]
      BY <1>0, <1>3, <2>3, CommitWrites DEF Dispatching
    <3>2. LinkedTo(request[b].order)' = {}
      BY <1>0, <1>3, <2>3, CommitWrites DEF Holds, LinkedTo, Rows
    <3>. QED
      BY <1>0, <3>1, <3>2 DEF Holds
  <2>6. request[b].stage = "routing" => KeyedBy(request[b].key)' = {}
    BY <1>0, <1>3, <2>3, CommitWrites DEF Holds, KeyedBy, Rows
  <2>. QED
    BY <2>4, <2>5, <2>6 DEF Holds, Dispatching, Creating
<1>4. ASSUME NEW d \in Deliveries, Complete(d)
      PROVE  Holds(b)'
  <2>1. ASSUME NEW n \in Orders
        PROVE  order'[n].key \in {order[n].key, None}
    BY <1>4, CompleteWrites, DispatchAssumption
  <2>2. \A k : KeyedBy(k)' = KeyedBy(k)
    BY <1>4, CompleteWrites DEF KeyedBy, Rows
  <2>3. \A n : LinkedTo(n)' = LinkedTo(n)
    BY <1>4, CompleteWrites DEF LinkedTo, Rows
  <2>4. Dispatching(b) /\ Creating(b) => order'[request[b].order] = order[request[b].order]
    BY <1>0, <1>4, CompleteWrites DEF Holds, Dispatching, LinkedTo
  <2>. QED
    BY <1>0, <1>k, <2>1, <2>2, <2>3, <2>4, DispatchAssumption
       DEF Holds, Dispatching, Creating, BoundTo
<1>5. CASE ~Writes
  BY <1>0, <1>5, OthersWriteNothing
     DEF Holds, Dispatching, Creating, BoundTo, LinkedTo, KeyedBy, Rows
<1>. QED
  BY <1>1, <1>2, <1>3, <1>4, <1>5 DEF Writes

LEMMA LookedUpStep ==
    ASSUME IInv, [Next]_vars
    PROVE  LookedUp'
<1>. SUFFICES ASSUME NEW b \in Clients
              PROVE  Holds(b)'
  BY DEF LookedUp
<1>0. TypeOK /\ Holds(b)
  BY DEF IInv, LookedUp
<1>1. CASE UNCHANGED request[b]
  BY <1>1, RowsAreSafe
<1>2. ASSUME NEW c \in Clients, NEW v \in Vehicles, NEW k \in Keys,
             NEW o \in Orders \cup {None}, Receive(c, o, v, k)
      PROVE  Holds(b)'
  <2>1. CASE b = c
    BY <1>0, <1>2, <2>1 DEF Receive, Holds, Dispatching, Creating, TypeOK
  <2>2. CASE b # c
    BY <1>0, <1>1, <1>2, <2>2 DEF Receive, TypeOK
  <2>. QED
    BY <2>1, <2>2
<1>3. ASSUME NEW c \in Clients, Finish(c)
      PROVE  Holds(b)'
  <2>1. CASE b = c
    BY <1>0, <1>3, <2>1 DEF Finish, Idle, Holds, Dispatching, Creating, TypeOK
  <2>2. CASE b # c
    BY <1>0, <1>1, <1>3, <2>2 DEF Finish, TypeOK
  <2>. QED
    BY <2>1, <2>2
<1>4. ASSUME NEW c \in Clients, NEW s \in {"keyed", "locked", "routing"}, Advance(c, s), c # b
      PROVE  Holds(b)'
  BY <1>0, <1>1, <1>4 DEF Advance, TypeOK
<1>5. CASE LookUpKey(b) /\ Advance(b, "keyed")
  <2>1. order' = order /\ BoundTo(request[b].key) = {}
    BY <1>0, <1>5 DEF LookUpKey, Advance, Finish, Idle, TypeOK, Request
  <2>2. request'[b].stage = "keyed" /\ request'[b].key = request[b].key
    BY <1>0, <1>5 DEF Advance, TypeOK, Request
  <2>. QED
    BY <2>1, <2>2 DEF Holds, Creating, BoundTo
<1>6. CASE LockOrder(b) /\ Advance(b, "locked")
  <2>1. /\ request'[b].stage = "locked" /\ request'[b].key = request[b].key
        /\ request'[b].order = request[b].order
        /\ request[b].stage = "keyed"
    BY <1>0, <1>6 DEF Advance, LockOrder, TypeOK, Request
  <2>2. /\ order' = order /\ delivery' = delivery /\ LinkedTo(request[b].order) = {}
        /\ order[request[b].order].status = "READY"
    BY <1>0, <1>6, <2>1 DEF LockOrder, Finish, Idle, TypeOK, Request
  <2>. QED
    BY <1>0, <2>1, <2>2 DEF Holds, Dispatching, Creating, BoundTo, LinkedTo, Rows
<1>7. CASE LockDeliveryKey(b) /\ Advance(b, "routing")
  <2>1. /\ request'[b].stage = "routing" /\ request'[b].key = request[b].key
        /\ request'[b].order = request[b].order
        /\ request[b].stage = "locked"
    BY <1>0, <1>7 DEF Advance, LockDeliveryKey, TypeOK, Request
  <2>2. order' = order /\ delivery' = delivery /\ KeyedBy(request[b].key) = {}
    BY <1>0, <1>7, <2>1 DEF LockDeliveryKey, Finish, Idle, TypeOK, Request
  <2>. QED
    BY <1>0, <2>1, <2>2 DEF Holds, Dispatching, Creating, BoundTo, LinkedTo, KeyedBy, Rows
<1>8. ASSUME NEW c \in Clients, Step(c) \/ RollBack(c)
      PROVE  Holds(b)'
  BY <1>1, <1>3, <1>4, <1>5, <1>6, <1>7, <1>8
     DEF Step, RollBack, LookUpKey, LockOrder, LockDeliveryKey, Commit
<1>. QED
  BY <1>1, <1>2, <1>8 DEF Next, CreateOrder, ReadOrder, Complete, vars

(* What was answered stays so: only the completion of an order from before *)
(* V44 takes a binding away.                                               *)
LEMMA AnswersStay ==
    ASSUME IInv, [Next]_vars, NEW g \in granted
    PROVE  StillAnswered(g)'
<1>0. /\ TypeOK /\ StillAnswered(g)
      /\ g.order \in Orders /\ g.key \in Keys /\ order[g.order] \in OrderRow
  BY DEF IInv, Answered, TypeOK, Dispatch
<1>1. PICK x \in LinkedTo(g.order) : delivery[x].vehicle = g.vehicle
  BY <1>0 DEF StillAnswered
<1>2. order[g.order].status \in {"DISPATCHED", "FULFILLED"}
  BY <1>0, <1>1 DEF IInv, Linked
<1>3. BindingLost(g.order) <=>
         /\ g.order \in LegacyOrders
         /\ order[g.order].status = "FULFILLED" /\ order[g.order].key = None
  BY <1>0 DEF BindingLost, OrderRow
<1>4. ASSUME NEW o \in Orders, CreateOrder(o)
      PROVE  StillAnswered(g)'
  <2>1. order'[g.order] = order[g.order] /\ delivery' = delivery
    BY <1>0, <1>2, <1>4 DEF CreateOrder, TypeOK
  <2>. QED
    BY <1>0, <2>1 DEF StillAnswered, BindingLost, LinkedTo, Rows
<1>5. ASSUME NEW c \in Clients, LockOrder(c)
      PROVE  StillAnswered(g)'
  <2>1. order'[g.order] = order[g.order] /\ delivery' = delivery
    BY <1>0, <1>3, <1>5, LockOrderWrites, DispatchAssumption DEF StillAnswered
  <2>. QED
    BY <1>0, <2>1 DEF StillAnswered, BindingLost, LinkedTo, Rows
<1>6. ASSUME NEW c \in Clients, NEW d \in Deliveries, Commit(c, d)
      PROVE  StillAnswered(g)'
  <2>1. order'[g.order] = order[g.order]
    BY <1>0, <1>2, <1>6, CommitWrites, DispatchAssumption
  <2>2. x \in LinkedTo(g.order)' /\ delivery'[x].vehicle = g.vehicle
    BY <1>1, <1>6, CommitWrites DEF LinkedTo, Rows
  <2>. QED
    BY <1>0, <2>1, <2>2 DEF StillAnswered, BindingLost
<1>7. ASSUME NEW d \in Deliveries, Complete(d)
      PROVE  StillAnswered(g)'
  <2>1. x \in LinkedTo(g.order)' /\ delivery'[x].vehicle = g.vehicle
    BY <1>1, <1>7, CompleteWrites DEF LinkedTo, Rows
  <2>2. CASE g.order # delivery[d].order
    BY <1>0, <1>7, <2>1, <2>2, CompleteWrites DEF StillAnswered, BindingLost
  <2>3. CASE g.order = delivery[d].order
    <3>1. /\ order[g.order].status = "DISPATCHED" /\ order'[g.order].status = "FULFILLED"
          /\ \/ order'[g.order].key = order[g.order].key
             \/ order'[g.order].key = None /\ g.order \in LegacyOrders
      BY <1>0, <1>7, <2>3, CompleteWrites, DispatchAssumption
    <3>2. order'[g.order] \in OrderRow
      BY <1>0, TypeStep DEF IInv, TypeOK
    <3>. QED
      BY <1>0, <1>3, <2>1, <3>1, <3>2 DEF StillAnswered, BindingLost, OrderRow
  <2>. QED
    BY <2>2, <2>3
<1>8. CASE ~Writes
  BY <1>0, <1>8, OthersWriteNothing DEF StillAnswered, BindingLost, LinkedTo, Rows
<1>. QED
  BY <1>4, <1>5, <1>6, <1>7, <1>8 DEF Writes

LEMMA AnsweredStep ==
    ASSUME IInv, [Next]_vars
    PROVE  Answered'
<1>. SUFFICES ASSUME NEW g \in granted', g \notin granted
              PROVE  StillAnswered(g)'
  BY AnswersStay DEF Answered
<1>0. TypeOK
  BY DEF IInv
<1>1. ASSUME NEW c \in Clients, LookUpKey(c)
      PROVE  StillAnswered(g)'
  <2>1. /\ g.order = request[c].order /\ g.vehicle = request[c].vehicle
        /\ g.key = request[c].key
        /\ request[c].order \in BoundTo(request[c].key)
        /\ \E d \in LinkedTo(request[c].order) : delivery[d].vehicle = request[c].vehicle
    BY <1>1 DEF LookUpKey
  <2>2. order' = order /\ delivery' = delivery
    BY <1>1 DEF LookUpKey
  <2>. QED
    BY <2>1, <2>2 DEF StillAnswered, BoundTo, LinkedTo, Rows
<1>2. ASSUME NEW c \in Clients, LockOrder(c)
      PROVE  StillAnswered(g)'
  <2>1. /\ g.order = request[c].order /\ g.vehicle = request[c].vehicle
        /\ g.key = request[c].key
        /\ LinkedTo(request[c].order) # {}
        /\ \A d \in LinkedTo(request[c].order) : delivery[d].vehicle = request[c].vehicle
        /\ order' = [order EXCEPT ![request[c].order].key = request[c].key]
    BY <1>2 DEF LockOrder
  <2>2. order'[g.order].key = g.key /\ delivery' = delivery
    BY <1>0, <1>2, <2>1, LockOrderWrites DEF TypeOK, OrderRow
  <2>. QED
    BY <2>1, <2>2 DEF StillAnswered, LinkedTo, Rows
<1>3. ASSUME NEW c \in Clients, NEW d \in Deliveries, Commit(c, d)
      PROVE  StillAnswered(g)'
  <2>1. /\ g.order = request[c].order /\ g.vehicle = request[c].vehicle
        /\ g.key = request[c].key /\ request[c].order # None
    BY <1>3 DEF Commit
  <2>2. order'[g.order].key = g.key
    BY <1>3, <2>1, CommitWrites
  <2>3. d \in LinkedTo(g.order)' /\ delivery'[d].vehicle = g.vehicle
    BY <1>3, <2>1, CommitWrites DEF LinkedTo
  <2>. QED
    BY <2>2, <2>3 DEF StillAnswered
<1>. QED
  BY <1>1, <1>2, <1>3
     DEF Next, Step, CreateOrder, Receive, LockDeliveryKey, RollBack, ReadOrder, Complete, vars

-----------------------------------------------------------------------------
(* The invariant *)

(* The orders of LegacyOrders have different deliveries.                   *)
LEMMA LegacyDeliveries ==
    /\ LegacyDelivery \in [LegacyOrders -> Deliveries]
    /\ \A o, n \in LegacyOrders : LegacyDelivery[o] = LegacyDelivery[n] => o = n
  BY DispatchAssumption DEF LegacyDelivery

LEMMA InitLinked ==
    ASSUME Init
    PROVE  Linked
<1>. DEFINE Own(d) == {o \in LegacyOrders : LegacyDelivery[o] = d}
<1>1. \A d \in Deliveries :
         IF Own(d) = {} THEN delivery[d] = NoDelivery
         ELSE /\ delivery[d].status = "ACTIVE" /\ delivery[d].order \in Own(d)
              /\ delivery[d].key = None
  BY DEF Init
<1>2. \A d \in Rows : delivery[d].order \in LegacyOrders /\ LegacyDelivery[delivery[d].order] = d
                         /\ delivery[d].status = "ACTIVE"
  BY <1>1 DEF Rows, NoDelivery
<1>3. ASSUME NEW o \in LegacyOrders
      PROVE  LegacyDelivery[o] \in LinkedTo(o)
  <2>1. LegacyDelivery[o] \in Deliveries /\ o \in Own(LegacyDelivery[o])
    BY LegacyDeliveries
  <2>2. Own(LegacyDelivery[o]) = {o}
    BY LegacyDeliveries
  <2>. QED
    BY <1>1, <2>1, <2>2 DEF LinkedTo, Rows
<1>4. \A o \in Orders : o \notin LegacyOrders => LinkedTo(o) = {}
  BY <1>2 DEF LinkedTo
<1>5. \A d, e \in Rows : delivery[d].order = delivery[e].order => d = e
  BY <1>2
<1>6. \A o \in Orders :
         /\ order[o].status = IF o \in LegacyOrders THEN "DISPATCHED" ELSE "NONE"
         /\ announced[o].dispatched = IF o \in LegacyOrders THEN 1 ELSE 0
         /\ announced[o].fulfilled = 0
  BY DEF Init
<1>7. \A o \in Orders : \A d \in LinkedTo(o) : delivery[d].status = "ACTIVE"
  BY <1>2 DEF LinkedTo
<1>. QED
  BY <1>3, <1>4, <1>5, <1>6, <1>7 DEF Linked

LEMMA InitInvariant ==
    ASSUME Init
    PROVE  IInv
<1>1. RequestsFormed /\ LocksExclusive /\ LookedUp
  BY DEF Init, Idle, RequestsFormed, LocksExclusive, LookedUp, Holds, Dispatching, Creating
<1>2. OwnKeys
  BY DEF Init, OwnKeys
<1>3. ReadStillTrue /\ Answered
  BY DEF Init, NotRead, ReadStillTrue, StillTrue, Answered
<1>. QED
  BY <1>1, <1>2, <1>3, InitTyped, InitLinked DEF IInv

(* Every reachable state satisfies the invariant.                          *)
THEOREM Invariant == Spec => []IInv
<1>1. Init => IInv
  BY InitInvariant
<1>2. IInv /\ [Next]_vars => IInv'
  BY RequestStep, TypeStep, LocksStep, LookedUpStep, OwnKeysStep, LinkedStep, ReadStep,
     AnsweredStep DEF IInv
<1>. QED
  BY <1>1, <1>2, PTL DEF Spec

(* The rows and requests are what they are declared to be.                 *)
THEOREM TypeCorrect == Spec => []TypeOK
<1>1. IInv => TypeOK
  BY DEF IInv
<1>. QED
  BY <1>1, Invariant, PTL

(* The locks of OrderService.java:75-96 and DeliveryService.java:70-92     *)
(* leave the unique indexes nothing to refuse: whoever routes will commit. *)
THEOREM LocksAreEnough == Spec => []LocksSuffice
<1>1. IInv => LocksSuffice
  BY DEF IInv, LookedUp, Holds, Dispatching, Creating, LocksSuffice, UniqueIndexesAllow
<1>. QED
  BY <1>1, Invariant, PTL

(* An order that was dispatched under a key can be asked for by it again,  *)
(* whatever writes its row later, except for one from before V44.          *)
THEOREM BindingsStay == Spec => []KeyBindingKept
<1>1. IInv => KeyBindingKept
  BY DEF IInv, Answered, StillAnswered, KeyBindingKept
<1>. QED
  BY <1>1, Invariant, PTL

(* Two successful dispatches with one key are one dispatch, and an order   *)
(* goes to one vehicle.                                                    *)
THEOREM KeyStandsForOneDispatch == Spec => []OneCommandPerKey
<1>1. ASSUME IInv, NEW g \in granted, NEW h \in granted
      PROVE  g.order = h.order => g.vehicle = h.vehicle
  <2>1. g.order \in Orders
    BY <1>1 DEF IInv, TypeOK, Dispatch
  <2>2. g.order # None
    BY <2>1, DispatchAssumption
  <2>. QED
    BY <1>1, <2>1, <2>2 DEF IInv, Answered, StillAnswered, Linked, LinkedTo
<1>2. ASSUME IInv, NEW g \in granted, NEW h \in granted, g.key = h.key,
             ~BindingLost(g.order), ~BindingLost(h.order)
      PROVE  g = h
  <2>1. g \in Dispatch /\ h \in Dispatch
    BY <1>2 DEF IInv, TypeOK
  <2>2. order[g.order].key = g.key /\ order[h.order].key = g.key
    BY <1>2 DEF IInv, Answered, StillAnswered
  <2>3. g.order = h.order
    BY <1>2, <2>1, <2>2, DispatchAssumption DEF IInv, OwnKeys, Dispatch
  <2>. QED
    BY <1>1, <1>2, <2>1, <2>3 DEF Dispatch
<1>3. IInv => OneCommandPerKey
  BY <1>1, <1>2 DEF OneCommandPerKey
<1>. QED
  BY <1>3, Invariant, PTL

(* An order, its delivery and what was announced of them agree: no step    *)
(* commits one without the other (ADR 0010).                               *)
THEOREM NoStateApart == Spec => []StatesAgree
<1>1. ASSUME IInv, NEW o \in Orders
      PROVE  LET linked == LinkedTo(o)
                 done == {d \in linked : delivery[d].status = "DELIVERED"}
             IN  /\ Cardinality(linked) =
                        IF order[o].status \in {"DISPATCHED", "FULFILLED"} THEN 1 ELSE 0
                 /\ (done # {}) <=> (order[o].status = "FULFILLED")
                 /\ announced[o] = [dispatched |-> Cardinality(linked),
                                    fulfilled |-> Cardinality(done)]
  <2>. DEFINE linked == LinkedTo(o)
              done == {d \in linked : delivery[d].status = "DELIVERED"}
  <2>1. /\ announced[o].dispatched =
              IF order[o].status \in {"DISPATCHED", "FULFILLED"} THEN 1 ELSE 0
        /\ announced[o].fulfilled = IF order[o].status = "FULFILLED" THEN 1 ELSE 0
        /\ linked # {} <=> order[o].status \in {"DISPATCHED", "FULFILLED"}
        /\ \A d \in linked : delivery[d].status = "DELIVERED" <=> order[o].status = "FULFILLED"
    BY <1>1 DEF IInv, Linked
  <2>2. announced[o] = [dispatched |-> announced[o].dispatched, fulfilled |-> announced[o].fulfilled]
    BY <1>1 DEF IInv, TypeOK
  <2>3. linked = {} \/ \E d : linked = {d}
    <3>1. \A d, e \in linked : d = e
      BY <1>1, DispatchAssumption DEF IInv, Linked, LinkedTo
    <3>. QED
      BY <3>1
  <2>4. done = IF order[o].status = "FULFILLED" THEN linked ELSE {}
    BY <2>1
  <2>5. Cardinality(linked) = IF linked = {} THEN 0 ELSE 1
    BY <2>3, FS_EmptySet, FS_Singleton
  <2>6. Cardinality(done) = IF order[o].status = "FULFILLED" THEN 1 ELSE 0
    BY <2>1, <2>4, <2>5, FS_EmptySet
  <2>. HIDE DEF linked, done
  <2>7. (done # {}) <=> (order[o].status = "FULFILLED")
    BY <2>1, <2>4
  <2>8. Cardinality(linked) = IF order[o].status \in {"DISPATCHED", "FULFILLED"} THEN 1 ELSE 0
    BY <2>1, <2>5
  <2>9. announced[o] = [dispatched |-> Cardinality(linked), fulfilled |-> Cardinality(done)]
    BY <2>1, <2>2, <2>6, <2>8
  <2>. QED
    BY <2>7, <2>8, <2>9 DEF linked, done
<1>2. IInv => StatesAgree
  BY <1>1 DEF StatesAgree
<1>. QED
  BY <1>2, Invariant, PTL
=============================================================================

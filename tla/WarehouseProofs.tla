-------------------------- MODULE WarehouseProofs --------------------------
(***************************************************************************)
(* Warehouse commands, for any stocks, keys, clients and quantities.       *)
(*                                                                         *)
(* What a transaction holds follows from how far it is (Held), no lock has *)
(* two holders, and what a transaction found under its locks is still so   *)
(* (StillSo): whoever changes it would need one of them.  That ledger and  *)
(* tasks explain the stock (AccountsInv) is an argument about sums: Units  *)
(* is the size of a set of pairs (UnitsCount), which a task joins or       *)
(* leaves with its quantity (UnitsAdd).                                    *)
(***************************************************************************)
EXTENDS Warehouse, FiniteSetTheorems, TLAPS

Locked == {"keyed", "row", "ready"}

KeyLocks(x) ==
    IF x.stage \notin Locked THEN {}
    ELSE IF x.op # "dispatch" THEN {<<"advisory", x.key>>}
    ELSE IF x.key = None THEN {} ELSE {<<"dispatch key", x.key>>}

PlaceLocks(x) ==
    IF x.stage \notin {"row", "ready"} \/ x.op = "pick" THEN {}
    ELSE IF x.op = "receive" THEN {<<"advisory", x.stock>>} ELSE {<<"task", x.task>>}

RowLocks(x) ==
    IF x.stage = "ready" /\ x.seen.exists THEN {<<"stock", x.stock>>} ELSE {}

Held(x) == KeyLocks(x) \cup PlaceLocks(x) \cup RowLocks(x)

(* How a transaction's own data fit together.                              *)
FitsOp(x) ==
    x.stage # "idle" =>
        /\ x.op # "none" /\ x.task \in Keys
        /\ x.op # "dispatch" => x.key \in Keys /\ x.task = x.key /\ x.stock \in Stocks
        /\ x.op = "dispatch" => x.key \in DispatchKeys \cup {None}
        /\ x.op = "dispatch" /\ x.stage = "received" => x.key # None
        /\ x.stage = "keyed" => x.op # "pick"
        /\ x.stage \in {"row", "ready"} => x.stock \in Stocks
        /\ x.stage = "ready" => Covers(x, x.seen)

StillSo(x, tasks, rows) ==
    /\ x.stage \in Locked /\ x.op # "dispatch" => tasks[x.task] = NoTask
    /\ x.stage \in Locked /\ x.op = "dispatch" /\ x.key # None =>
           \A t \in Keys : tasks[t].request # x.key
    /\ x.stage \in {"row", "ready"} /\ x.op = "dispatch" => tasks[x.task].status = "PICKED"
    /\ x.stage = "ready" => rows[x.stock] = x.seen

TasksAgree ==
    /\ \A t \in Keys : task[t].request # None => task[t].status = "DISPATCHED"
    /\ \A t \in Keys : task[t].status = "PICKED" => task[t].stock \in Stocks
    /\ \A t, u \in Keys : task[t].request # None /\ task[t].request = task[u].request => t = u

GrantsKept ==
    \A g \in granted : task[g.task].status = "DISPATCHED" /\ task[g.task].request = g.key

(* What holds of the rows.                                                 *)
RowsInv ==
    /\ stock \in [Stocks -> StockRow]
    /\ task \in [Keys -> TaskRow]
    /\ ledger \in [Stocks -> Seq(Entry)]
    /\ granted \in SUBSET [key : DispatchKeys, task : Keys]
    /\ NeverOversold
    /\ TasksAgree
    /\ GrantsKept

LocksInv ==
    /\ txn \in [Clients -> Txn]
    /\ locks = [c \in Clients |-> Held(txn[c])]
    /\ \A b, c \in Clients : b # c => Held(txn[b]) \cap Held(txn[c]) = {}

IInv ==
    /\ RowsInv
    /\ LocksInv
    /\ \A c \in Clients : FitsOp(txn[c]) /\ StillSo(txn[c], task, stock)
-----------------------------------------------------------------------------
LEMMA IdleIs == Idle \in Txn /\ Held(Idle) = {} /\ FitsOp(Idle)
                /\ \A tasks, rows : StillSo(Idle, tasks, rows)
<1>1. 0 \in 0 .. MaxQuantity /\ 0 \in 0 .. MaxInt
  BY WarehouseAssumption
<1>2. NoStock \in StockRow
  BY <1>1 DEF NoStock, StockRow
<1>. QED
  BY <1>1, <1>2
  DEF Idle, Txn, Held, KeyLocks, PlaceLocks, RowLocks, FitsOp, StillSo, Locked

LEMMA Rows ==
    ASSUME IInv, NEW c \in Clients
    PROVE  /\ txn[c] \in Txn /\ FitsOp(txn[c]) /\ StillSo(txn[c], task, stock)
           /\ locks[c] = Held(txn[c])
  BY DEF IInv, LocksInv

(* A transaction goes on, with the locks of its new state.                 *)
LEMMA StepPreserves ==
    ASSUME IInv, NEW c \in Clients, NEW x \in Txn, RowsInv',
           txn' = [txn EXCEPT ![c] = x], locks' = [locks EXCEPT ![c] = Held(x)],
           \A b \in Clients \ {c} : Held(x) \cap locks[b] = {},
           FitsOp(x), StillSo(x, task', stock'),
           \A b \in Clients \ {c} : StillSo(txn[b], task', stock')
    PROVE  IInv'
<1>1. \A b \in Clients : txn'[b] = IF b = c THEN x ELSE txn[b]
  BY DEF IInv, LocksInv
<1>2. txn' \in [Clients -> Txn]
  BY DEF IInv, LocksInv
<1>3. locks' = [b \in Clients |-> Held(txn'[b])]
  BY <1>1 DEF IInv, LocksInv
<1>4. \A a, b \in Clients : a # b => Held(txn'[a]) \cap Held(txn'[b]) = {}
  BY <1>1, Rows DEF IInv, LocksInv
<1>5. ASSUME NEW b \in Clients PROVE FitsOp(txn'[b]) /\ StillSo(txn'[b], task', stock')
  BY <1>1, Rows
<1>6. LocksInv'
  BY <1>2, <1>3, <1>4 DEF LocksInv, Held, KeyLocks, PlaceLocks, RowLocks
<1>7. \A b \in Clients : FitsOp(txn[b])' /\ StillSo(txn[b], task, stock)'
  BY <1>5 DEF FitsOp, StillSo, Covers
<1>. QED
  BY <1>6, <1>7 DEF IInv

(* When the rows stay, so does what was found.                             *)
LEMMA QuietStep ==
    ASSUME IInv, NEW c \in Clients, NEW x \in Txn,
           UNCHANGED <<stock, task, ledger, granted>>,
           txn' = [txn EXCEPT ![c] = x], locks' = [locks EXCEPT ![c] = Held(x)],
           \A b \in Clients \ {c} : Held(x) \cap locks[b] = {},
           FitsOp(x), StillSo(x, task, stock)
    PROVE  IInv'
<1>1. RowsInv'
  BY DEF IInv, RowsInv, NeverOversold, TasksAgree, GrantsKept
<1>. QED
  BY <1>1, Rows, StepPreserves

LEMMA FinishPreserves ==
    ASSUME IInv, NEW c \in Clients, Finish(c), RowsInv',
           \A b \in Clients \ {c} : StillSo(txn[b], task', stock')
    PROVE  IInv'
  BY IdleIs, StepPreserves DEF Finish

LEMMA QuietFinish ==
    ASSUME IInv, NEW c \in Clients, Finish(c), UNCHANGED <<stock, task, ledger, granted>>
    PROVE  IInv'
<1>1. RowsInv'
  BY DEF IInv, RowsInv, NeverOversold, TasksAgree, GrantsKept
<1>. QED
  BY <1>1, Rows, FinishPreserves

(* One lock is taken that nobody else holds.                               *)
LEMMA TakePreserves ==
    ASSUME IInv, NEW c \in Clients, NEW x \in Txn, NEW lock,
           UNCHANGED <<stock, task, ledger, granted>>,
           txn' = [txn EXCEPT ![c] = x], Take(c, lock),
           Held(x) = Held(txn[c]) \cup {lock},
           FitsOp(x), StillSo(x, task, stock)
    PROVE  IInv'
<1>1. locks' = [locks EXCEPT ![c] = Held(x)]
  BY Rows DEF Take, IInv, LocksInv
<1>2. ASSUME NEW b \in Clients \ {c} PROVE Held(x) \cap locks[b] = {}
  BY Rows DEF Take, IInv, LocksInv
<1>. QED
  BY <1>1, <1>2, QuietStep
-----------------------------------------------------------------------------
LEMMA ReceivePreserves ==
    ASSUME IInv, NEW c \in Clients, NEW op \in {"receive", "pick"}, NEW k \in Keys,
           NEW s \in Stocks, NEW q \in Quantities, Receive(c, op, k, s, q)
    PROVE  IInv'
<1>. DEFINE x == [Idle EXCEPT !.stage = "received", !.op = op, !.key = k, !.task = k,
                              !.stock = s, !.quantity = q]
<1>1. q \in 0 .. MaxQuantity /\ NoStock \in StockRow
  BY WarehouseAssumption DEF Quantities, NoStock, StockRow
<1>2. /\ x.stage = "received" /\ x.op = op /\ x.key = k /\ x.task = k /\ x.stock = s
      /\ x.quantity = q
  BY DEF Idle
<1>3. x \in Txn
  BY <1>1, IdleIs DEF Txn
<1>4. Held(x) = {} /\ FitsOp(x) /\ StillSo(x, task, stock)
  BY <1>2 DEF Held, KeyLocks, PlaceLocks, RowLocks, FitsOp, StillSo, Locked
<1>5. locks[c] = {}
  BY Rows DEF Receive, Held, KeyLocks, PlaceLocks, RowLocks, Locked
<1>6. locks' = [locks EXCEPT ![c] = Held(x)]
  BY <1>4, <1>5 DEF Receive, IInv, LocksInv
<1>7. txn' = [txn EXCEPT ![c] = x] /\ UNCHANGED <<stock, task, ledger, granted>>
  BY DEF Receive
<1>. HIDE DEF x
<1>. QED
  BY <1>3, <1>4, <1>6, <1>7, QuietStep

LEMMA ReceiveDispatchPreserves ==
    ASSUME IInv, NEW c \in Clients, NEW k \in DispatchKeys \cup {None}, NEW t \in Keys,
           ReceiveDispatch(c, k, t)
    PROVE  IInv'
<1>. DEFINE stage == IF k = None THEN "keyed" ELSE "received"
            x == [Idle EXCEPT !.stage = stage, !.op = "dispatch", !.key = k, !.task = t]
<1>1. 0 \in 0 .. MaxQuantity /\ NoStock \in StockRow
  BY WarehouseAssumption DEF NoStock, StockRow
<1>2. x.stage = stage /\ x.op = "dispatch" /\ x.key = k /\ x.task = t
  BY DEF Idle
<1>3. x \in Txn
  BY <1>1, IdleIs DEF Txn
<1>4. Held(x) = {} /\ FitsOp(x) /\ StillSo(x, task, stock)
  <2>. HIDE DEF x
  <2>1. CASE k = None
    BY <1>2, <2>1 DEF Held, KeyLocks, PlaceLocks, RowLocks, FitsOp, StillSo, Locked
  <2>2. CASE k # None
    BY <1>2, <2>2 DEF Held, KeyLocks, PlaceLocks, RowLocks, FitsOp, StillSo, Locked
  <2>. QED
    BY <2>1, <2>2
<1>5. locks[c] = {}
  BY Rows DEF ReceiveDispatch, Held, KeyLocks, PlaceLocks, RowLocks, Locked
<1>6. locks' = [locks EXCEPT ![c] = Held(x)]
  BY <1>4, <1>5 DEF ReceiveDispatch, IInv, LocksInv
<1>7. txn' = [txn EXCEPT ![c] = x] /\ UNCHANGED <<stock, task, ledger, granted>>
  BY DEF ReceiveDispatch
<1>. HIDE DEF x
<1>. QED
  BY <1>3, <1>4, <1>6, <1>7, QuietStep

LEMMA LockKeyPreserves == ASSUME IInv, NEW c \in Clients, LockKey(c) PROVE IInv'
<1>. DEFINE x == txn[c]
            next == IF x.op = "receive" THEN "keyed" ELSE "row"
            y == [x EXCEPT !.stage = next]
<1>1. x \in Txn /\ FitsOp(x) /\ x.stage = "received" /\ x.op # "dispatch"
  BY Rows DEF LockKey
<1>2. CASE task[x.key] = NoTask
  <2>1. /\ Take(c, <<"advisory", x.key>>) /\ txn' = [txn EXCEPT ![c] = y]
        /\ UNCHANGED <<stock, task, ledger, granted>>
    BY <1>1, <1>2 DEF LockKey, Advance, Wanted
  <2>2. y \in Txn /\ y.stage = next /\ y.op = x.op /\ y.key = x.key /\ y.task = x.task
        /\ y.stock = x.stock
    BY <1>1 DEF Txn
  <2>3. /\ x.op \in {"receive", "pick"} /\ x.key \in Keys /\ x.task = x.key /\ x.stock \in Stocks
    BY <1>1 DEF FitsOp, Txn
  <2>4. FitsOp(y) /\ StillSo(y, task, stock)
    BY <1>1, <1>2, <2>2, <2>3 DEF FitsOp, StillSo, Locked
  <2>. HIDE DEF y
  <2>5. Held(x) = {}
    BY <1>1 DEF Held, KeyLocks, PlaceLocks, RowLocks, Locked
  <2>6. KeyLocks(y) = {<<"advisory", x.key>>} /\ PlaceLocks(y) = {} /\ RowLocks(y) = {}
    BY <1>1, <2>2, <2>3 DEF KeyLocks, PlaceLocks, RowLocks, Locked
  <2>. QED
    BY <2>1, <2>2, <2>4, <2>5, <2>6, TakePreserves DEF Held
<1>3. CASE task[x.key] # NoTask
  BY <1>3, QuietFinish DEF LockKey
<1>. QED
  BY <1>2, <1>3

LEMMA LockStockKeyPreserves == ASSUME IInv, NEW c \in Clients, LockStockKey(c) PROVE IInv'
<1>. DEFINE x == txn[c]
            y == [x EXCEPT !.stage = "row"]
<1>1. /\ x \in Txn /\ FitsOp(x) /\ StillSo(x, task, stock)
      /\ x.stage = "keyed" /\ x.op = "receive"
  BY Rows DEF LockStockKey
<1>2. /\ Take(c, <<"advisory", x.stock>>) /\ txn' = [txn EXCEPT ![c] = y]
      /\ UNCHANGED <<stock, task, ledger, granted>>
  BY <1>1 DEF LockStockKey, Advance, Wanted
<1>3. y \in Txn /\ y.stage = "row" /\ y.op = "receive" /\ y.key = x.key /\ y.task = x.task
      /\ y.stock = x.stock
  BY <1>1 DEF Txn
<1>4. FitsOp(y) /\ StillSo(y, task, stock)
  BY <1>1, <1>3 DEF FitsOp, StillSo, Locked
<1>5. Held(y) = Held(x) \cup {<<"advisory", x.stock>>}
  BY <1>1, <1>3 DEF Held, KeyLocks, PlaceLocks, RowLocks, Locked
<1>. HIDE DEF y
<1>. QED
  BY <1>2, <1>3, <1>4, <1>5, TakePreserves

(* The rows, but for what is granted.                                      *)
LEMMA GrantPreserves ==
    ASSUME IInv, NEW c \in Clients, Finish(c), UNCHANGED <<stock, task, ledger>>,
           granted' \in SUBSET [key : DispatchKeys, task : Keys], GrantsKept'
    PROVE  IInv'
<1>1. RowsInv'
  BY DEF IInv, RowsInv, NeverOversold, TasksAgree
<1>. QED
  BY <1>1, Rows, FinishPreserves

LEMMA LockDispatchKeyPreserves ==
    ASSUME IInv, NEW c \in Clients, LockDispatchKey(c) PROVE IInv'
<1>. DEFINE x == txn[c]
            prior == {t \in Keys : task[t].request = x.key}
            y == [x EXCEPT !.stage = "keyed"]
<1>1. /\ x \in Txn /\ FitsOp(x) /\ x.stage = "received" /\ x.op = "dispatch"
      /\ UNCHANGED <<stock, task, ledger>>
  BY Rows DEF LockDispatchKey
<1>2. x.key \in DispatchKeys /\ x.key # None /\ x.task \in Keys
  BY <1>1 DEF FitsOp
<1>3. CASE prior = {}
  <2>1. /\ Take(c, <<"dispatch key", x.key>>) /\ txn' = [txn EXCEPT ![c] = y]
        /\ UNCHANGED <<stock, task, ledger, granted>>
    BY <1>1, <1>3 DEF LockDispatchKey, Advance, Wanted
  <2>2. y \in Txn /\ y.stage = "keyed" /\ y.op = "dispatch" /\ y.key = x.key /\ y.task = x.task
    BY <1>1 DEF Txn
  <2>3. FitsOp(y) /\ StillSo(y, task, stock)
    BY <1>2, <1>3, <2>2 DEF FitsOp, StillSo, Locked
  <2>. HIDE DEF y
  <2>4. Held(x) = {}
    BY <1>1 DEF Held, KeyLocks, PlaceLocks, RowLocks, Locked
  <2>5. KeyLocks(y) = {<<"dispatch key", x.key>>} /\ PlaceLocks(y) = {} /\ RowLocks(y) = {}
    BY <1>2, <2>2 DEF KeyLocks, PlaceLocks, RowLocks, Locked
  <2>. QED
    BY <2>1, <2>2, <2>3, <2>4, <2>5, TakePreserves DEF Held
<1>4. CASE prior # {}
  <2>1. /\ Finish(c)
        /\ granted' = granted \cup {[key |-> x.key, task |-> t] : t \in prior \cap {x.task}}
    BY <1>4 DEF LockDispatchKey
  <2>2. \A g \in granted' : g \in granted \/ (g = [key |-> x.key, task |-> x.task]
                                               /\ task[x.task].request = x.key)
    BY <2>1
  <2>3. granted' \in SUBSET [key : DispatchKeys, task : Keys]
    BY <1>2, <2>2 DEF IInv, RowsInv
  <2>4. GrantsKept'
    BY <1>1, <1>2, <2>2 DEF IInv, RowsInv, GrantsKept, TasksAgree
  <2>. QED
    BY <1>1, <2>1, <2>3, <2>4, GrantPreserves
<1>. QED
  BY <1>3, <1>4

(* Only the holder of a dispatch key gives it to a task.                   *)
LEMMA KeyIsMine ==
    ASSUME IInv, NEW b \in Clients, NEW c \in Clients, b # c,
           txn[b].op = "dispatch", txn[b].stage \in Locked, txn[b].key # None,
           txn[c].op = "dispatch", txn[c].stage \in Locked
    PROVE  txn[b].key # txn[c].key
<1>. SUFFICES ASSUME txn[b].key = txn[c].key PROVE FALSE
  OBVIOUS
<1>1. <<"dispatch key", txn[b].key>> \in Held(txn[b]) \cap Held(txn[c])
  BY DEF Held, KeyLocks
<1>. QED
  BY <1>1 DEF IInv, LocksInv

LEMMA LockTaskPreserves == ASSUME IInv, NEW c \in Clients, LockTask(c) PROVE IInv'
<1>. DEFINE x == txn[c]
            t == task[x.task]
            y == [x EXCEPT !.stage = "row", !.stock = t.stock, !.quantity = t.quantity]
<1>1. /\ x \in Txn /\ FitsOp(x) /\ StillSo(x, task, stock)
      /\ x.stage = "keyed" /\ x.op = "dispatch" /\ UNCHANGED <<stock, ledger>>
  BY Rows DEF LockTask
<1>2. x.task \in Keys /\ x.key \in DispatchKeys \cup {None} /\ t \in TaskRow
  BY <1>1 DEF FitsOp, IInv, RowsInv
<1>3. CASE t.status = "PICKED"
  <2>1. /\ Take(c, <<"task", x.task>>) /\ txn' = [txn EXCEPT ![c] = y]
        /\ UNCHANGED <<stock, task, ledger, granted>>
    BY <1>1, <1>3 DEF LockTask, Wanted
  <2>2. t.stock \in Stocks /\ t.quantity \in 0 .. MaxQuantity
    BY <1>2, <1>3 DEF TaskRow, IInv, RowsInv, TasksAgree
  <2>3. y \in Txn /\ y.stage = "row" /\ y.op = "dispatch" /\ y.key = x.key /\ y.task = x.task
        /\ y.stock = t.stock
    BY <1>1, <2>2 DEF Txn
  <2>4. FitsOp(y) /\ StillSo(y, task, stock)
    BY <1>1, <1>2, <1>3, <2>2, <2>3 DEF FitsOp, StillSo, Locked
  <2>. HIDE DEF y
  <2>5. Held(y) = Held(x) \cup {<<"task", x.task>>}
    <3>1. KeyLocks(y) = KeyLocks(x)
      BY <1>1, <2>3 DEF KeyLocks, Locked
    <3>2. PlaceLocks(x) = {} /\ RowLocks(x) = {} /\ RowLocks(y) = {}
      BY <1>1, <2>3 DEF PlaceLocks, RowLocks
    <3>3. PlaceLocks(y) = {<<"task", x.task>>}
      BY <2>3 DEF PlaceLocks
    <3>. QED
      BY <3>1, <3>2, <3>3 DEF Held
  <2>. QED
    BY <2>1, <2>3, <2>4, <2>5, TakePreserves
<1>4. CASE t.status # "PICKED" /\ Adopt(x)
  <2>1. /\ Finish(c) /\ task' = [task EXCEPT ![x.task].request = x.key]
        /\ granted' = IF x.key # None /\ task'[x.task].request = x.key
                      THEN granted \cup {[key |-> x.key, task |-> x.task]} ELSE granted
    BY <1>1, <1>4 DEF LockTask
  <2>2. t.status = "DISPATCHED" /\ x.key # None /\ t.request = None
    BY <1>4 DEF Adopt
  <2>3. \A u \in Keys : task'[u] = IF u = x.task THEN [t EXCEPT !.request = x.key] ELSE task[u]
    BY <1>2, <2>1 DEF IInv, RowsInv
  <2>4. [t EXCEPT !.request = x.key] \in TaskRow /\ task' \in [Keys -> TaskRow]
    BY <1>2, <2>1 DEF TaskRow, IInv, RowsInv
  <2>5. /\ task'[x.task].request = x.key /\ task'[x.task].status = "DISPATCHED"
        /\ task'[x.task].stock = t.stock
    BY <1>2, <2>2, <2>3 DEF TaskRow
  <2>6. \A u \in Keys : task[u].request # x.key
    BY <1>1, <2>2 DEF StillSo, Locked
  <2>7. TasksAgree'
    <3>1. \A u \in Keys : task'[u].request # None => task'[u].status = "DISPATCHED"
      BY <2>3, <2>5 DEF IInv, RowsInv, TasksAgree
    <3>2. \A u \in Keys : task'[u].status = "PICKED" => task'[u].stock \in Stocks
      BY <2>3, <2>5 DEF IInv, RowsInv, TasksAgree
    <3>3. \A u, v \in Keys :
            task'[u].request # None /\ task'[u].request = task'[v].request => u = v
      BY <2>3, <2>5, <2>6 DEF IInv, RowsInv, TasksAgree
    <3>. QED
      BY <3>1, <3>2, <3>3 DEF TasksAgree
  <2>8. GrantsKept' /\ granted' \in SUBSET [key : DispatchKeys, task : Keys]
    <3>1. granted' = granted \cup {[key |-> x.key, task |-> x.task]}
      BY <2>1, <2>2, <2>5
    <3>2. \A g \in granted : g.key # None /\ g.task \in Keys
      BY WarehouseAssumption DEF IInv, RowsInv
    <3>3. \A g \in granted : g.task # x.task
      BY <2>2, <3>2 DEF IInv, RowsInv, GrantsKept
    <3>4. granted' \in SUBSET [key : DispatchKeys, task : Keys]
      BY <1>2, <2>2, <3>1 DEF IInv, RowsInv
    <3>. QED
      BY <2>3, <2>5, <3>1, <3>2, <3>3, <3>4 DEF IInv, RowsInv, GrantsKept
  <2>9. RowsInv'
    BY <1>1, <2>4, <2>7, <2>8 DEF IInv, RowsInv, NeverOversold
  <2>10. ASSUME NEW b \in Clients \ {c} PROVE StillSo(txn[b], task', stock')
    <3>1. StillSo(txn[b], task, stock) /\ FitsOp(txn[b])
      BY Rows
    <3>2. txn[b].stage \in Locked => txn[b].task \in Keys
      BY <3>1 DEF FitsOp, Locked
    <3>3. txn[b].stage \in Locked /\ txn[b].op # "dispatch" => task'[txn[b].task] = NoTask
      BY <2>2, <2>3, <3>1, <3>2 DEF StillSo, NoTask
    <3>4. txn[b].stage \in {"row", "ready"} /\ txn[b].op = "dispatch" =>
            task'[txn[b].task].status = "PICKED"
      BY <2>2, <2>3, <3>1, <3>2 DEF StillSo, Locked
    <3>5. ASSUME txn[b].stage \in Locked, txn[b].op = "dispatch", txn[b].key # None,
                 NEW u \in Keys
          PROVE  task'[u].request # txn[b].key
      BY <1>1, <2>3, <2>5, <3>1, <3>5, KeyIsMine DEF StillSo, Locked
    <3>6. txn[b].stage = "ready" => stock'[txn[b].stock] = txn[b].seen
      BY <1>1, <3>1 DEF StillSo
    <3>. QED
      BY <3>3, <3>4, <3>5, <3>6 DEF StillSo
  <2>. QED
    BY <2>1, <2>9, <2>10, FinishPreserves
<1>5. CASE t.status # "PICKED" /\ ~Adopt(x)
  <2>1. /\ Finish(c) /\ task' = task
        /\ granted' = IF x.key # None /\ task'[x.task].request = x.key
                      THEN granted \cup {[key |-> x.key, task |-> x.task]} ELSE granted
    BY <1>1, <1>5 DEF LockTask
  <2>2. \A g \in granted' : g \in granted \/ (g = [key |-> x.key, task |-> x.task]
                                               /\ x.key # None /\ task[x.task].request = x.key)
    BY <2>1
  <2>3. granted' \in SUBSET [key : DispatchKeys, task : Keys]
    BY <1>2, <2>2 DEF IInv, RowsInv
  <2>4. GrantsKept'
    BY <1>2, <2>1, <2>2 DEF IInv, RowsInv, GrantsKept, TasksAgree
  <2>. QED
    BY <1>1, <2>1, <2>3, <2>4, GrantPreserves
<1>. QED
  BY <1>3, <1>4, <1>5

LEMMA LockStockPreserves == ASSUME IInv, NEW c \in Clients, LockStock(c) PROVE IInv'
<1>. DEFINE x == txn[c]
            row == stock[x.stock]
            y == [x EXCEPT !.stage = "ready", !.seen = row]
<1>1. /\ x \in Txn /\ FitsOp(x) /\ StillSo(x, task, stock)
      /\ x.stage = "row" /\ UNCHANGED <<stock, task, ledger, granted>>
  BY Rows DEF LockStock
<1>2. x.stock \in Stocks /\ row \in StockRow
  BY <1>1 DEF FitsOp, IInv, RowsInv
<1>3. CASE Covers(x, row)
  <2>1. /\ IF row.exists THEN Take(c, <<"stock", x.stock>>) ELSE UNCHANGED locks
        /\ txn' = [txn EXCEPT ![c] = y]
    BY <1>1, <1>3 DEF LockStock, Wanted
  <2>2. y \in Txn /\ y.stage = "ready" /\ y.op = x.op /\ y.key = x.key /\ y.task = x.task
        /\ y.stock = x.stock /\ y.seen = row /\ y.quantity = x.quantity
    BY <1>1, <1>2 DEF Txn
  <2>. HIDE DEF y
  <2>3. FitsOp(y)
    BY <1>1, <1>3, <2>2 DEF FitsOp, Covers
  <2>4. StillSo(y, task, stock)
    BY <1>1, <2>2 DEF StillSo, Locked
  <2>5. KeyLocks(y) = KeyLocks(x) /\ PlaceLocks(y) = PlaceLocks(x) /\ RowLocks(x) = {}
    BY <1>1, <2>2 DEF KeyLocks, PlaceLocks, RowLocks, Locked
  <2>6. CASE row.exists
    <3>1. Held(y) = Held(x) \cup {<<"stock", x.stock>>}
      BY <2>2, <2>5, <2>6 DEF Held, RowLocks
    <3>. QED
      BY <1>1, <2>1, <2>2, <2>3, <2>4, <2>6, <3>1, TakePreserves
  <2>7. CASE ~row.exists
    <3>1. Held(y) = Held(x)
      BY <2>2, <2>5, <2>7 DEF Held, RowLocks
    <3>2. locks' = [locks EXCEPT ![c] = Held(y)]
      BY <2>1, <2>7, <3>1 DEF IInv, LocksInv
    <3>3. \A b \in Clients \ {c} : Held(y) \cap locks[b] = {}
      BY <3>1 DEF IInv, LocksInv
    <3>. QED
      BY <1>1, <2>1, <2>2, <2>3, <2>4, <3>2, <3>3, QuietStep
  <2>. QED
    BY <2>6, <2>7
<1>4. CASE ~Covers(x, row)
  BY <1>1, <1>4, QuietFinish DEF LockStock
<1>. QED
  BY <1>3, <1>4

LEMMA RollBackPreserves == ASSUME IInv, NEW c \in Clients, RollBack(c) PROVE IInv'
  BY QuietFinish DEF RollBack
-----------------------------------------------------------------------------
(* What another transaction that is ready has locked is not what this one  *)
(* has: neither its task nor its stock.                                    *)
LEMMA ReadyIsAlone ==
    ASSUME IInv, NEW b \in Clients, NEW c \in Clients, b # c, txn[c].stage = "ready",
           txn[b].stage \in Locked
    PROVE  /\ txn[b].op # "dispatch" => txn[b].task # txn[c].task
           /\ txn[b].op = "dispatch" /\ txn[b].stage \in {"row", "ready"} =>
                  txn[b].task # txn[c].task
           /\ txn[b].stage = "ready" => txn[b].stock # txn[c].stock
<1>. DEFINE x == txn[c]
            y == txn[b]
<1>1. /\ x \in Txn /\ FitsOp(x) /\ StillSo(x, task, stock)
      /\ y \in Txn /\ FitsOp(y) /\ StillSo(y, task, stock)
      /\ Held(x) \cap Held(y) = {}
  BY Rows DEF IInv, LocksInv
<1>2. NoTask.status # "PICKED"
  BY DEF NoTask
<1>3. x.stage \in Locked
  BY DEF Locked
<1>4. ASSUME y.op # "dispatch", y.task = x.task PROVE FALSE
  <2>1. task[y.task] = NoTask /\ y.task = y.key
    BY <1>1, <1>4 DEF StillSo, FitsOp, Locked
  <2>2. CASE x.op = "dispatch"
    BY <1>1, <1>2, <1>4, <2>1, <2>2 DEF StillSo
  <2>3. CASE x.op # "dispatch"
    <3>1. x.task = x.key
      BY <1>1, <2>3 DEF FitsOp
    <3>2. <<"advisory", x.key>> \in Held(x) /\ <<"advisory", x.key>> \in Held(y)
      BY <1>3, <1>4, <2>1, <2>3, <3>1 DEF Held, KeyLocks
    <3>. QED
      BY <1>1, <3>2
  <2>. QED
    BY <2>2, <2>3
<1>5. ASSUME y.op = "dispatch", y.stage \in {"row", "ready"}, y.task = x.task PROVE FALSE
  <2>1. CASE x.op = "dispatch"
    <3>1. <<"task", x.task>> \in Held(x) /\ <<"task", x.task>> \in Held(y)
      BY <1>5, <2>1 DEF Held, PlaceLocks
    <3>. QED
      BY <1>1, <3>1
  <2>2. CASE x.op # "dispatch"
    BY <1>1, <1>2, <1>3, <1>5, <2>2 DEF StillSo
  <2>. QED
    BY <2>1, <2>2
<1>6. ASSUME y.stage = "ready", y.stock = x.stock PROVE FALSE
  <2>1. x.seen = stock[x.stock] /\ y.seen = x.seen
    BY <1>1, <1>6 DEF StillSo
  <2>2. CASE x.seen.exists
    <3>1. <<"stock", x.stock>> \in Held(x) /\ <<"stock", x.stock>> \in Held(y)
      BY <1>6, <2>1, <2>2 DEF Held, RowLocks
    <3>. QED
      BY <1>1, <3>1
  <2>3. CASE ~x.seen.exists
    <3>1. x.op = "receive" /\ y.op = "receive"
      BY <1>1, <1>6, <2>1, <2>3 DEF FitsOp, Covers, Txn
    <3>2. <<"advisory", x.stock>> \in Held(x) /\ <<"advisory", x.stock>> \in Held(y)
      BY <1>6, <3>1 DEF Held, PlaceLocks
    <3>. QED
      BY <1>1, <3>2
  <2>. QED
    BY <2>2, <2>3
<1>. QED
  BY <1>4, <1>5, <1>6

(* What a command does to a row it covers.                                 *)
LEMMA ChangedIs ==
    ASSUME NEW x \in Txn, Covers(x, x.seen), x.op # "none",
           x.seen.reserved <= x.seen.onHand
    PROVE  /\ Changed(x) \in StockRow /\ Changed(x).reserved <= Changed(x).onHand
           /\ OnHandDelta(x) \in Int /\ ReservedDelta(x) \in Int
           /\ Changed(x).onHand = x.seen.onHand + OnHandDelta(x)
           /\ Changed(x).reserved = x.seen.reserved + ReservedDelta(x)
           /\ Changed(x).exists = TRUE
<1>1. /\ x.quantity \in Nat /\ x.seen.onHand \in Nat /\ x.seen.reserved \in Nat
      /\ x.seen.onHand <= MaxInt /\ x.op \in {"receive", "pick", "dispatch"} /\ MaxInt \in Nat
  BY WarehouseAssumption DEF Txn, StockRow
<1>2. CASE x.op = "receive"
  <2>1. OnHandDelta(x) = x.quantity /\ ReservedDelta(x) = 0 /\ x.seen.onHand <= MaxInt - x.quantity
    BY <1>2 DEF OnHandDelta, ReservedDelta, Covers
  <2>. QED
    BY <1>1, <2>1 DEF Changed, StockRow
<1>3. CASE x.op = "pick"
  <2>1. OnHandDelta(x) = 0 /\ ReservedDelta(x) = x.quantity
        /\ x.seen.onHand - x.seen.reserved >= x.quantity
    BY <1>3 DEF OnHandDelta, ReservedDelta, Covers
  <2>. QED
    BY <1>1, <2>1 DEF Changed, StockRow
<1>4. CASE x.op = "dispatch"
  <2>1. OnHandDelta(x) = -x.quantity /\ ReservedDelta(x) = -x.quantity
        /\ x.seen.reserved >= x.quantity
    BY <1>4 DEF OnHandDelta, ReservedDelta, Covers
  <2>. QED
    BY <1>1, <2>1 DEF Changed, StockRow
<1>. QED
  BY <1>1, <1>2, <1>3, <1>4

LEMMA CommitRows ==
    ASSUME IInv, NEW c \in Clients, Commit(c)
    PROVE  LET x == txn[c]
               t == task'[x.task]
           IN  /\ x \in Txn /\ x.stage = "ready" /\ x.task \in Keys /\ x.stock \in Stocks
               /\ x.seen = stock[x.stock] /\ Changed(x) \in StockRow
               /\ Changed(x).reserved <= Changed(x).onHand
               /\ EntryOf(x) \in Entry
               /\ stock' = [stock EXCEPT ![x.stock] = Changed(x)]
               /\ ledger' = [ledger EXCEPT ![x.stock] = Append(@, EntryOf(x))]
               /\ task' \in [Keys -> TaskRow]
               /\ \A u \in Keys \ {x.task} : task'[u] = task[u]
               /\ x.op = "dispatch" =>
                     /\ t.status = "DISPATCHED" /\ t.request = x.key
                     /\ task[x.task].status = "PICKED"
                     /\ granted' = granted \cup
                          ({[key |-> x.key, task |-> x.task]} \cap [key : DispatchKeys, task : Keys])
               /\ x.op # "dispatch" =>
                     /\ t.request = None /\ t.status # "DISPATCHED" /\ t.stock \in Stocks
                     /\ task[x.task] = NoTask
                     /\ granted' = granted
               /\ Finish(c)
<1>. DEFINE x == txn[c]
<1>1. /\ x \in Txn /\ FitsOp(x) /\ StillSo(x, task, stock) /\ x.stage = "ready"
  BY Rows DEF Commit
<1>2. /\ x.task \in Keys /\ x.stock \in Stocks /\ Covers(x, x.seen) /\ x.op # "none"
      /\ x.op = "dispatch" => x.key \in DispatchKeys \cup {None}
      /\ x.seen = stock[x.stock]
  BY <1>1 DEF FitsOp, StillSo
<1>3. x.seen.reserved <= x.seen.onHand
  BY <1>2 DEF IInv, RowsInv, NeverOversold
<1>4. /\ Changed(x) \in StockRow /\ Changed(x).reserved <= Changed(x).onHand
      /\ OnHandDelta(x) \in Int /\ ReservedDelta(x) \in Int
  BY <1>1, <1>2, <1>3, ChangedIs
<1>5. EntryOf(x) \in Entry
  <2>1. x.op \in {"receive", "pick", "dispatch"}
    BY <1>1, <1>2 DEF Txn
  <2>2. Changed(x).onHand \in Int /\ Changed(x).reserved \in Int
    BY <1>4 DEF StockRow
  <2>. QED
    BY <1>2, <1>4, <2>1, <2>2 DEF EntryOf, Entry
<1>6. /\ stock' = [stock EXCEPT ![x.stock] = Changed(x)]
      /\ ledger' = [ledger EXCEPT ![x.stock] = Append(@, EntryOf(x))]
      /\ Finish(c)
  BY DEF Commit
<1>7. task \in [Keys -> TaskRow]
  BY DEF IInv, RowsInv
<1>8. CASE x.op = "dispatch"
  <2>. DEFINE new == [task[x.task] EXCEPT !.status = "DISPATCHED", !.request = x.key]
  <2>1. /\ task' = [task EXCEPT ![x.task] = new]
        /\ granted' = granted \cup
             ({[key |-> x.key, task |-> x.task]} \cap [key : DispatchKeys, task : Keys])
    BY <1>8 DEF Commit
  <2>2. new \in TaskRow /\ new.status = "DISPATCHED" /\ new.request = x.key
    BY <1>2, <1>7, <1>8 DEF TaskRow
  <2>3. task[x.task].status = "PICKED"
    BY <1>1, <1>8 DEF StillSo
  <2>. HIDE DEF new
  <2>. QED
    BY <1>1, <1>2, <1>4, <1>5, <1>6, <1>7, <1>8, <2>1, <2>2, <2>3
<1>9. CASE x.op # "dispatch"
  <2>. DEFINE new == [status |-> IF x.op = "receive" THEN "RECEIVED" ELSE "PICKED",
                      stock |-> x.stock, quantity |-> x.quantity, request |-> None]
  <2>1. task' = [task EXCEPT ![x.task] = new] /\ granted' = granted
    BY <1>9 DEF Commit
  <2>2. /\ new \in TaskRow /\ new.status # "DISPATCHED" /\ new.request = None
        /\ new.stock \in Stocks
    BY <1>1, <1>2 DEF TaskRow, Txn
  <2>3. task[x.task] = NoTask
    BY <1>1, <1>9 DEF StillSo, Locked
  <2>. HIDE DEF new
  <2>. QED
    BY <1>1, <1>2, <1>4, <1>5, <1>6, <1>7, <1>9, <2>1, <2>2, <2>3
<1>. QED
  BY <1>8, <1>9

LEMMA CommitPreserves == ASSUME IInv, NEW c \in Clients, Commit(c) PROVE IInv'
<1>. DEFINE x == txn[c]
            t == task'[x.task]
<1>1. /\ x.stage = "ready" /\ x.task \in Keys /\ x.stock \in Stocks
      /\ Changed(x) \in StockRow /\ Changed(x).reserved <= Changed(x).onHand
      /\ EntryOf(x) \in Entry
      /\ stock' = [stock EXCEPT ![x.stock] = Changed(x)]
      /\ ledger' = [ledger EXCEPT ![x.stock] = Append(@, EntryOf(x))]
      /\ task' \in [Keys -> TaskRow]
      /\ \A u \in Keys \ {x.task} : task'[u] = task[u]
  BY CommitRows
<1>2. x.op = "dispatch" =>
        /\ t.status = "DISPATCHED" /\ t.request = x.key
        /\ task[x.task].status = "PICKED"
        /\ granted' = granted \cup
             ({[key |-> x.key, task |-> x.task]} \cap [key : DispatchKeys, task : Keys])
  BY CommitRows
<1>3. x.op # "dispatch" =>
        /\ t.request = None /\ t.status # "DISPATCHED" /\ t.stock \in Stocks
        /\ task[x.task] = NoTask /\ granted' = granted
  BY CommitRows
<1>4. Finish(c) /\ FitsOp(x) /\ StillSo(x, task, stock) /\ x \in Txn
  BY CommitRows, Rows
<1>5. NoTask.status = "NONE" /\ NoTask.request = None
  BY DEF NoTask
<1>6. stock' \in [Stocks -> StockRow] /\ NeverOversold'
  <2>1. \A s \in Stocks : stock'[s] = IF s = x.stock THEN Changed(x) ELSE stock[s]
    BY <1>1 DEF IInv, RowsInv
  <2>2. 0 <= Changed(x).reserved /\ Changed(x).onHand <= MaxInt
    BY <1>1, WarehouseAssumption DEF StockRow
  <2>. QED
    BY <1>1, <2>1, <2>2 DEF IInv, RowsInv, NeverOversold
<1>7. ledger' \in [Stocks -> Seq(Entry)]
  BY <1>1 DEF IInv, RowsInv
<1>8. TasksAgree'
  <2>1. CASE x.op = "dispatch"
    <3>1. \A u \in Keys : task[u].request # x.key \/ x.key = None
      BY <1>1, <1>4, <2>1 DEF StillSo, Locked
    <3>2. \A u \in Keys : task'[u].request # None => task'[u].status = "DISPATCHED"
      BY <1>1, <1>2, <2>1 DEF IInv, RowsInv, TasksAgree
    <3>3. \A u \in Keys : task'[u].status = "PICKED" => task'[u].stock \in Stocks
      BY <1>1, <1>2, <2>1 DEF IInv, RowsInv, TasksAgree
    <3>4. ASSUME NEW u \in Keys, NEW v \in Keys,
                 task'[u].request # None, task'[u].request = task'[v].request
          PROVE  u = v
      <4>1. CASE u = x.task \/ v = x.task
        BY <1>1, <1>2, <2>1, <3>1, <3>4, <4>1
      <4>2. CASE u # x.task /\ v # x.task
        BY <1>1, <3>4, <4>2 DEF IInv, RowsInv, TasksAgree
      <4>. QED
        BY <4>1, <4>2
    <3>. QED
      BY <3>2, <3>3, <3>4 DEF TasksAgree
  <2>2. CASE x.op # "dispatch"
    <3>1. \A u \in Keys : task'[u].request # None => u # x.task /\ task'[u] = task[u]
      BY <1>1, <1>3, <2>2
    <3>2. \A u \in Keys : task'[u].request # None => task'[u].status = "DISPATCHED"
      BY <3>1 DEF IInv, RowsInv, TasksAgree
    <3>3. \A u \in Keys : task'[u].status = "PICKED" => task'[u].stock \in Stocks
      BY <1>1, <1>3, <2>2 DEF IInv, RowsInv, TasksAgree
    <3>4. \A u, v \in Keys : task'[u].request # None /\ task'[u].request = task'[v].request => u = v
      BY <3>1 DEF IInv, RowsInv, TasksAgree
    <3>. QED
      BY <3>2, <3>3, <3>4 DEF TasksAgree
  <2>. QED
    BY <2>1, <2>2
<1>9. granted' \in SUBSET [key : DispatchKeys, task : Keys] /\ GrantsKept'
  <2>1. \A g \in granted : g.task \in Keys /\ g.task # x.task
    BY <1>2, <1>3, <1>5 DEF IInv, RowsInv, GrantsKept
  <2>2. \A g \in granted : task'[g.task] = task[g.task]
    BY <1>1, <2>1
  <2>3. CASE x.op = "dispatch"
    BY <1>2, <2>2, <2>3 DEF IInv, RowsInv, GrantsKept
  <2>4. CASE x.op # "dispatch"
    BY <1>3, <2>2, <2>4 DEF IInv, RowsInv, GrantsKept
  <2>. QED
    BY <2>3, <2>4
<1>10. RowsInv'
  BY <1>1, <1>6, <1>7, <1>8, <1>9 DEF RowsInv
<1>11. ASSUME NEW b \in Clients \ {c} PROVE StillSo(txn[b], task', stock')
  <2>1. StillSo(txn[b], task, stock) /\ FitsOp(txn[b])
    BY Rows
  <2>2. /\ txn[b].stage \in Locked => txn[b].task \in Keys
        /\ txn[b].stage = "ready" => txn[b].stock \in Stocks
    BY <2>1 DEF FitsOp, Locked
  <2>3. txn[b].stage \in Locked /\ txn[b].op # "dispatch" => task'[txn[b].task] = NoTask
    BY <1>1, <2>1, <2>2, ReadyIsAlone DEF StillSo
  <2>4. txn[b].stage \in {"row", "ready"} /\ txn[b].op = "dispatch" =>
          task'[txn[b].task].status = "PICKED"
    BY <1>1, <2>1, <2>2, ReadyIsAlone DEF StillSo, Locked
  <2>5. ASSUME txn[b].stage \in Locked, txn[b].op = "dispatch", txn[b].key # None,
               NEW u \in Keys
        PROVE  task'[u].request # txn[b].key
    <3>1. CASE u # x.task
      BY <1>1, <2>1, <2>5, <3>1 DEF StillSo
    <3>2. CASE u = x.task /\ x.op # "dispatch"
      BY <1>3, <2>5, <3>2
    <3>3. CASE u = x.task /\ x.op = "dispatch"
      BY <1>1, <1>2, <2>5, <3>3, KeyIsMine DEF Locked
    <3>. QED
      BY <3>1, <3>2, <3>3
  <2>6. txn[b].stage = "ready" => stock'[txn[b].stock] = txn[b].seen
    BY <1>1, <2>1, <2>2, ReadyIsAlone DEF StillSo, Locked, IInv, RowsInv
  <2>. QED
    BY <2>3, <2>4, <2>5, <2>6 DEF StillSo
<1>. QED
  BY <1>4, <1>10, <1>11, FinishPreserves
-----------------------------------------------------------------------------
LEMMA InitIInv == Init => IInv
<1>. SUFFICES ASSUME Init PROVE IInv
  OBVIOUS
<1>1. NoStock \in StockRow /\ NoTask \in TaskRow
  BY WarehouseAssumption DEF NoStock, StockRow, NoTask, TaskRow
<1>2. RowsInv
  BY <1>1, WarehouseAssumption
  DEF Init, RowsInv, NeverOversold, TasksAgree, GrantsKept, NoStock, NoTask
<1>3. LocksInv /\ \A c \in Clients : FitsOp(txn[c]) /\ StillSo(txn[c], task, stock)
  BY IdleIs DEF Init, LocksInv
<1>. QED
  BY <1>2, <1>3 DEF IInv

LEMMA NextIInv == IInv /\ [Next]_vars => IInv'
<1>. SUFFICES ASSUME IInv, [Next]_vars PROVE IInv'
  OBVIOUS
<1>1. CASE Next
  BY <1>1, ReceivePreserves, ReceiveDispatchPreserves, LockKeyPreserves,
     LockStockKeyPreserves, LockDispatchKeyPreserves, LockTaskPreserves,
     LockStockPreserves, CommitPreserves, RollBackPreserves DEF Next
<1>2. CASE UNCHANGED vars
  <2>1. RowsInv'
    BY <1>2 DEF vars, IInv, RowsInv, NeverOversold, TasksAgree, GrantsKept
  <2>2. LocksInv'
    <3>1. \A c \in Clients : Held(txn[c])' = Held(txn[c])
      BY <1>2 DEF vars, Held, KeyLocks, PlaceLocks, RowLocks
    <3>2. txn' = txn /\ locks' = locks
      BY <1>2 DEF vars
    <3>. QED
      BY <3>1, <3>2 DEF IInv, LocksInv
  <2>3. \A c \in Clients : FitsOp(txn[c])' /\ StillSo(txn[c], task, stock)'
    <3>1. txn' = txn /\ task' = task /\ stock' = stock
      BY <1>2 DEF vars
    <3>2. ASSUME NEW c \in Clients
          PROVE  FitsOp(txn[c])' /\ StillSo(txn[c], task, stock)'
      <4>1. FitsOp(txn[c]) /\ StillSo(txn[c], task, stock)
        BY Rows
      <4>. QED
        BY <3>1, <4>1 DEF FitsOp, StillSo, Covers
    <3>. QED
      BY <3>2
  <2>. QED
    BY <2>1, <2>2, <2>3 DEF IInv
<1>. QED
  BY <1>1, <1>2

LEMMA IInvHolds == Spec => []IInv
  BY InitIInv, NextIInv, PTL DEF Spec

LEMMA KindsDiffer ==
    \A a, b : /\ <<"advisory", a>> # <<"dispatch key", b>>
              /\ <<"stock", a>> # <<"advisory", b>>
              /\ <<"stock", a>> # <<"dispatch key", b>>
  OBVIOUS

(* Every variable keeps its type.                                          *)
THEOREM TypeCorrect == Spec => []TypeOK
<1>1. ASSUME IInv PROVE TypeOK
  <2>1. ASSUME NEW c \in Clients PROVE Held(txn[c]) \subseteq Lock
    <3>1. PICK x : x = txn[c]
      OBVIOUS
    <3>2. x \in Txn /\ FitsOp(x)
      BY <1>1, <3>1 DEF IInv, LocksInv
    <3>3. /\ x.stage \in {"idle", "received", "keyed", "row", "ready"}
          /\ x.key \in Keys \cup DispatchKeys \cup {None} /\ x.task \in Keys \cup {None}
          /\ x.stock \in Stocks \cup {None}
      BY <3>2 DEF Txn
    <3>4. \A k \in {"advisory", "dispatch key", "task", "stock"} :
              \A n \in Stocks \cup Keys \cup DispatchKeys \cup {None} : <<k, n>> \in Lock
      BY DEF Lock
    <3>5. KeyLocks(x) \subseteq Lock
      BY <3>3, <3>4 DEF KeyLocks
    <3>6. PlaceLocks(x) \subseteq Lock
      BY <3>3, <3>4 DEF PlaceLocks
    <3>7. RowLocks(x) \subseteq Lock
      BY <3>3, <3>4 DEF RowLocks
    <3>. QED
      BY <3>1, <3>5, <3>6, <3>7 DEF Held
  <2>2. locks \in [Clients -> SUBSET Lock]
    BY <1>1, <2>1 DEF IInv, LocksInv
  <2>. QED
    BY <1>1, <2>2 DEF IInv, RowsInv, LocksInv, TypeOK
<1>. QED
  BY <1>1, IInvHolds, PTL

(* Stock is never oversold and no row goes over the column's limit, for    *)
(* any number of commands at the same time.                                *)
THEOREM StockNeverOversold == Spec => []NeverOversold
<1>1. IInv => NeverOversold
  BY DEF IInv, RowsInv
<1>. QED
  BY <1>1, IInvHolds, PTL

(* A transaction that holds its locks is refused by no unique index and no *)
(* version check, whatever other transactions have committed meanwhile.    *)
THEOREM LocksAreEnough == Spec => []LocksSuffice
<1>1. ASSUME IInv, NEW c \in Clients, txn[c].stage = "ready" PROVE DatabaseAllows(txn[c])
  BY <1>1, Rows DEF StillSo, FitsOp, Locked, DatabaseAllows
<1>2. IInv => LocksSuffice
  BY <1>1 DEF LocksSuffice
<1>. QED
  BY <1>2, IInvHolds, PTL

(* A dispatch key that was answered with a task stands for that task and   *)
(* no other, for any number of dispatches, repetitions and adoptions.      *)
THEOREM KeyStandsForOneTask == Spec => []DispatchKeptByKey
<1>1. IInv => DispatchKeptByKey
  <2>. SUFFICES ASSUME IInv, NEW g \in granted, NEW h \in granted
                PROVE  /\ task[g.task].status = "DISPATCHED" /\ task[g.task].request = g.key
                       /\ g.key = h.key <=> g.task = h.task
    BY DEF DispatchKeptByKey
  <2>1. /\ g.task \in Keys /\ h.task \in Keys /\ g.key # None
    BY WarehouseAssumption DEF IInv, RowsInv
  <2>2. /\ task[g.task].status = "DISPATCHED" /\ task[g.task].request = g.key
        /\ task[h.task].request = h.key
    BY DEF IInv, RowsInv, GrantsKept
  <2>. QED
    BY <2>1, <2>2 DEF IInv, RowsInv, TasksAgree
<1>. QED
  BY <1>1, IInvHolds, PTL

(* Transactions never wait for each other in a ring, however many run, as  *)
(* long as no idempotency key has the name of a stock: both are advisory   *)
(* locks of one name space (WarehouseService.java).                        *)
THEOREM NoRing == ASSUME Keys \cap Stocks = {} PROVE Spec => []SomeoneProceeds
<1>1. ASSUME IInv, NEW c \in Clients, NEW b \in Clients \ {c},
             Wanted(txn[c]) \in locks[b], txn[c].stage \in {"received", "keyed", "row"}
      PROVE  /\ txn[c].stage = "received" => txn[b].stage \in Locked
             /\ txn[c].stage = "keyed" => txn[b].stage \in {"row", "ready"}
             /\ txn[c].stage = "row" => txn[b].stage = "ready"
  <2>. DEFINE x == txn[c]
              y == txn[b]
  <2>1. Wanted(x) \in Held(y) /\ FitsOp(x) /\ FitsOp(y) /\ x \in Txn /\ y \in Txn
    BY <1>1, Rows
  <2>2. CASE x.stage = "received"
    BY <2>1, <2>2 DEF Held, KeyLocks, PlaceLocks, RowLocks, Locked
  <2>3. CASE x.stage = "keyed" /\ x.op = "dispatch"
    BY <2>1, <2>3 DEF Wanted, Held, KeyLocks, PlaceLocks, RowLocks
  <2>4. CASE x.stage = "keyed" /\ x.op = "receive"
    <3>1. Wanted(x) = <<"advisory", x.stock>> /\ x.stock \in Stocks
      BY <2>1, <2>4 DEF Wanted, FitsOp
    <3>2. y.stage # "idle" /\ y.op # "dispatch" => y.key \in Keys
      BY <2>1 DEF FitsOp
    <3>3. Wanted(x) \notin KeyLocks(y)
      <4>1. CASE y.stage \in Locked /\ y.op # "dispatch"
        <5>1. KeyLocks(y) = {<<"advisory", y.key>>} /\ y.key # x.stock
          BY <3>1, <3>2, <4>1 DEF KeyLocks, Locked
        <5>. QED
          BY <3>1, <5>1
      <4>2. CASE ~(y.stage \in Locked /\ y.op # "dispatch")
        <5>1. KeyLocks(y) \subseteq {<<"dispatch key", y.key>>}
          BY <4>2 DEF KeyLocks
        <5>. QED
          BY <3>1, <5>1, KindsDiffer, Zenon
      <4>. QED
        BY <4>1, <4>2
    <3>. QED
      BY <2>1, <2>4, <3>3 DEF Held, PlaceLocks, RowLocks
  <2>5. CASE x.stage = "row"
    <3>1. Wanted(x) = <<"stock", x.stock>>
      BY <2>5 DEF Wanted
    <3>2. Wanted(x) \notin KeyLocks(y)
      <4>1. KeyLocks(y) \subseteq {<<"advisory", y.key>>, <<"dispatch key", y.key>>}
        BY DEF KeyLocks
      <4>. QED
        BY <3>1, <4>1, KindsDiffer, Zenon
    <3>3. Wanted(x) \notin PlaceLocks(y)
      BY <3>1 DEF PlaceLocks
    <3>. QED
      BY <2>1, <2>5, <3>2, <3>3 DEF Held, RowLocks
  <2>6. x.stage = "keyed" => x.op \in {"dispatch", "receive"}
    BY <2>1 DEF FitsOp, Txn
  <2>. QED
    BY <1>1, <2>2, <2>3, <2>4, <2>5, <2>6
<1>2. IInv => SomeoneProceeds
  <2>. DEFINE open == {c \in Clients : txn[c].stage # "idle"}
              proceeds(c) == \/ txn[c].stage = "ready"
                             \/ \A b \in Clients \ {c} : Wanted(txn[c]) \notin locks[b]
  <2>. SUFFICES ASSUME IInv, NEW c \in open PROVE \E d \in open : proceeds(d)
    BY DEF SomeoneProceeds
  <2>1. \A d \in Clients : txn[d].stage \in {"idle", "received", "keyed", "row", "ready"}
    BY DEF IInv, LocksInv, Txn
  <2>2. ASSUME NEW d \in Clients, txn[d].stage = "row" PROVE \E e \in open : proceeds(e)
    BY <1>1, <2>2
  <2>3. ASSUME NEW d \in Clients, txn[d].stage = "keyed" PROVE \E e \in open : proceeds(e)
    BY <1>1, <2>2, <2>3
  <2>4. ASSUME NEW d \in Clients, txn[d].stage = "received" PROVE \E e \in open : proceeds(e)
    BY <1>1, <2>2, <2>3, <2>4 DEF Locked
  <2>. QED
    BY <2>1, <2>2, <2>3, <2>4
<1>. QED
  BY <1>2, IInvHolds, PTL
-----------------------------------------------------------------------------
(* The units of a set of tasks, in closed form: their sum is the number of *)
(* pairs of a task and one of its units.  The fold that sums them is a     *)
(* function that is defined by its own equation, so what is shown first is *)
(* that the closed form satisfies the equation, and then that nothing else *)
(* does: a smallest set on which two solutions differ does not exist.      *)
UnitPairs(tasks, A) == {z \in A \X (1 .. MaxQuantity) : z[2] <= tasks[z[1]].quantity}

FoldStep(tasks, A, h) ==
    [s \in SUBSET A |->
        IF s = {} THEN 0
        ELSE LET x == CHOOSE x \in s : TRUE
             IN  tasks[x].quantity + h[s \ {x}]]

LEMMA UnitsFold ==
    ASSUME NEW tasks, NEW A
    PROVE  Units(tasks, A) = (CHOOSE h : h = FoldStep(tasks, A, h))[A]
  BY DEF Units, MapThenSumSet, MapThenFoldSet, FoldStep

LEMMA LeastNatural ==
    ASSUME NEW S \in SUBSET Nat, S # {}
    PROVE  \E x \in S : \A y \in S : x <= y
<1>. DEFINE R == {ss \in Nat \X Nat : ss[1] < ss[2]}
<1>1. IsWellFoundedOn(R, Nat)
  BY NatLessThanWellFounded DEF OpToRel
<1>2. \A x, y \in Nat : x < y => <<x, y>> \in R
  OBVIOUS
<1>. HIDE DEF R
<1>3. S \subseteq Nat
  OBVIOUS
<1>4. PICK x \in S : \A y \in S : ~ (<<y, x>> \in R)
  BY <1>1, <1>3, WFMin, Zenon
<1>5. ASSUME NEW y \in S PROVE x <= y
  <2>1. x \in Nat /\ y \in Nat /\ ~ (y < x)
    BY <1>2, <1>4
  <2>. QED
    BY <2>1
<1>. QED
  BY <1>5

LEMMA UnitPairsFinite ==
    ASSUME NEW tasks, NEW A, IsFiniteSet(A)
    PROVE  IsFiniteSet(UnitPairs(tasks, A)) /\ Cardinality(UnitPairs(tasks, A)) \in Nat
<1>1. 1 \in Int /\ MaxQuantity \in Int
  BY WarehouseAssumption
<1>2. IsFiniteSet(1 .. MaxQuantity)
  BY <1>1, FS_Interval
<1>3. IsFiniteSet(A \X (1 .. MaxQuantity))
  BY <1>2, FS_Product
<1>4. UnitPairs(tasks, A) \in SUBSET (A \X (1 .. MaxQuantity))
  BY DEF UnitPairs
<1>5. IsFiniteSet(UnitPairs(tasks, A))
  BY <1>3, <1>4, FS_Subset
<1>. QED
  BY <1>5, FS_CardinalityType

LEMMA UnitPairsAdd ==
    ASSUME NEW tasks, NEW A, IsFiniteSet(A), NEW x, x \notin A,
           tasks[x].quantity \in 0 .. MaxQuantity
    PROVE  Cardinality(UnitPairs(tasks, A \cup {x}))
             = Cardinality(UnitPairs(tasks, A)) + tasks[x].quantity
<1>. DEFINE q == tasks[x].quantity
            B == {x} \X (1 .. q)
<1>1. q \in Nat /\ q \in Int /\ 1 \in Int /\ q <= MaxQuantity /\ MaxQuantity \in Nat
  BY WarehouseAssumption
<1>. HIDE DEF q
<1>2. IsFiniteSet(1 .. q) /\ Cardinality(1 .. q) = q
  <2>1. IsFiniteSet(1 .. q) /\ Cardinality(1 .. q) = IF 1 > q THEN 0 ELSE q - 1 + 1
    BY <1>1, FS_Interval
  <2>. QED
    BY <1>1, <2>1
<1>3. IsFiniteSet({x}) /\ Cardinality({x}) = 1
  BY FS_Singleton
<1>4. IsFiniteSet(B) /\ Cardinality(B) = q
  <2>1. /\ IsFiniteSet({x} \X (1 .. q))
        /\ Cardinality({x} \X (1 .. q)) = Cardinality({x}) * Cardinality(1 .. q)
    BY <1>2, <1>3, FS_Product
  <2>2. 1 * q = q
    BY <1>1
  <2>. QED
    BY <1>2, <1>3, <2>1, <2>2
<1>5. UnitPairs(tasks, A \cup {x}) = UnitPairs(tasks, A) \cup B
  <2>. USE DEF q
  <2>1. \A i \in 1 .. MaxQuantity : i <= q <=> i \in 1 .. q
    BY <1>1
  <2>2. \A i \in 1 .. q : i \in 1 .. MaxQuantity
    BY <1>1
  <2>3. ASSUME NEW z \in UnitPairs(tasks, A \cup {x}) PROVE z \in UnitPairs(tasks, A) \cup B
    BY <2>1 DEF UnitPairs
  <2>4. ASSUME NEW z \in UnitPairs(tasks, A) PROVE z \in UnitPairs(tasks, A \cup {x})
    BY DEF UnitPairs
  <2>5. ASSUME NEW z \in B PROVE z \in UnitPairs(tasks, A \cup {x})
    BY <2>1, <2>2 DEF UnitPairs
  <2>. QED
    BY <2>3, <2>4, <2>5
<1>6. UnitPairs(tasks, A) \cap B = {}
  BY DEF UnitPairs
<1>. HIDE DEF B
<1>7. Cardinality(UnitPairs(tasks, A) \cup B)
        = Cardinality(UnitPairs(tasks, A)) + Cardinality(B) - Cardinality({})
  BY <1>4, <1>6, UnitPairsFinite, FS_Union
<1>. QED
  BY <1>1, <1>4, <1>5, <1>7, UnitPairsFinite, FS_EmptySet DEF q

LEMMA UnitsCount ==
    ASSUME NEW tasks, NEW A, IsFiniteSet(A),
           \A k \in A : tasks[k].quantity \in 0 .. MaxQuantity
    PROVE  Units(tasks, A) = Cardinality(UnitPairs(tasks, A))
<1>. DEFINE count == [s \in SUBSET A |-> Cardinality(UnitPairs(tasks, s))]
            chosen(s) == CHOOSE x \in s : TRUE
<1>1. \A s \in SUBSET A : IsFiniteSet(s)
  BY FS_Subset
<1>2. ASSUME NEW s \in SUBSET A, s # {}
      PROVE  /\ chosen(s) \in s /\ s \ {chosen(s)} \in SUBSET A
             /\ count[s] = tasks[chosen(s)].quantity + count[s \ {chosen(s)}]
             /\ Cardinality(s \ {chosen(s)}) \in Nat /\ Cardinality(s) \in Nat
             /\ Cardinality(s \ {chosen(s)}) < Cardinality(s)
  <2>. DEFINE x == chosen(s)
              t == s \ {x}
  <2>1. x \in s
    BY <1>2
  <2>2. IsFiniteSet(s) /\ Cardinality(s) \in Nat
    BY <1>1, FS_CardinalityType
  <2>. HIDE DEF x
  <2>3. IsFiniteSet(t) /\ Cardinality(t) = Cardinality(s) - 1
    BY <2>1, <2>2, FS_RemoveElement
  <2>4. Cardinality(t) \in Nat
    BY <2>3, FS_CardinalityType
  <2>5. t \in SUBSET A /\ t \cup {x} = s /\ x \notin t /\ x \in A
    BY <2>1
  <2>. HIDE DEF t
  <2>6. Cardinality(UnitPairs(tasks, t \cup {x}))
          = Cardinality(UnitPairs(tasks, t)) + tasks[x].quantity
    BY <2>3, <2>5, UnitPairsAdd
  <2>7. Cardinality(UnitPairs(tasks, t)) \in Nat /\ tasks[x].quantity \in Nat
    BY <2>3, <2>5, UnitPairsFinite, WarehouseAssumption
  <2>8. count[s] = tasks[x].quantity + count[t]
    <3>1. count[s] = Cardinality(UnitPairs(tasks, t \cup {x})) /\ count[t] = Cardinality(UnitPairs(tasks, t))
      BY <2>5
    <3>. QED
      BY <2>6, <2>7, <3>1
  <2>. QED
    BY <2>1, <2>2, <2>3, <2>4, <2>5, <2>8 DEF x, t
<1>3. count[{}] = 0
  <2>1. UnitPairs(tasks, {}) = {}
    BY DEF UnitPairs
  <2>. QED
    BY <2>1, FS_EmptySet
<1>. HIDE DEF chosen
<1>4. count = FoldStep(tasks, A, count)
  <2>1. ASSUME NEW s \in SUBSET A
        PROVE  count[s] = IF s = {} THEN 0
                          ELSE tasks[chosen(s)].quantity + count[s \ {chosen(s)}]
    BY <1>2, <1>3
  <2>2. count = [s \in SUBSET A |-> count[s]]
    OBVIOUS
  <2>. HIDE DEF count
  <2>. QED
    BY <2>1, <2>2 DEF FoldStep, chosen
<1>. DEFINE sum == CHOOSE h : h = FoldStep(tasks, A, h)
<1>5. sum = FoldStep(tasks, A, sum)
  <2>. HIDE DEF count
  <2>1. \E h : h = FoldStep(tasks, A, h)
    BY <1>4
  <2>. QED
    BY <2>1
<1>. HIDE DEF sum, count
<1>6. ASSUME NEW s \in SUBSET A
      PROVE  sum[s] = IF s = {} THEN 0 ELSE tasks[chosen(s)].quantity + sum[s \ {chosen(s)}]
  BY <1>5 DEF FoldStep, chosen
<1>. DEFINE Differ == {s \in SUBSET A : sum[s] # count[s]}
            sizes == {Cardinality(s) : s \in Differ}
<1>7. Differ = {}
  <2>. SUFFICES ASSUME Differ # {} PROVE FALSE
    OBVIOUS
  <2>1. \A s \in Differ : Cardinality(s) \in Nat
    BY <1>1, FS_CardinalityType
  <2>2. sizes \in SUBSET Nat /\ sizes # {}
    BY <2>1
  <2>3. PICK n \in sizes : \A m \in sizes : n <= m
    BY <2>2, LeastNatural
  <2>4. PICK s \in Differ : n = Cardinality(s)
    BY <2>3
  <2>5. s # {}
    BY <1>3, <1>6, <2>4
  <2>6. s \ {chosen(s)} \notin Differ
    <3>1. s \in SUBSET A
      BY <2>4
    <3>2. /\ Cardinality(s \ {chosen(s)}) \in Nat /\ Cardinality(s) \in Nat
          /\ Cardinality(s \ {chosen(s)}) < Cardinality(s)
      BY <1>2, <2>5, <3>1
    <3>. SUFFICES ASSUME s \ {chosen(s)} \in Differ PROVE FALSE
      OBVIOUS
    <3>3. n <= Cardinality(s \ {chosen(s)})
      BY <2>3
    <3>. QED
      BY <2>4, <3>2, <3>3
  <2>7. sum[s \ {chosen(s)}] = count[s \ {chosen(s)}]
    BY <1>2, <2>5, <2>6
  <2>. QED
    BY <1>2, <1>6, <2>4, <2>5, <2>7
<1>8. sum[A] = count[A]
  BY <1>7
<1>. QED
  BY <1>8, UnitsFold DEF sum, count

LEMMA UnitsSame ==
    ASSUME NEW tasks, NEW later, NEW A, IsFiniteSet(A),
           \A k \in A : /\ tasks[k].quantity \in 0 .. MaxQuantity
                        /\ later[k].quantity = tasks[k].quantity
    PROVE  Units(later, A) = Units(tasks, A) /\ Units(tasks, A) \in Nat
<1>1. UnitPairs(later, A) = UnitPairs(tasks, A)
  BY DEF UnitPairs
<1>2. Units(later, A) = Cardinality(UnitPairs(later, A))
  BY UnitsCount
<1>3. Units(tasks, A) = Cardinality(UnitPairs(tasks, A))
  BY UnitsCount
<1>. QED
  BY <1>1, <1>2, <1>3, UnitPairsFinite

LEMMA UnitsAdd ==
    ASSUME NEW tasks, NEW A, IsFiniteSet(A), NEW x, x \notin A,
           \A k \in A \cup {x} : tasks[k].quantity \in 0 .. MaxQuantity
    PROVE  Units(tasks, A \cup {x}) = Units(tasks, A) + tasks[x].quantity
<1>1. IsFiniteSet(A \cup {x})
  BY FS_AddElement
<1>2. Units(tasks, A \cup {x}) = Cardinality(UnitPairs(tasks, A \cup {x}))
  BY <1>1, UnitsCount
<1>3. Units(tasks, A) = Cardinality(UnitPairs(tasks, A))
  BY UnitsCount
<1>. QED
  BY <1>2, <1>3, UnitPairsAdd
-----------------------------------------------------------------------------
(* Three accounts of the same events.  Beside them a dispatch carries the  *)
(* stock and the quantity of its task, and tasks are finitely many, so     *)
(* that their units have a sum.                                            *)
Carries(x, tasks) ==
    x.op = "dispatch" /\ x.stage \in {"row", "ready"} =>
        tasks[x.task].stock = x.stock /\ tasks[x.task].quantity = x.quantity

Existing(tasks) == {k \in Keys : tasks[k].status # "NONE"}

AccountsInv ==
    /\ LedgerExplainsStock
    /\ TasksExplainStock
    /\ IsFiniteSet(Existing(task))
    /\ \A c \in Clients : Carries(txn[c], task)

Total(tasks, s, st) == Units(tasks, TasksOf(tasks, s, st))

Counted == {"RECEIVED", "PICKED", "DISPATCHED"}

LEMMA TasksOfFinite ==
    ASSUME NEW tasks \in [Keys -> TaskRow], IsFiniteSet(Existing(tasks)), NEW s, NEW st \in Counted
    PROVE  IsFiniteSet(TasksOf(tasks, s, st))
<1>1. TasksOf(tasks, s, st) \in SUBSET Existing(tasks)
  BY DEF TasksOf, Existing, Counted
<1>. QED
  BY <1>1, FS_Subset

(* One task changes, and with it the totals it leaves and enters.          *)
LEMMA TotalsMove ==
    ASSUME NEW tasks \in [Keys -> TaskRow], NEW later \in [Keys -> TaskRow], NEW t \in Keys,
           \A u \in Keys \ {t} : later[u] = tasks[u],
           NEW s, NEW st, IsFiniteSet(TasksOf(tasks, s, st))
    PROVE  /\ Total(tasks, s, st) \in Nat /\ Total(later, s, st) \in Nat
           /\ t \notin TasksOf(tasks, s, st) /\ t \notin TasksOf(later, s, st) =>
                 Total(later, s, st) = Total(tasks, s, st)
           /\ t \notin TasksOf(tasks, s, st) /\ t \in TasksOf(later, s, st) =>
                 Total(later, s, st) = Total(tasks, s, st) + later[t].quantity
           /\ t \in TasksOf(tasks, s, st) /\ t \notin TasksOf(later, s, st) =>
                 Total(tasks, s, st) = Total(later, s, st) + tasks[t].quantity
<1>. DEFINE C == TasksOf(tasks, s, st) \ {t}
<1>1. \A k \in Keys : tasks[k].quantity \in 0 .. MaxQuantity /\ later[k].quantity \in 0 .. MaxQuantity
  BY DEF TaskRow
<1>2. IsFiniteSet(C) /\ t \notin C /\ C \subseteq Keys
  BY FS_RemoveElement DEF TasksOf
<1>3. C = TasksOf(later, s, st) \ {t}
  BY DEF TasksOf
<1>4. \A k \in C : later[k].quantity = tasks[k].quantity
  BY DEF TasksOf
<1>. HIDE DEF C
<1>5. /\ Units(later, C) = Units(tasks, C) /\ Units(tasks, C) \in Nat
  BY <1>1, <1>2, <1>4, UnitsSame
<1>6. Units(tasks, C \cup {t}) = Units(tasks, C) + tasks[t].quantity
  BY <1>1, <1>2, UnitsAdd
<1>7. Units(later, C \cup {t}) = Units(later, C) + later[t].quantity
  BY <1>1, <1>2, UnitsAdd
<1>8. /\ t \in TasksOf(tasks, s, st) => TasksOf(tasks, s, st) = C \cup {t}
      /\ t \notin TasksOf(tasks, s, st) => TasksOf(tasks, s, st) = C
  BY DEF C
<1>9. /\ t \in TasksOf(later, s, st) => TasksOf(later, s, st) = C \cup {t}
      /\ t \notin TasksOf(later, s, st) => TasksOf(later, s, st) = C
  BY <1>3
<1>10. /\ t \in TasksOf(tasks, s, st) => Total(tasks, s, st) = Units(tasks, C) + tasks[t].quantity
       /\ t \notin TasksOf(tasks, s, st) => Total(tasks, s, st) = Units(tasks, C)
       /\ t \in TasksOf(later, s, st) => Total(later, s, st) = Units(tasks, C) + later[t].quantity
       /\ t \notin TasksOf(later, s, st) => Total(later, s, st) = Units(tasks, C)
  BY <1>5, <1>6, <1>7, <1>8, <1>9 DEF Total
<1>11. tasks[t].quantity \in Nat /\ later[t].quantity \in Nat
  BY <1>1, WarehouseAssumption
<1>. QED
  BY <1>5, <1>10, <1>11

(* A step that commits nothing leaves the accounts as they are.            *)
LEMMA QuietAccounts ==
    ASSUME IInv, AccountsInv, stock' = stock, ledger' = ledger,
           \A k \in Keys : /\ task'[k].stock = task[k].stock /\ task'[k].status = task[k].status
                           /\ task'[k].quantity = task[k].quantity
    PROVE  LedgerExplainsStock' /\ TasksExplainStock' /\ IsFiniteSet(Existing(task'))
<1>1. LedgerExplainsStock'
  BY DEF AccountsInv, LedgerExplainsStock
<1>2. task \in [Keys -> TaskRow] /\ \A k \in Keys : task[k].quantity \in 0 .. MaxQuantity
  BY DEF IInv, RowsInv, TaskRow
<1>3. Existing(task') = Existing(task)
  BY DEF Existing
<1>4. ASSUME NEW s, NEW st \in Counted PROVE Total(task', s, st) = Total(task, s, st)
  <2>1. TasksOf(task', s, st) = TasksOf(task, s, st)
    BY DEF TasksOf
  <2>2. IsFiniteSet(TasksOf(task, s, st))
    BY <1>2, TasksOfFinite DEF AccountsInv
  <2>3. \A k \in TasksOf(task, s, st) : /\ task[k].quantity \in 0 .. MaxQuantity
                                        /\ task'[k].quantity = task[k].quantity
    BY <1>2 DEF TasksOf
  <2>4. Units(task', TasksOf(task, s, st)) = Units(task, TasksOf(task, s, st))
    BY <2>2, <2>3, UnitsSame
  <2>. QED
    BY <2>1, <2>4 DEF Total
<1>5. TasksExplainStock'
  <2>1. ASSUME NEW s \in Stocks
        PROVE  /\ stock[s].reserved = Total(task', s, "PICKED")
               /\ stock[s].onHand + Total(task', s, "DISPATCHED") = Total(task', s, "RECEIVED")
    <3>1. /\ stock[s].reserved = Total(task, s, "PICKED")
          /\ stock[s].onHand + Total(task, s, "DISPATCHED") = Total(task, s, "RECEIVED")
      BY DEF AccountsInv, TasksExplainStock, Total
    <3>. QED
      BY <1>4, <3>1 DEF Counted
  <2>. QED
    BY <2>1 DEF TasksExplainStock, Total
<1>. QED
  BY <1>1, <1>3, <1>5 DEF AccountsInv

(* What a commit does to its task, seen from the accounts.                 *)
LEMMA CommitTask ==
    ASSUME IInv, AccountsInv, NEW c \in Clients, Commit(c)
    PROVE  LET x == txn[c]
               t == task'[x.task]
           IN  /\ x.quantity \in 0 .. MaxQuantity
               /\ t.stock = x.stock /\ t.quantity = x.quantity
               /\ x.op = "receive" => task[x.task].status = "NONE" /\ t.status = "RECEIVED"
               /\ x.op = "pick" => task[x.task].status = "NONE" /\ t.status = "PICKED"
               /\ x.op = "dispatch" =>
                     /\ task[x.task].status = "PICKED" /\ t.status = "DISPATCHED"
                     /\ task[x.task].stock = x.stock /\ task[x.task].quantity = x.quantity
               /\ x.op \in {"receive", "pick", "dispatch"}
<1>. DEFINE x == txn[c]
<1>1. /\ x \in Txn /\ FitsOp(x) /\ StillSo(x, task, stock) /\ x.stage = "ready" /\ Carries(x, task)
  BY Rows DEF Commit, AccountsInv
<1>2. x.task \in Keys /\ x.op \in {"receive", "pick", "dispatch"} /\ x.quantity \in 0 .. MaxQuantity
  BY <1>1 DEF FitsOp, Txn
<1>3. task \in [Keys -> TaskRow] /\ NoTask.status = "NONE"
  BY DEF IInv, RowsInv, NoTask
<1>4. CASE x.op = "dispatch"
  <2>1. task' = [task EXCEPT ![x.task] = [@ EXCEPT !.status = "DISPATCHED", !.request = x.key]]
    BY <1>4 DEF Commit
  <2>2. task[x.task] \in TaskRow /\ task[x.task].status = "PICKED"
    BY <1>1, <1>2, <1>3, <1>4 DEF StillSo
  <2>3. task[x.task].stock = x.stock /\ task[x.task].quantity = x.quantity
    BY <1>1, <1>4 DEF Carries
  <2>4. /\ task'[x.task].status = "DISPATCHED" /\ task'[x.task].stock = task[x.task].stock
        /\ task'[x.task].quantity = task[x.task].quantity
    BY <1>2, <1>3, <2>1, <2>2 DEF TaskRow
  <2>. QED
    BY <1>2, <1>4, <2>2, <2>3, <2>4
<1>5. CASE x.op # "dispatch"
  <2>1. task' = [task EXCEPT ![x.task] =
                   [status |-> IF x.op = "receive" THEN "RECEIVED" ELSE "PICKED",
                    stock |-> x.stock, quantity |-> x.quantity, request |-> None]]
    BY <1>5 DEF Commit
  <2>2. task[x.task].status = "NONE"
    BY <1>1, <1>3, <1>5 DEF StillSo, Locked
  <2>3. /\ task'[x.task].status = IF x.op = "receive" THEN "RECEIVED" ELSE "PICKED"
        /\ task'[x.task].stock = x.stock /\ task'[x.task].quantity = x.quantity
    BY <1>2, <1>3, <2>1
  <2>. QED
    BY <1>2, <1>5, <2>2, <2>3
<1>. QED
  BY <1>4, <1>5

LEMMA CommitTotals ==
    ASSUME IInv, AccountsInv, NEW c \in Clients, Commit(c)
    PROVE  TasksExplainStock' /\ IsFiniteSet(Existing(task'))
<1>. DEFINE x == txn[c]
<1>0. PICK k \in Keys : k = x.task
  BY CommitRows
<1>1. /\ x.stock \in Stocks /\ x.seen = stock[x.stock]
      /\ stock' = [stock EXCEPT ![x.stock] = Changed(x)] /\ x \in Txn
      /\ task' \in [Keys -> TaskRow] /\ \A u \in Keys \ {k} : task'[u] = task[u]
  BY <1>0, CommitRows
<1>2. /\ x.quantity \in 0 .. MaxQuantity
      /\ task'[k].stock = x.stock /\ task'[k].quantity = x.quantity
      /\ x.op \in {"receive", "pick", "dispatch"}
  BY <1>0, CommitTask
<1>3. /\ x.op = "receive" => task[k].status = "NONE" /\ task'[k].status = "RECEIVED"
      /\ x.op = "pick" => task[k].status = "NONE" /\ task'[k].status = "PICKED"
      /\ x.op = "dispatch" =>
            /\ task[k].status = "PICKED" /\ task'[k].status = "DISPATCHED"
            /\ task[k].stock = x.stock /\ task[k].quantity = x.quantity
  BY <1>0, CommitTask
<1>4. task \in [Keys -> TaskRow] /\ stock \in [Stocks -> StockRow]
  BY DEF IInv, RowsInv
<1>5. IsFiniteSet(Existing(task'))
  <2>1. Existing(task') \in SUBSET (Existing(task) \cup {k})
    BY <1>1 DEF Existing
  <2>2. IsFiniteSet(Existing(task) \cup {k})
    BY FS_AddElement DEF AccountsInv
  <2>. QED
    BY <2>1, <2>2, FS_Subset
<1>6. ASSUME NEW s, NEW st \in Counted
      PROVE  /\ Total(task, s, st) \in Nat /\ Total(task', s, st) \in Nat
             /\ k \notin TasksOf(task, s, st) /\ k \notin TasksOf(task', s, st) =>
                   Total(task', s, st) = Total(task, s, st)
             /\ k \notin TasksOf(task, s, st) /\ k \in TasksOf(task', s, st) =>
                   Total(task', s, st) = Total(task, s, st) + task'[k].quantity
             /\ k \in TasksOf(task, s, st) /\ k \notin TasksOf(task', s, st) =>
                   Total(task, s, st) = Total(task', s, st) + task[k].quantity
  <2>1. IsFiniteSet(TasksOf(task, s, st))
    BY <1>4, TasksOfFinite DEF AccountsInv
  <2>. QED
    BY <1>1, <1>4, <2>1, TotalsMove
<1>7. \A s, st : /\ k \in TasksOf(task, s, st) <=> task[k].stock = s /\ task[k].status = st
                 /\ k \in TasksOf(task', s, st) <=> task'[k].stock = s /\ task'[k].status = st
  BY DEF TasksOf
<1>8. \A s \in Stocks : /\ stock[s].reserved = Total(task, s, "PICKED")
                        /\ stock[s].onHand + Total(task, s, "DISPATCHED") = Total(task, s, "RECEIVED")
  BY DEF AccountsInv, TasksExplainStock, Total
<1>9. ASSUME NEW s \in Stocks
      PROVE  /\ stock'[s].reserved = Total(task', s, "PICKED")
             /\ stock'[s].onHand + Total(task', s, "DISPATCHED") = Total(task', s, "RECEIVED")
  <2>1. CASE s # x.stock
    <3>1. stock'[s] = stock[s]
      BY <1>1, <1>4, <2>1
    <3>2. ASSUME NEW st \in Counted PROVE Total(task', s, st) = Total(task, s, st)
      <4>1. k \notin TasksOf(task, s, st) /\ k \notin TasksOf(task', s, st)
        BY <1>2, <1>3, <1>7, <2>1 DEF Counted
      <4>. QED
        BY <1>6, <4>1
    <3>. QED
      BY <1>8, <3>1, <3>2 DEF Counted
  <2>2. CASE s = x.stock
    <3>. DEFINE P == Total(task, s, "PICKED")
                R == Total(task, s, "RECEIVED")
                D == Total(task, s, "DISPATCHED")
                q == x.quantity
    <3>1. P \in Nat /\ R \in Nat /\ D \in Nat /\ q \in Nat
      BY <1>2, <1>6, WarehouseAssumption DEF Counted
    <3>2. /\ stock[s].reserved = P /\ stock[s].onHand + D = R
          /\ stock[s].reserved \in Nat /\ stock[s].onHand \in Nat
      BY <1>4, <1>8, WarehouseAssumption DEF StockRow
    <3>3. /\ stock'[s].onHand = stock[s].onHand + OnHandDelta(x)
          /\ stock'[s].reserved = stock[s].reserved + ReservedDelta(x)
      BY <1>1, <1>4, <2>2 DEF Changed
    <3>4. CASE x.op = "receive"
      <4>1. OnHandDelta(x) = q /\ ReservedDelta(x) = 0
        BY <3>4 DEF OnHandDelta, ReservedDelta
      <4>2. Total(task', s, "RECEIVED") = R + q
        BY <1>2, <1>3, <1>6, <1>7, <2>2, <3>4 DEF Counted
      <4>3. Total(task', s, "PICKED") = P /\ Total(task', s, "DISPATCHED") = D
        BY <1>2, <1>3, <1>6, <1>7, <2>2, <3>4 DEF Counted
      <4>. HIDE DEF P, R, D
      <4>. QED
        BY <3>1, <3>2, <3>3, <4>1, <4>2, <4>3
    <3>5. CASE x.op = "pick"
      <4>1. OnHandDelta(x) = 0 /\ ReservedDelta(x) = q
        BY <3>5 DEF OnHandDelta, ReservedDelta
      <4>2. Total(task', s, "PICKED") = P + q
        BY <1>2, <1>3, <1>6, <1>7, <2>2, <3>5 DEF Counted
      <4>3. Total(task', s, "RECEIVED") = R /\ Total(task', s, "DISPATCHED") = D
        BY <1>2, <1>3, <1>6, <1>7, <2>2, <3>5 DEF Counted
      <4>. HIDE DEF P, R, D
      <4>. QED
        BY <3>1, <3>2, <3>3, <4>1, <4>2, <4>3
    <3>6. CASE x.op = "dispatch"
      <4>1. OnHandDelta(x) = -q /\ ReservedDelta(x) = -q
        BY <3>6 DEF OnHandDelta, ReservedDelta
      <4>2. P = Total(task', s, "PICKED") + q /\ Total(task', s, "PICKED") \in Nat
        BY <1>2, <1>3, <1>6, <1>7, <2>2, <3>6 DEF Counted
      <4>3. Total(task', s, "DISPATCHED") = D + q
        BY <1>2, <1>3, <1>6, <1>7, <2>2, <3>6 DEF Counted
      <4>4. Total(task', s, "RECEIVED") = R
        BY <1>2, <1>3, <1>6, <1>7, <2>2, <3>6 DEF Counted
      <4>. HIDE DEF P, R, D
      <4>. QED
        BY <3>1, <3>2, <3>3, <4>1, <4>2, <4>3, <4>4
    <3>. QED
      BY <1>2, <3>4, <3>5, <3>6
  <2>. QED
    BY <2>1, <2>2
<1>10. TasksExplainStock'
  BY <1>9 DEF TasksExplainStock, Total
<1>. QED
  BY <1>5, <1>10

(* The ledger, for one stock: es are its entries, row is its row.          *)
After(es, n) == IF n = 0 THEN [onHand |-> 0, reserved |-> 0]
                ELSE [onHand |-> es[n].onHandAfter, reserved |-> es[n].reservedAfter]

Continues(es, n) ==
    After(es, n) = [onHand |-> After(es, n - 1).onHand + es[n].onHandDelta,
                    reserved |-> After(es, n - 1).reserved + es[n].reservedDelta]

Explains(es, row) ==
    /\ \A n \in DOMAIN es : Continues(es, n)
    /\ row.exists <=> es # <<>>
    /\ After(es, Len(es)) = [onHand |-> row.onHand, reserved |-> row.reserved]

LEMMA LedgerIs == LedgerExplainsStock <=> \A s \in Stocks : Explains(ledger[s], stock[s])
  BY DEF LedgerExplainsStock, Explains, Continues, After

LEMMA ExplainsAppend ==
    ASSUME NEW es \in Seq(Entry), NEW row, NEW e \in Entry, NEW later, Explains(es, row),
           e.onHandAfter = row.onHand + e.onHandDelta,
           e.reservedAfter = row.reserved + e.reservedDelta,
           later.exists = TRUE, later.onHand = e.onHandAfter, later.reserved = e.reservedAfter
    PROVE  Explains(Append(es, e), later)
<1>. DEFINE fs == Append(es, e)
            m == Len(es)
<1>1. /\ m \in Nat /\ DOMAIN es = 1 .. m /\ Len(fs) = m + 1 /\ DOMAIN fs = 1 .. (m + 1)
      /\ fs[m + 1] = e /\ \A n \in 1 .. m : fs[n] = es[n]
      /\ fs # <<>>
  OBVIOUS
<1>. HIDE DEF fs, m
<1>2. \A n \in 0 .. m : After(fs, n) = After(es, n)
  BY <1>1 DEF After
<1>3. After(fs, m + 1) = [onHand |-> e.onHandAfter, reserved |-> e.reservedAfter]
  BY <1>1 DEF After
<1>4. After(fs, m).onHand = row.onHand /\ After(fs, m).reserved = row.reserved
  BY <1>1, <1>2 DEF Explains, m
<1>5. ASSUME NEW n \in DOMAIN fs PROVE Continues(fs, n)
  <2>1. CASE n = m + 1
    <3>1. n - 1 = m
      BY <1>1, <2>1
    <3>. QED
      BY <1>1, <1>3, <1>4, <2>1, <3>1 DEF Continues
  <2>2. CASE n # m + 1
    <3>1. n \in 1 .. m /\ n \in 0 .. m /\ n - 1 \in 0 .. m
      BY <1>1, <2>2
    <3>2. Continues(es, n)
      BY <1>1, <3>1 DEF Explains
    <3>3. After(fs, n) = After(es, n) /\ After(fs, n - 1) = After(es, n - 1) /\ fs[n] = es[n]
      BY <1>1, <1>2, <3>1
    <3>. QED
      BY <3>2, <3>3 DEF Continues
  <2>. QED
    BY <2>1, <2>2
<1>6. Explains(fs, later)
  BY <1>1, <1>3, <1>5 DEF Explains
<1>. QED
  BY <1>6 DEF fs

LEMMA CommitLedger ==
    ASSUME IInv, AccountsInv, NEW c \in Clients, Commit(c)
    PROVE  LedgerExplainsStock'
<1>. DEFINE x == txn[c]
            e == EntryOf(x)
<1>1. /\ x.stock \in Stocks /\ x.seen = stock[x.stock] /\ e \in Entry
      /\ stock' = [stock EXCEPT ![x.stock] = Changed(x)]
      /\ ledger' = [ledger EXCEPT ![x.stock] = Append(@, e)]
  BY CommitRows
<1>2. stock \in [Stocks -> StockRow] /\ ledger \in [Stocks -> Seq(Entry)]
  BY DEF IInv, RowsInv
<1>3. \A s \in Stocks : Explains(ledger[s], stock[s])
  BY LedgerIs DEF AccountsInv
<1>4. /\ e.onHandAfter = x.seen.onHand + e.onHandDelta
      /\ e.reservedAfter = x.seen.reserved + e.reservedDelta
      /\ Changed(x).exists = TRUE /\ Changed(x).onHand = e.onHandAfter
      /\ Changed(x).reserved = e.reservedAfter
  BY DEF EntryOf, Changed
<1>. HIDE DEF e
<1>5. ASSUME NEW s \in Stocks PROVE Explains(ledger'[s], stock'[s])
  <2>1. CASE s = x.stock
    <3>1. ledger[s] \in Seq(Entry) /\ Explains(ledger[s], x.seen)
      BY <1>1, <1>2, <1>3, <2>1
    <3>2. ASSUME NEW later, later = Changed(x) PROVE Explains(Append(ledger[s], e), later)
      <4>1. /\ later.exists = TRUE /\ later.onHand = e.onHandAfter
            /\ later.reserved = e.reservedAfter
        BY <1>4, <3>2
      <4>2. e \in Entry /\ e.onHandAfter = x.seen.onHand + e.onHandDelta
            /\ e.reservedAfter = x.seen.reserved + e.reservedDelta
        BY <1>1, <1>4
      <4>. HIDE DEF x
      <4>. QED
        BY <3>1, <4>1, <4>2, ExplainsAppend
    <3>3. Explains(Append(ledger[s], e), Changed(x))
      BY <3>2
    <3>. QED
      BY <1>1, <1>2, <2>1, <3>3
  <2>2. CASE s # x.stock
    <3>1. ledger'[s] = ledger[s] /\ stock'[s] = stock[s]
      BY <1>1, <1>2, <2>2
    <3>. QED
      BY <1>3, <3>1
  <2>. QED
    BY <2>1, <2>2
<1>. QED
  BY <1>5 DEF LedgerExplainsStock, Explains, Continues, After

(* What a dispatch carries stays what its task says: a task that exists    *)
(* keeps its stock and its quantity.                                       *)
LEMMA CarriesStep ==
    ASSUME IInv, AccountsInv, NEW c \in Clients, NEW x, txn' = [txn EXCEPT ![c] = x],
           Carries(x, task'),
           \A k \in Keys : task[k].status # "NONE" =>
               task'[k].stock = task[k].stock /\ task'[k].quantity = task[k].quantity
    PROVE  \A b \in Clients : Carries(txn'[b], task')
<1>. SUFFICES ASSUME NEW b \in Clients PROVE Carries(txn'[b], task')
  OBVIOUS
<1>1. txn \in [Clients -> Txn]
  BY DEF IInv, LocksInv
<1>2. CASE b = c
  BY <1>1, <1>2
<1>3. CASE b # c
  <2>1. txn'[b] = txn[b] /\ Carries(txn[b], task) /\ FitsOp(txn[b]) /\ StillSo(txn[b], task, stock)
    BY <1>1, <1>3, Rows DEF AccountsInv
  <2>2. txn[b].op = "dispatch" /\ txn[b].stage \in {"row", "ready"} =>
          txn[b].task \in Keys /\ task[txn[b].task].status = "PICKED"
    BY <2>1 DEF FitsOp, StillSo
  <2>. QED
    BY <2>1, <2>2 DEF Carries
<1>. QED
  BY <1>2, <1>3

LEMMA FinishCarries ==
    ASSUME IInv, AccountsInv, NEW c \in Clients, Finish(c),
           \A k \in Keys : task[k].status # "NONE" =>
               task'[k].stock = task[k].stock /\ task'[k].quantity = task[k].quantity
    PROVE  \A b \in Clients : Carries(txn'[b], task')
<1>1. txn' = [txn EXCEPT ![c] = Idle]
  BY DEF Finish
<1>2. Carries(Idle, task')
  BY DEF Carries, Idle
<1>. QED
  BY <1>1, <1>2, CarriesStep

AccountsKept ==
    /\ stock' = stock /\ ledger' = ledger
    /\ \A k \in Keys : /\ task'[k].stock = task[k].stock /\ task'[k].status = task[k].status
                       /\ task'[k].quantity = task[k].quantity

CarriesKept == \A b \in Clients : Carries(txn'[b], task')

LEMMA ReceiveAccounts ==
    ASSUME IInv, AccountsInv, NEW c \in Clients,
           \/ \E op \in {"receive", "pick"}, k \in Keys, s \in Stocks, q \in Quantities :
                 Receive(c, op, k, s, q)
           \/ \E k \in DispatchKeys \cup {None}, t \in Keys : ReceiveDispatch(c, k, t)
    PROVE  AccountsKept /\ CarriesKept
<1>1. UNCHANGED <<stock, task, ledger>>
  BY DEF Receive, ReceiveDispatch
<1>2. CASE \E op \in {"receive", "pick"}, k \in Keys, s \in Stocks, q \in Quantities :
              Receive(c, op, k, s, q)
  <2>1. PICK op \in {"receive", "pick"}, k \in Keys, s \in Stocks, q \in Quantities :
              Receive(c, op, k, s, q)
    BY <1>2
  <2>. DEFINE x == [Idle EXCEPT !.stage = "received", !.op = op, !.key = k, !.task = k,
                                !.stock = s, !.quantity = q]
  <2>2. txn' = [txn EXCEPT ![c] = x]
    BY <2>1 DEF Receive
  <2>3. Carries(x, task')
    BY DEF Carries, Idle
  <2>. HIDE DEF x
  <2>. QED
    BY <1>1, <2>2, <2>3, CarriesStep DEF AccountsKept, CarriesKept
<1>3. CASE \E k \in DispatchKeys \cup {None}, t \in Keys : ReceiveDispatch(c, k, t)
  <2>1. PICK k \in DispatchKeys \cup {None}, t \in Keys : ReceiveDispatch(c, k, t)
    BY <1>3
  <2>. DEFINE x == [Idle EXCEPT !.stage = IF k = None THEN "keyed" ELSE "received",
                                !.op = "dispatch", !.key = k, !.task = t]
  <2>2. txn' = [txn EXCEPT ![c] = x]
    BY <2>1 DEF ReceiveDispatch
  <2>3. x.stage = IF k = None THEN "keyed" ELSE "received"
    BY DEF Idle
  <2>4. Carries(x, task')
    <3>. HIDE DEF x
    <3>. QED
      BY <2>3 DEF Carries
  <2>. HIDE DEF x
  <2>. QED
    BY <1>1, <2>2, <2>4, CarriesStep DEF AccountsKept, CarriesKept
<1>. QED
  BY <1>2, <1>3

LEMMA LockAccounts ==
    ASSUME IInv, AccountsInv, NEW c \in Clients,
           LockKey(c) \/ LockStockKey(c) \/ LockDispatchKey(c)
    PROVE  AccountsKept /\ CarriesKept
<1>. DEFINE x == txn[c]
<1>1. UNCHANGED <<stock, task, ledger>>
  BY DEF LockKey, LockStockKey, LockDispatchKey
<1>2. x \in Txn
  BY Rows
<1>3. CASE Finish(c)
  BY <1>1, <1>3, FinishCarries DEF AccountsKept, CarriesKept
<1>4. ASSUME NEW stage, txn' = [txn EXCEPT ![c] = [x EXCEPT !.stage = stage]],
             x.op # "dispatch" \/ stage = "keyed"
      PROVE  CarriesKept
  <2>. DEFINE y == [x EXCEPT !.stage = stage]
  <2>1. y.op = x.op /\ y.stage = stage
    BY <1>2 DEF Txn
  <2>2. Carries(y, task')
    <3>. HIDE DEF y
    <3>. QED
      BY <1>4, <2>1 DEF Carries
  <2>3. txn' = [txn EXCEPT ![c] = y]
    BY <1>4
  <2>. HIDE DEF y
  <2>. QED
    BY <1>1, <2>2, <2>3, CarriesStep DEF CarriesKept
<1>5. CASE LockKey(c) /\ ~ Finish(c)
  <2>1. x.op # "dispatch" /\ \E stage : txn' = [txn EXCEPT ![c] = [x EXCEPT !.stage = stage]]
    BY <1>5 DEF LockKey, Advance
  <2>. QED
    BY <1>1, <1>4, <2>1 DEF AccountsKept
<1>6. CASE LockStockKey(c)
  <2>1. x.op # "dispatch" /\ \E stage : txn' = [txn EXCEPT ![c] = [x EXCEPT !.stage = stage]]
    BY <1>6 DEF LockStockKey, Advance
  <2>. QED
    BY <1>1, <1>4, <2>1 DEF AccountsKept
<1>7. CASE LockDispatchKey(c) /\ ~ Finish(c)
  <2>1. txn' = [txn EXCEPT ![c] = [x EXCEPT !.stage = "keyed"]]
    BY <1>7 DEF LockDispatchKey, Advance
  <2>. QED
    BY <1>1, <1>4, <2>1 DEF AccountsKept
<1>. QED
  BY <1>3, <1>5, <1>6, <1>7

LEMMA LockTaskAccounts ==
    ASSUME IInv, AccountsInv, NEW c \in Clients, LockTask(c)
    PROVE  AccountsKept /\ CarriesKept
<1>. DEFINE x == txn[c]
            t == task[x.task]
<1>1. /\ x \in Txn /\ FitsOp(x) /\ x.stage = "keyed" /\ x.op = "dispatch"
      /\ UNCHANGED <<stock, ledger>> /\ x.task \in Keys /\ task \in [Keys -> TaskRow]
  BY Rows DEF LockTask, FitsOp, IInv, RowsInv
<1>2. CASE t.status = "PICKED"
  <2>. DEFINE y == [x EXCEPT !.stage = "row", !.stock = t.stock, !.quantity = t.quantity]
  <2>1. txn' = [txn EXCEPT ![c] = y] /\ task' = task
    BY <1>2 DEF LockTask
  <2>2. y.task = x.task /\ y.stock = t.stock /\ y.quantity = t.quantity
    BY <1>1 DEF Txn
  <2>. HIDE DEF y
  <2>3. Carries(y, task')
    BY <2>1, <2>2 DEF Carries
  <2>. QED
    BY <1>1, <2>1, <2>3, CarriesStep DEF AccountsKept, CarriesKept
<1>3. CASE t.status # "PICKED"
  <2>1. Finish(c) /\ task' = IF Adopt(x) THEN [task EXCEPT ![x.task].request = x.key] ELSE task
    BY <1>3 DEF LockTask
  <2>2. ASSUME NEW k \in Keys
        PROVE  /\ task'[k].stock = task[k].stock /\ task'[k].status = task[k].status
               /\ task'[k].quantity = task[k].quantity
    <3>1. task[k] \in TaskRow
      BY <1>1
    <3>2. task'[k] = task[k] \/ task'[k] = [task[k] EXCEPT !.request = x.key]
      BY <1>1, <2>1
    <3>. QED
      BY <3>1, <3>2 DEF TaskRow
  <2>3. CarriesKept
    BY <2>1, <2>2, FinishCarries DEF CarriesKept
  <2>. QED
    BY <1>1, <2>2, <2>3 DEF AccountsKept
<1>. QED
  BY <1>2, <1>3

LEMMA LockStockAccounts ==
    ASSUME IInv, AccountsInv, NEW c \in Clients, LockStock(c)
    PROVE  AccountsKept /\ CarriesKept
<1>. DEFINE x == txn[c]
            y == [x EXCEPT !.stage = "ready", !.seen = stock[x.stock]]
<1>1. UNCHANGED <<stock, task, ledger>> /\ x.stage = "row" /\ x \in Txn /\ Carries(x, task)
  BY Rows DEF LockStock, AccountsInv
<1>2. CASE Finish(c)
  BY <1>1, <1>2, FinishCarries DEF AccountsKept, CarriesKept
<1>3. CASE txn' = [txn EXCEPT ![c] = y]
  <2>1. y.op = x.op /\ y.task = x.task /\ y.stock = x.stock /\ y.quantity = x.quantity
    BY <1>1 DEF Txn
  <2>. HIDE DEF y
  <2>2. Carries(y, task')
    BY <1>1, <2>1 DEF Carries
  <2>. QED
    BY <1>1, <1>3, <2>2, CarriesStep DEF AccountsKept, CarriesKept
<1>. QED
  BY <1>2, <1>3 DEF LockStock

LEMMA CommitAccounts ==
    ASSUME IInv, AccountsInv, NEW c \in Clients, Commit(c)
    PROVE  AccountsInv'
<1>. DEFINE x == txn[c]
<1>1. PICK k \in Keys : k = x.task
  BY CommitRows
<1>2. \A u \in Keys \ {k} : task'[u] = task[u]
  BY <1>1, CommitRows
<1>3. task[k].status # "NONE" => task'[k].stock = task[k].stock /\ task'[k].quantity = task[k].quantity
  <2>1. /\ task'[k].stock = x.stock /\ task'[k].quantity = x.quantity
        /\ x.op \in {"receive", "pick", "dispatch"}
    BY <1>1, CommitTask
  <2>2. /\ x.op \in {"receive", "pick"} => task[k].status = "NONE"
        /\ x.op = "dispatch" => task[k].stock = x.stock /\ task[k].quantity = x.quantity
    BY <1>1, CommitTask
  <2>. QED
    BY <2>1, <2>2
<1>4. Finish(c)
  BY DEF Commit
<1>5. CarriesKept
  BY <1>2, <1>3, <1>4, FinishCarries DEF CarriesKept
<1>. QED
  BY <1>5, CommitTotals, CommitLedger DEF AccountsInv, CarriesKept, Existing, Carries

LEMMA NextAccounts == IInv /\ AccountsInv /\ [Next]_vars => AccountsInv'
<1>. SUFFICES ASSUME IInv, AccountsInv, [Next]_vars PROVE AccountsInv'
  OBVIOUS
<1>1. ASSUME AccountsKept, CarriesKept PROVE AccountsInv'
  <2>1. LedgerExplainsStock' /\ TasksExplainStock' /\ IsFiniteSet(Existing(task'))
    BY <1>1, QuietAccounts DEF AccountsKept
  <2>. QED
    BY <1>1, <2>1 DEF AccountsInv, CarriesKept, Existing, Carries
<1>2. ASSUME NEW c \in Clients, RollBack(c) PROVE AccountsKept /\ CarriesKept
  BY <1>2, FinishCarries DEF RollBack, AccountsKept, CarriesKept
<1>3. CASE UNCHANGED vars
  <2>1. stock' = stock /\ task' = task /\ ledger' = ledger /\ txn' = txn
    BY <1>3 DEF vars
  <2>2. CarriesKept
    BY <2>1 DEF CarriesKept, AccountsInv
  <2>. QED
    BY <1>1, <2>1, <2>2 DEF AccountsKept
<1>4. ASSUME NEW c \in Clients, Commit(c) PROVE AccountsInv'
  BY <1>4, CommitAccounts
<1>5. CASE Next
  BY <1>1, <1>2, <1>4, <1>5, ReceiveAccounts, LockAccounts, LockTaskAccounts, LockStockAccounts
  DEF Next
<1>. QED
  BY <1>3, <1>5

LEMMA InitAccounts == Init => AccountsInv
<1>. SUFFICES ASSUME Init PROVE AccountsInv
  OBVIOUS
<1>1. Existing(task) = {} /\ \A s, st : st \in Counted => TasksOf(task, s, st) = {}
  BY DEF Init, Existing, TasksOf, Counted, NoTask
<1>2. IsFiniteSet({}) /\ Cardinality({}) = 0
  BY FS_EmptySet
<1>3. UnitPairs(task, {}) = {}
  BY DEF UnitPairs
<1>4. Units(task, {}) = 0
  BY <1>2, <1>3, UnitsCount
<1>5. TasksExplainStock
  <2>1. ASSUME NEW s \in Stocks PROVE stock[s].reserved = 0 /\ stock[s].onHand = 0
    BY DEF Init, NoStock
  <2>2. ASSUME NEW s \in Stocks, NEW st \in Counted PROVE Units(task, TasksOf(task, s, st)) = 0
    BY <1>1, <1>4
  <2>3. "PICKED" \in Counted /\ "DISPATCHED" \in Counted /\ "RECEIVED" \in Counted
    BY DEF Counted
  <2>. QED
    BY <2>1, <2>2, <2>3 DEF TasksExplainStock
<1>6. ASSUME NEW s \in Stocks PROVE Explains(ledger[s], stock[s])
  <2>1. ledger[s] = <<>> /\ stock[s] = NoStock
    BY DEF Init
  <2>2. DOMAIN <<>> = {} /\ Len(<<>>) = 0
    OBVIOUS
  <2>. QED
    BY <2>1, <2>2 DEF Explains, After, NoStock
<1>7. \A c \in Clients : Carries(txn[c], task)
  BY DEF Init, Carries, Idle
<1>. QED
  BY <1>1, <1>2, <1>5, <1>6, <1>7, LedgerIs DEF AccountsInv

(* The accounts agree: no stock is oversold, every ledger entry continues  *)
(* from the one before it up to the row, reserved units are those of the   *)
(* picked tasks, and units on hand are those received less those           *)
(* dispatched, for any stocks, tasks, quantities and interleavings.        *)
THEOREM AccountsAlwaysAgree == Spec => []AccountsAgree
<1>1. IInv /\ AccountsInv => AccountsAgree
  BY DEF IInv, RowsInv, AccountsInv, AccountsAgree
<1>. QED
  BY <1>1, InitAccounts, NextAccounts, IInvHolds, PTL DEF Spec
=============================================================================

------------------------------- MODULE Warehouse -------------------------------
(***************************************************************************)
(* Warehouse commands (WarehouseService): receipt, pick and dispatch of    *)
(* stock under idempotency keys, with the immutable ledger beside them.    *)
(*                                                                         *)
(* A command is a transaction that takes locks one after the other, reads  *)
(* a row when it has the row's lock, and writes all its rows when it       *)
(* commits.  Locks are kept to the end of the transaction.  The advisory   *)
(* locks of idempotency keys and of stock ("warehouse:sku") share one      *)
(* name space in the code; here they meet when a key is also a stock.      *)
(***************************************************************************)
EXTENDS Integers, Sequences, FiniteSets, FiniteSetsExt

CONSTANTS
    Stocks,       \* pairs of warehouse and SKU
    Keys,         \* Idempotency-Key values of receipts and picks
    DispatchKeys, \* Idempotency-Key values of dispatches
    Clients,      \* transactions that run at the same time
    MaxQuantity,  \* MAX_COMMAND_QUANTITY
    MaxInt,       \* Integer.MAX_VALUE
    None

ASSUME WarehouseAssumption ==
    /\ MaxQuantity \in Nat /\ MaxInt \in Nat
    /\ None \notin Stocks \cup Keys \cup DispatchKeys

VARIABLES
    stock,   \* stock[s]: row of warehouse_stock, absent before the first receipt
    task,    \* task[k]: row of warehouse_tasks, named by its idempotency key
    ledger,  \* ledger[s]: rows of inventory_ledger, in commit order
    txn,     \* txn[c]: what client c's transaction is doing
    locks,   \* locks[c]: the locks it holds
    granted  \* history: dispatches answered with success under a key

vars == <<stock, task, ledger, txn, locks, granted>>

Quantities == 1..MaxQuantity

NoStock == [exists |-> FALSE, onHand |-> 0, reserved |-> 0]

StockRow == [exists : BOOLEAN, onHand : 0..MaxInt, reserved : 0..MaxInt]

NoTask == [status |-> "NONE", stock |-> None, quantity |-> 0, request |-> None]

TaskRow == [status : {"NONE", "RECEIVED", "PICKED", "DISPATCHED"}, stock : Stocks \cup {None},
            quantity : 0..MaxQuantity, request : DispatchKeys \cup {None}]

Entry == [task : Keys, type : {"RECEIPT", "PICK", "DISPATCH"},
          onHandDelta : Int, reservedDelta : Int, onHandAfter : Int, reservedAfter : Int]

\* key: the Idempotency-Key; task: the task that is created or dispatched
Txn == [stage : {"idle", "received", "keyed", "row", "ready"},
        op : {"none", "receive", "pick", "dispatch"},
        key : Keys \cup DispatchKeys \cup {None}, task : Keys \cup {None},
        stock : Stocks \cup {None}, quantity : 0..MaxQuantity, seen : StockRow]

Idle == [stage |-> "idle", op |-> "none", key |-> None, task |-> None,
         stock |-> None, quantity |-> 0, seen |-> NoStock]

Lock == {"advisory", "dispatch key", "task", "stock"}
            \X (Stocks \cup Keys \cup DispatchKeys \cup {None})

TypeOK ==
    /\ stock \in [Stocks -> StockRow]
    /\ task \in [Keys -> TaskRow]
    /\ ledger \in [Stocks -> Seq(Entry)]
    /\ txn \in [Clients -> Txn]
    /\ locks \in [Clients -> SUBSET Lock]
    /\ granted \in SUBSET [key : DispatchKeys, task : Keys]

Init ==
    /\ stock = [s \in Stocks |-> NoStock]
    /\ task = [k \in Keys |-> NoTask]
    /\ ledger = [s \in Stocks |-> <<>>]
    /\ txn = [c \in Clients |-> Idle]
    /\ locks = [c \in Clients |-> {}]
    /\ granted = {}

-----------------------------------------------------------------------------
\* POST /receipts or /outbounds, and POST /outbounds/{id}/dispatch.  A dispatch
\* without a key is one that was served before V42.
Receive(c, op, k, s, q) ==
    /\ txn[c].stage = "idle"
    /\ txn' = [txn EXCEPT ![c] = [Idle EXCEPT !.stage = "received", !.op = op, !.key = k,
                                               !.task = k, !.stock = s, !.quantity = q]]
    /\ UNCHANGED <<stock, task, ledger, locks, granted>>

ReceiveDispatch(c, k, t) ==
    /\ txn[c].stage = "idle"
    /\ txn' = [txn EXCEPT ![c] = [Idle EXCEPT !.stage = IF k = None THEN "keyed" ELSE "received",
                                               !.op = "dispatch", !.key = k, !.task = t]]
    /\ UNCHANGED <<stock, task, ledger, locks, granted>>

Take(c, lock) ==
    /\ \A b \in Clients \ {c} : lock \notin locks[b]
    /\ locks' = [locks EXCEPT ![c] = @ \cup {lock}]

Advance(c, stage) == txn' = [txn EXCEPT ![c].stage = stage]

\* Fault: advisory locks of the session, not of the transaction.
FinishHolding(c) ==
    /\ txn' = [txn EXCEPT ![c] = Idle]
    /\ locks' = [locks EXCEPT ![c] = {l \in @ : l[1] = "advisory"}]

\* Commit or rollback: the transaction ends and releases its locks.
Finish(c) ==
    /\ txn' = [txn EXCEPT ![c] = Idle]
    /\ locks' = [locks EXCEPT ![c] = {}]

\* The lock a transaction asks for next.
Wanted(x) ==
    IF x.stage = "received" THEN <<IF x.op = "dispatch" THEN "dispatch key" ELSE "advisory", x.key>>
    ELSE IF x.stage = "keyed" /\ x.op = "dispatch" THEN <<"task", x.task>>
    ELSE IF x.stage = "keyed" /\ x.op = "receive" THEN <<"advisory", x.stock>>
    ELSE <<"stock", x.stock>>

-----------------------------------------------------------------------------
\* lockIdempotencyKey and the lookup behind it: a repeated command is answered
\* with its task, another command under the key is a conflict.
LockKey(c) ==
    LET x == txn[c]
        next == IF x.op = "receive" THEN "keyed" ELSE "row"
    IN  /\ x.stage = "received" /\ x.op # "dispatch"
        /\ IF task[x.key] = NoTask
           THEN Take(c, Wanted(x)) /\ Advance(c, next)
           ELSE (\A b \in Clients \ {c} : Wanted(x) \notin locks[b]) /\ Finish(c)
        /\ UNCHANGED <<stock, task, ledger, granted>>

\* Fault: the place of a missing row is not locked.
LockStockKeyNot(c) ==
    /\ txn[c].stage = "keyed" /\ txn[c].op = "receive"
    /\ Advance(c, "row")
    /\ UNCHANGED <<stock, task, ledger, locks, granted>>

\* lockStockKey: only one receipt at a time may find that the row is missing.
LockStockKey(c) ==
    /\ txn[c].stage = "keyed" /\ txn[c].op = "receive"
    /\ Take(c, Wanted(txn[c]))
    /\ Advance(c, "row")
    /\ UNCHANGED <<stock, task, ledger, granted>>

\* lockDispatchRequestKey: a key that dispatched a task before is answered with
\* it, if it is this task.
LockDispatchKey(c) ==
    LET x == txn[c]
        prior == {t \in Keys : task[t].request = x.key}
    IN  /\ x.stage = "received" /\ x.op = "dispatch"
        /\ IF prior = {}
           THEN /\ Take(c, Wanted(x))
                /\ Advance(c, "keyed")
                /\ UNCHANGED granted
           ELSE /\ \A b \in Clients \ {c} : Wanted(x) \notin locks[b]
                /\ Finish(c)
                /\ granted' = granted \cup {[key |-> x.key, task |-> t] : t \in prior \cap {x.task}}
        /\ UNCHANGED <<stock, task, ledger>>

\* Fault: a dispatched task takes any further key.
AdoptAnyKey(x) == task[x.task].status = "DISPATCHED" /\ x.key # None

\* bindDispatchRequestKey: a task that was dispatched without a key takes the
\* first key it is asked for again, and keeps it.
Adopt(x) ==
    /\ task[x.task].status = "DISPATCHED"
    /\ x.key # None
    /\ task[x.task].request = None

\* findForUpdateById: a picked task goes on to its stock; a dispatched one is
\* answered, under its own key only; anything else ends without a change.
LockTask(c) ==
    LET x == txn[c]
        t == task[x.task]
    IN  /\ x.stage = "keyed" /\ x.op = "dispatch"
        /\ IF t.status = "PICKED"
           THEN /\ Take(c, Wanted(x))
                /\ txn' = [txn EXCEPT ![c] = [@ EXCEPT !.stage = "row", !.stock = t.stock,
                                                        !.quantity = t.quantity]]
                /\ UNCHANGED <<task, granted>>
           ELSE /\ \A b \in Clients \ {c} : Wanted(x) \notin locks[b]
                /\ Finish(c)
                /\ task' = IF Adopt(x) THEN [task EXCEPT ![x.task].request = x.key] ELSE task
                /\ granted' = IF x.key # None /\ task'[x.task].request = x.key
                              THEN granted \cup {[key |-> x.key, task |-> x.task]}
                              ELSE granted
        /\ UNCHANGED <<stock, ledger>>

\* Fault: a pick looks at what is on hand instead of what is available.
CoversOnHand(x, row) ==
    CASE x.op = "receive"  -> row.onHand <= MaxInt - x.quantity
      [] x.op = "pick"     -> row.exists /\ row.onHand >= x.quantity
      [] x.op = "dispatch" -> row.exists /\ row.reserved >= x.quantity

\* The row the command needs, and the checks of WarehouseStock on it.
Covers(x, row) ==
    CASE x.op = "receive"  -> row.onHand <= MaxInt - x.quantity
      [] x.op = "pick"     -> row.exists /\ row.onHand - row.reserved >= x.quantity
      [] x.op = "dispatch" -> row.exists /\ row.reserved >= x.quantity

\* lockByWarehouseAndSku: FOR UPDATE, which locks nothing when there is no row.
LockStock(c) ==
    LET x == txn[c]
        row == stock[x.stock]
    IN  /\ x.stage = "row"
        /\ IF Covers(x, row)
           THEN /\ IF row.exists THEN Take(c, Wanted(x)) ELSE UNCHANGED locks
                /\ txn' = [txn EXCEPT ![c] = [@ EXCEPT !.stage = "ready", !.seen = row]]
           ELSE /\ row.exists => \A b \in Clients \ {c} : Wanted(x) \notin locks[b]
                /\ Finish(c)
        /\ UNCHANGED <<stock, task, ledger, granted>>

OnHandDelta(x) ==
    CASE x.op = "receive" -> x.quantity [] x.op = "pick" -> 0 [] x.op = "dispatch" -> -x.quantity

ReservedDelta(x) ==
    CASE x.op = "receive" -> 0 [] x.op = "pick" -> x.quantity [] x.op = "dispatch" -> -x.quantity

Changed(x) ==
    [exists |-> TRUE, onHand |-> x.seen.onHand + OnHandDelta(x),
     reserved |-> x.seen.reserved + ReservedDelta(x)]

\* Fault: the entry is written before the row is changed.
EntryBefore(x) ==
    [task |-> x.task,
     type |-> CASE x.op = "receive" -> "RECEIPT" [] x.op = "pick" -> "PICK" [] x.op = "dispatch" -> "DISPATCH",
     onHandDelta |-> OnHandDelta(x), reservedDelta |-> ReservedDelta(x),
     onHandAfter |-> x.seen.onHand, reservedAfter |-> x.seen.reserved]

EntryOf(x) ==
    [task |-> x.task,
     type |-> CASE x.op = "receive" -> "RECEIPT" [] x.op = "pick" -> "PICK" [] x.op = "dispatch" -> "DISPATCH",
     onHandDelta |-> OnHandDelta(x), reservedDelta |-> ReservedDelta(x),
     onHandAfter |-> Changed(x).onHand, reservedAfter |-> Changed(x).reserved]

\* The unique indexes and the stock's @Version: what they refuse is rolled back.
DatabaseAllows(x) ==
    /\ stock[x.stock] = x.seen
    /\ IF x.op = "dispatch"
       THEN x.key # None => \A t \in Keys : task[t].request # x.key
       ELSE task[x.task] = NoTask

\* Commit: stock, task, ledger entry and outbox event in one transaction.
Commit(c) ==
    LET x == txn[c]
    IN  /\ x.stage = "ready"
        /\ DatabaseAllows(x)
        /\ stock' = [stock EXCEPT ![x.stock] = Changed(x)]
        /\ IF x.op = "dispatch"
           THEN /\ task' = [task EXCEPT ![x.task] =
                       [@ EXCEPT !.status = "DISPATCHED", !.request = x.key]]
                /\ granted' = granted \cup
                       ({[key |-> x.key, task |-> x.task]} \cap [key : DispatchKeys, task : Keys])
           ELSE /\ task' = [task EXCEPT ![x.task] =
                       [status |-> IF x.op = "receive" THEN "RECEIVED" ELSE "PICKED",
                        stock |-> x.stock, quantity |-> x.quantity, request |-> None]]
                /\ UNCHANGED granted
        /\ ledger' = [ledger EXCEPT ![x.stock] = Append(@, EntryOf(x))]
        /\ Finish(c)

\* A crash, a lost connection, a refused commit: nothing of it stays.
RollBack(c) ==
    /\ txn[c].stage # "idle"
    /\ Finish(c)
    /\ UNCHANGED <<stock, task, ledger, granted>>

Next ==
    \E c \in Clients :
        \/ \E op \in {"receive", "pick"}, k \in Keys, s \in Stocks, q \in Quantities :
              Receive(c, op, k, s, q)
        \/ \E k \in DispatchKeys \cup {None}, t \in Keys : ReceiveDispatch(c, k, t)
        \/ LockKey(c) \/ LockStockKey(c)
        \/ LockDispatchKey(c) \/ LockTask(c)
        \/ LockStock(c) \/ Commit(c) \/ RollBack(c)

Spec == Init /\ [][Next]_vars

-----------------------------------------------------------------------------
\* Stock is never oversold: a pick reserves only what no other pick has reserved,
\* whichever of them run at the same time, and no receipt takes a row over the
\* largest integer of its column.
NeverOversold ==
    \A s \in Stocks :
        /\ 0 <= stock[s].reserved /\ stock[s].reserved <= stock[s].onHand
        /\ stock[s].onHand <= MaxInt

\* The ledger tells how the stock came about: every entry continues from the one
\* before it, and the last one is the row.
LedgerExplainsStock ==
    \A s \in Stocks :
        LET after(n) == IF n = 0 THEN [onHand |-> 0, reserved |-> 0]
                        ELSE [onHand |-> ledger[s][n].onHandAfter,
                              reserved |-> ledger[s][n].reservedAfter]
        IN  /\ \A n \in DOMAIN ledger[s] :
                  after(n) = [onHand |-> after(n - 1).onHand + ledger[s][n].onHandDelta,
                              reserved |-> after(n - 1).reserved + ledger[s][n].reservedDelta]
            /\ stock[s].exists <=> ledger[s] # <<>>
            /\ after(Len(ledger[s])) = [onHand |-> stock[s].onHand, reserved |-> stock[s].reserved]

\* The units of a set of tasks.
Units(tasks, A) == MapThenSumSet(LAMBDA k : tasks[k].quantity, A)

TasksOf(tasks, s, status) == {k \in Keys : tasks[k].stock = s /\ tasks[k].status = status}

\* What is reserved is what the picked tasks hold, so a picked task can always be
\* dispatched, and what is on hand is what the tasks brought in less what left.
TasksExplainStock ==
    \A s \in Stocks :
        /\ stock[s].reserved = Units(task, TasksOf(task, s, "PICKED"))
        /\ stock[s].onHand + Units(task, TasksOf(task, s, "DISPATCHED"))
              = Units(task, TasksOf(task, s, "RECEIVED"))

\* Stock, tasks and ledger are three accounts of the same events and agree, and
\* none of them promises units that are not there.
AccountsAgree == NeverOversold /\ LedgerExplainsStock /\ TasksExplainStock

\* The locks serialise what the database would refuse: receipts that find no row
\* do not collide in a unique index, and no version conflict is ever seen.
LocksSuffice == \A c \in Clients : txn[c].stage = "ready" => DatabaseAllows(txn[c])

\* A dispatch key stands for one task, and the task keeps the key it was answered
\* under, also when it was dispatched before keys were stored.
DispatchKeptByKey ==
    \A g, h \in granted :
        /\ task[g.task].status = "DISPATCHED" /\ task[g.task].request = g.key
        /\ g.key = h.key <=> g.task = h.task

\* Transactions never wait for each other in a ring: while some are open, one of
\* them can go on.
SomeoneProceeds ==
    LET open == {c \in Clients : txn[c].stage # "idle"}
    IN  open # {} =>
          \E c \in open : \/ txn[c].stage = "ready"
                          \/ \A b \in Clients \ {c} : Wanted(txn[c]) \notin locks[b]
=============================================================================

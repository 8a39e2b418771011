------------------------------- MODULE Telemetry -------------------------------
(***************************************************************************)
(* The telemetry consumer (TelemetryConsumer.consume, Delivery,            *)
(* fulfillFromDelivery, KafkaConfig) on one partition of                   *)
(* vehicle.telemetry.v1, for the events of one delivery, which all have    *)
(* its key.  The partition belongs to one API instance at a time, but an   *)
(* instance that lost it may still commit the transaction it was in.       *)
(*                                                                         *)
(* A transaction reads at READ COMMITTED in three places: the processed    *)
(* events, the delivery, and the linked order.  Only the delivery row is   *)
(* versioned.  Saving a point or a processed event whose id exists already *)
(* is an update that changes nothing the properties see.                   *)
(***************************************************************************)
EXTENDS Naturals, Sequences, FiniteSets

CONSTANTS
    Events,     \* event ids
    EventOf,    \* EventOf[e]: [valid, at, progress]; valid: passes every check of the consumer
    Full,       \* the progress of a DELIVERED event
    Instances,  \* API instances of the consumer group
    MaxLog,     \* bound: records in the partition, duplicates and replays included
    MaxMoves    \* bound: rebalances and crashes

ASSUME TelemetryAssumption ==
    /\ Full \in Nat \ {0}
    /\ MaxLog \in Nat /\ MaxMoves \in Nat
    /\ EventOf \in [Events -> [valid : BOOLEAN, at : Nat \ {0}, progress : 0..Full]]
    /\ Instances # {}

VARIABLES
    log,        \* records of the partition
    owner,      \* instance the partition is assigned to
    committed,  \* the group's committed offset: records 1..committed are done
    work,       \* work[i]: the record instance i is at, and what it has read
    row,        \* the delivery: progress (Full is DELIVERED), last_telemetry_at, version
    order,      \* status of the linked order
    processed,  \* processed_events
    dead,       \* events published to the dead letter topic
    applied,    \* history: events applied to the delivery, in commit order
    announced,  \* history: order.fulfilled events committed
    moves       \* rebalances and crashes so far

vars == <<log, owner, committed, work, row, order, processed, dead, applied, announced, moves>>

Row == [progress : 0..Full, last : Nat, version : Nat]

Statuses == {"DISPATCHED", "FULFILLED"}

Work == [stage : {"poll", "load", "write"}, at : Nat, seen : Row, seenOrder : Statuses]

TypeOK ==
    /\ log \in Seq(Events) /\ Len(log) <= MaxLog
    /\ owner \in Instances
    /\ committed \in 0..Len(log)
    /\ work \in [Instances -> Work]
    /\ row \in Row
    /\ order \in Statuses
    /\ processed \in SUBSET Events
    /\ dead \in SUBSET Events
    /\ applied \in Seq(Events)
    /\ announced \in Nat
    /\ moves \in 0..MaxMoves

Created == [progress |-> 0, last |-> 0, version |-> 0]

\* An instance that is about to poll the record after offset n.
Poll(n) == [stage |-> "poll", at |-> n + 1, seen |-> Created, seenOrder |-> "DISPATCHED"]

Init ==
    /\ log = <<>>
    /\ owner \in Instances
    /\ committed = 0
    /\ work = [i \in Instances |-> Poll(0)]
    /\ row = Created
    /\ order = "DISPATCHED"
    /\ processed = {}
    /\ dead = {}
    /\ applied = <<>>
    /\ announced = 0
    /\ moves = 0

-----------------------------------------------------------------------------
\* The simulator, or an operator's replay, appends a record; ids may repeat.
Append1(e) ==
    /\ Len(log) < MaxLog
    /\ log' = Append(log, e)
    /\ UNCHANGED <<owner, committed, work, row, order, processed, dead, applied, announced, moves>>

Current(i) == log[work[i].at]

\* The record is done with: the owner moves to the next one.
NextRecord(i) == work' = [work EXCEPT ![i] = Poll(work[i].at)]

\* consume() starts: an event processed before is returned from at once.
Check(i) ==
    /\ work[i].stage = "poll"
    /\ i = owner
    /\ work[i].at <= Len(log)
    /\ IF Current(i) \in processed
       THEN NextRecord(i)
       ELSE work' = [work EXCEPT ![i].stage = "load"]
    /\ UNCHANGED <<log, owner, committed, row, order, processed, dead, applied, announced, moves>>

\* The transaction reads the delivery, and with it the order it would fulfil.
Load(i) ==
    /\ work[i].stage = "load"
    /\ work' = [work EXCEPT ![i] = [@ EXCEPT !.stage = "write", !.seen = row, !.seenOrder = order]]
    /\ UNCHANGED <<log, owner, committed, row, order, processed, dead, applied, announced, moves>>

\* Delivery.applyTelemetry on the row that was read.
Stale(e, r) == r.progress = Full \/ r.last >= EventOf[e].at

Backward(e, r) == EventOf[e].progress < r.progress

Rejected(e, r) == ~EventOf[e].valid \/ (~Stale(e, r) /\ Backward(e, r))

\* Fault: no @Version on the delivery.
WriteUnversioned(i) ==
    /\ work[i].stage = "write"
    /\ LET e == Current(i)
           seen == work[i].seen
       IN  /\ ~Rejected(e, seen)
           /\ processed' = processed \cup {e}
           /\ IF Stale(e, seen)
              THEN UNCHANGED <<row, applied, order, announced>>
              ELSE /\ row' = [progress |-> EventOf[e].progress, last |-> EventOf[e].at,
                              version |-> seen.version + 1]
                   /\ applied' = Append(applied, e)
                   /\ IF EventOf[e].progress = Full /\ work[i].seenOrder # "FULFILLED"
                      THEN order' = "FULFILLED" /\ announced' = announced + 1
                      ELSE UNCHANGED <<order, announced>>
    /\ NextRecord(i)
    /\ UNCHANGED <<log, owner, committed, dead, moves>>

\* Fault: the order is not fulfilled with the delivery.
WriteUnfulfilled(i) ==
    /\ work[i].stage = "write"
    /\ LET e == Current(i)
           seen == work[i].seen
       IN  /\ ~Rejected(e, seen)
           /\ processed' = processed \cup {e}
           /\ IF Stale(e, seen)
              THEN UNCHANGED <<row, applied>>
              ELSE /\ seen.version = row.version
                   /\ row' = [progress |-> EventOf[e].progress, last |-> EventOf[e].at,
                              version |-> seen.version + 1]
                   /\ applied' = Append(applied, e)
    /\ NextRecord(i)
    /\ UNCHANGED <<log, owner, committed, dead, moves, order, announced>>

\* Commit: point and processed event are saved even for a stale event; an event
\* that applies also needs the delivery's version unchanged since it was read.
Write(i) ==
    /\ work[i].stage = "write"
    /\ LET e == Current(i)
           seen == work[i].seen
       IN  /\ ~Rejected(e, seen)
           /\ processed' = processed \cup {e}
           /\ IF Stale(e, seen)
              THEN UNCHANGED <<row, applied, order, announced>>
              ELSE /\ seen.version = row.version
                   /\ row' = [progress |-> EventOf[e].progress, last |-> EventOf[e].at,
                              version |-> seen.version + 1]
                   /\ applied' = Append(applied, e)
                   /\ IF EventOf[e].progress = Full /\ work[i].seenOrder # "FULFILLED"
                      THEN order' = "FULFILLED" /\ announced' = announced + 1
                      ELSE UNCHANGED <<order, announced>>
    /\ NextRecord(i)
    /\ UNCHANGED <<log, owner, committed, dead, moves>>

Reject(i) == work[i].stage = "write" /\ Rejected(Current(i), work[i].seen)

\* The transaction fails, by a version conflict or a database error, and is
\* rolled back.  The error handler retries the record with backoff.
RetryLater(i) ==
    /\ work[i].stage # "poll"
    /\ ~Reject(i)
    /\ work' = [work EXCEPT ![i] = Poll(@.at - 1)]
    /\ UNCHANGED <<log, owner, committed, row, order, processed, dead, applied, announced, moves>>

\* Fault: the recoverer only logs the record.
GiveUpSilently(i) ==
    /\ work[i].stage # "poll"
    /\ NextRecord(i)
    /\ UNCHANGED <<log, owner, committed, row, order, processed, dead, applied, announced, moves>>

\* The record is published to the dead letter topic: at once when the event is
\* rejected, otherwise when the retries of 8 seconds are used up.
GiveUp(i) ==
    /\ work[i].stage # "poll"
    /\ dead' = dead \cup {Current(i)}
    /\ NextRecord(i)
    /\ UNCHANGED <<log, owner, committed, row, order, processed, applied, announced, moves>>

\* The owner commits the offset of what it has finished.
CommitOffset(i) ==
    /\ i = owner
    /\ committed < work[i].at - 1
    /\ committed' = work[i].at - 1
    /\ UNCHANGED <<log, owner, work, row, order, processed, dead, applied, announced, moves>>

\* The partition moves to instance j, which starts at the committed offset.  The
\* old owner either crashed, losing its transaction, or is still in it.
Move(j) ==
    /\ moves < MaxMoves
    /\ moves' = moves + 1
    /\ owner' = j
    /\ \/ work' = [work EXCEPT ![owner] = Poll(committed), ![j] = Poll(committed)]
       \/ j # owner /\ work[j].stage = "poll" /\ work' = [work EXCEPT ![j] = Poll(committed)]
    /\ UNCHANGED <<log, committed, row, order, processed, dead, applied, announced>>

Next ==
    \/ \E e \in Events : Append1(e)
    \/ \E i \in Instances :
          \/ Check(i) \/ Load(i) \/ Write(i)
          \/ RetryLater(i) \/ GiveUp(i)
          \/ CommitOffset(i) \/ Move(i)

Spec == Init /\ [][Next]_vars

-----------------------------------------------------------------------------
\* However often records are repeated, moved to another instance or retried, the
\* delivery takes each event once, in the order of occurredAt, never with less
\* progress than before, and the row shows the last one taken.
AppliedInOrder ==
    /\ \A m, n \in DOMAIN applied : m < n =>
          /\ EventOf[applied[m]].at < EventOf[applied[n]].at
          /\ EventOf[applied[m]].progress <= EventOf[applied[n]].progress
    /\ row.version = Len(applied)
    /\ applied # <<>> => row.last = EventOf[applied[Len(applied)]].at

\* Nothing that was processed is newer than the row: a late transaction of an
\* instance that lost the partition cannot put an older position back.  In
\* particular a processed completion left the delivery delivered.
RowIsNewest ==
    \A e \in processed :
        /\ row.progress = Full \/ row.last >= EventOf[e].at
        /\ EventOf[e].progress = Full => row.progress = Full

\* The delivery only moves forward, whichever copy of a record comes when and
\* whichever instance still has a transaction open.
OnlyForward == AppliedInOrder /\ RowIsNewest

\* The linked order is fulfilled in the transaction that delivers, and its event
\* is committed exactly once.
FulfilledWithDelivery ==
    /\ (row.progress = Full) <=> (order = "FULFILLED")
    /\ announced = IF order = "FULFILLED" THEN 1 ELSE 0

\* A committed offset has passed over nothing: every record below it had its
\* effect or is in the dead letter topic.
NothingSkipped ==
    \A n \in 1..committed : log[n] \in processed \cup dead

=============================================================================

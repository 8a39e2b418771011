-------------------------- MODULE TelemetryProofs --------------------------
(***************************************************************************)
(* The telemetry consumer (Telemetry), for any events, instances, log and  *)
(* rebalances.  The invariant relates what a transaction has read to the   *)
(* row as it is now: the row has moved on, or is the row that was read.    *)
(*                                                                         *)
(* The alerts its transactions open, observe and resolve (DeliveryAlerts), *)
(* for any alerts, operators, keys and transactions.  A transaction writes *)
(* back a row it read without a lock; StillTrue says what of it is true as *)
(* long as the transaction may commit.                                     *)
(***************************************************************************)
EXTENDS Telemetry, DeliveryAlerts, FiniteSetTheorems, TLAPS

(* An instance is at a record of the log, or waits for the next one.       *)
Places ==
    \A i \in Instances :
        /\ work[i].at \in 1 .. Len(log) + 1
        /\ work[i].stage # "poll" => work[i].at <= Len(log)

(* Whoever has passed over a record, it had its effect or is dead.         *)
PassedIsDone ==
    \A i \in Instances : \A n \in 1 .. work[i].at - 1 : log[n] \in processed \cup dead

SeenBelow ==
    \A i \in Instances : work[i].stage = "write" =>
        /\ work[i].seen.version <= row.version
        /\ work[i].seen.version = row.version => work[i].seen = row
        /\ work[i].seen.last <= row.last
        /\ work[i].seen.progress <= row.progress
        /\ work[i].seen.progress = Full <=> work[i].seenOrder = "FULFILLED"

LastApplied ==
    /\ applied = <<>> => row.last = 0
    /\ applied # <<>> => row.progress = EventOf[applied[Len(applied)]].progress
    /\ \A n \in DOMAIN applied : EventOf[applied[n]].valid

NewestApplied == \A e \in processed : row.progress = Full \/ row.last >= EventOf[e].at

IInv ==
    /\ TypeOK
    /\ Places
    /\ PassedIsDone
    /\ NothingSkipped
    /\ SeenBelow
    /\ FulfilledWithDelivery
    /\ AppliedInOrder
    /\ LastApplied
    /\ NewestApplied

(* The clock of the simulator's host does not run behind a completion: no  *)
(* valid event is as late as a completion without being one.               *)
CompletionIsLast ==
    \A e, f \in Events :
        /\ EventOf[e].valid /\ EventOf[f].valid
        /\ EventOf[e].progress = Full /\ EventOf[e].at <= EventOf[f].at
        => EventOf[f].progress = Full

CompletionStays == \A e \in processed : EventOf[e].progress = Full => row.progress = Full
-----------------------------------------------------------------------------
historyVars == <<row, order, applied, announced>>

LEMMA EventsAre ==
    ASSUME NEW e \in Events
    PROVE  /\ EventOf[e].at \in Nat /\ EventOf[e].at # 0 /\ EventOf[e].progress \in 0 .. Full
           /\ EventOf[e].valid \in BOOLEAN
  BY TelemetryAssumption

LEMMA PollIs ==
    ASSUME NEW n \in Nat
    PROVE  /\ Poll(n) \in Work /\ Poll(n).at = n + 1 /\ Poll(n).stage = "poll"
  BY TelemetryAssumption DEF Poll, Work, Created, Row, Statuses

LEMMA CurrentIs ==
    ASSUME IInv, NEW i \in Instances, work[i].stage # "poll"
    PROVE  Current(i) \in Events /\ work[i].at \in 1 .. Len(log)
  BY DEF IInv, TypeOK, Places, Current

LEMMA WorkIs ==
    ASSUME IInv, NEW i \in Instances
    PROVE  /\ work[i] \in Work /\ work[i].at \in Nat /\ work[i].at - 1 \in Nat
           /\ Len(log) \in Nat /\ work[i].at \in 1 .. Len(log) + 1
           /\ work[i].stage # "poll" => work[i].at \in 1 .. Len(log)
           /\ \A n \in 1 .. work[i].at - 1 : log[n] \in processed \cup dead
<1>1. work[i] \in Work /\ work[i].at \in Nat /\ Len(log) \in Nat
  BY DEF IInv, TypeOK, Work
<1>2. work[i].at \in 1 .. Len(log) + 1 /\ (work[i].stage # "poll" => work[i].at <= Len(log))
  BY DEF IInv, Places
<1>3. \A n \in 1 .. work[i].at - 1 : log[n] \in processed \cup dead
  BY DEF IInv, PassedIsDone
<1>4. work[i].at - 1 \in Nat /\ (work[i].stage # "poll" => work[i].at \in 1 .. Len(log))
  BY <1>1, <1>2
<1>. QED
  BY <1>1, <1>2, <1>3, <1>4

(* A step that changes neither row nor history.                            *)
LEMMA HistoryStays ==
    ASSUME IInv, UNCHANGED historyVars, processed' = processed
    PROVE  FulfilledWithDelivery' /\ AppliedInOrder' /\ LastApplied' /\ NewestApplied'
  BY DEF IInv, historyVars, FulfilledWithDelivery, AppliedInOrder, LastApplied, NewestApplied

(* One instance gets new work.                                             *)
LEMMA WorkPreserves ==
    ASSUME IInv, UNCHANGED historyVars, UNCHANGED <<log, owner, committed, processed, moves>>,
           dead \subseteq dead', dead' \subseteq Events,
           NEW i \in Instances, NEW w \in Work, work' = [work EXCEPT ![i] = w],
           w.at \in 1 .. Len(log) + 1, w.stage # "poll" => w.at <= Len(log),
           \A n \in 1 .. w.at - 1 : log[n] \in processed \cup dead',
           w.stage = "write" => w.seen = row /\ w.seenOrder = order
    PROVE  IInv'
<1>1. TypeOK'
  BY DEF IInv, TypeOK, historyVars
<1>2. \A j \in Instances : work'[j] = IF j = i THEN w ELSE work[j]
  BY DEF IInv, TypeOK
<1>3. Places'
  BY <1>2 DEF IInv, Places
<1>4. PassedIsDone'
  BY <1>2 DEF IInv, PassedIsDone
<1>5. NothingSkipped'
  BY DEF IInv, NothingSkipped
<1>6. SeenBelow'
  <2>1. row' = row /\ order' = order /\ row \in Row
    BY DEF historyVars, IInv, TypeOK
  <2>2. row.version <= row.version /\ row.last <= row.last /\ row.progress <= row.progress
    BY <2>1 DEF Row
  <2>. QED
    BY <1>2, <2>1, <2>2 DEF IInv, SeenBelow, FulfilledWithDelivery
<1>. QED
  BY <1>1, <1>3, <1>4, <1>5, <1>6, HistoryStays DEF IInv

LEMMA AppendPreserves == ASSUME IInv, NEW e \in Events, Append1(e) PROVE IInv'
<1>1. /\ log' = Append(log, e) /\ Len(log) < MaxLog /\ log \in Seq(Events)
      /\ UNCHANGED <<owner, committed, work, row, order, processed, dead, applied, announced, moves>>
  BY DEF Append1, IInv, TypeOK
<1>2. /\ Len(log') = Len(log) + 1 /\ log' \in Seq(Events)
      /\ \A n \in 1 .. Len(log) : log'[n] = log[n]
  BY <1>1
<1>3. TypeOK'
  BY <1>1, <1>2, TelemetryAssumption DEF IInv, TypeOK
<1>4. Places'
  BY <1>1, <1>2 DEF IInv, Places
<1>5. PassedIsDone'
  BY <1>1, <1>2 DEF IInv, Places, PassedIsDone
<1>6. NothingSkipped'
  BY <1>1, <1>2 DEF IInv, TypeOK, NothingSkipped
<1>7. SeenBelow'
  BY <1>1 DEF IInv, SeenBelow
<1>. QED
  BY <1>1, <1>3, <1>4, <1>5, <1>6, <1>7, HistoryStays DEF IInv, historyVars

LEMMA CheckPreserves == ASSUME IInv, NEW i \in Instances, Check(i) PROVE IInv'
<1>1. /\ UNCHANGED <<log, owner, committed, row, order, processed, dead, applied, announced, moves>>
      /\ work[i].at <= Len(log)
  BY DEF Check
<1>2. UNCHANGED historyVars /\ dead \subseteq dead' /\ dead' \subseteq Events
  BY <1>1 DEF historyVars, IInv, TypeOK
<1>3. CASE Current(i) \in processed
  <2>. DEFINE w == Poll(work[i].at)
  <2>1. w \in Work /\ w.at = work[i].at + 1 /\ w.stage = "poll"
    BY WorkIs, PollIs
  <2>2. w.at \in 1 .. Len(log) + 1 /\ (w.stage # "poll" => w.at <= Len(log))
    BY <1>1, <2>1, WorkIs
  <2>3. \A n \in 1 .. w.at - 1 : log[n] \in processed \cup dead'
    BY <1>1, <1>3, <2>1, WorkIs DEF Current
  <2>4. work' = [work EXCEPT ![i] = w]
    BY <1>3 DEF Check, NextRecord
  <2>. HIDE DEF w
  <2>. QED
    BY <1>1, <1>2, <2>1, <2>2, <2>3, <2>4, WorkPreserves
<1>4. CASE Current(i) \notin processed
  <2>. DEFINE w == [work[i] EXCEPT !.stage = "load"]
  <2>1. w \in Work /\ w.at = work[i].at /\ w.stage = "load"
    BY WorkIs DEF Work
  <2>2. w.at \in 1 .. Len(log) + 1 /\ w.at <= Len(log)
    BY <1>1, <2>1, WorkIs
  <2>3. \A n \in 1 .. w.at - 1 : log[n] \in processed \cup dead'
    BY <1>1, <2>1, WorkIs
  <2>4. work' = [work EXCEPT ![i] = w]
    BY <1>4 DEF Check
  <2>. HIDE DEF w
  <2>. QED
    BY <1>1, <1>2, <2>1, <2>2, <2>3, <2>4, WorkPreserves
<1>. QED
  BY <1>3, <1>4

LEMMA LoadPreserves == ASSUME IInv, NEW i \in Instances, Load(i) PROVE IInv'
<1>. DEFINE w == [work[i] EXCEPT !.stage = "write", !.seen = row, !.seenOrder = order]
<1>1. /\ UNCHANGED <<log, owner, committed, row, order, processed, dead, applied, announced, moves>>
      /\ work[i].stage # "poll" /\ work' = [work EXCEPT ![i] = w]
  BY DEF Load
<1>2. UNCHANGED historyVars /\ dead \subseteq dead' /\ dead' \subseteq Events
  BY <1>1 DEF historyVars, IInv, TypeOK
<1>3. w \in Work /\ w.at = work[i].at /\ w.seen = row /\ w.seenOrder = order
  BY WorkIs DEF Work, IInv, TypeOK
<1>4. w.at \in 1 .. Len(log) + 1 /\ w.at <= Len(log)
  BY <1>1, <1>3, WorkIs
<1>5. \A n \in 1 .. w.at - 1 : log[n] \in processed \cup dead'
  BY <1>1, <1>3, WorkIs
<1>. HIDE DEF w
<1>. QED
  BY <1>1, <1>2, <1>3, <1>4, <1>5, WorkPreserves

LEMMA RetryPreserves == ASSUME IInv, NEW i \in Instances, RetryLater(i) PROVE IInv'
<1>. DEFINE w == Poll(work[i].at - 1)
<1>1. /\ UNCHANGED <<log, owner, committed, row, order, processed, dead, applied, announced, moves>>
      /\ work' = [work EXCEPT ![i] = w]
  BY DEF RetryLater
<1>2. UNCHANGED historyVars /\ dead \subseteq dead' /\ dead' \subseteq Events
  BY <1>1 DEF historyVars, IInv, TypeOK
<1>3. w \in Work /\ w.at = work[i].at /\ w.stage = "poll"
  BY WorkIs, PollIs
<1>4. w.at \in 1 .. Len(log) + 1
  BY <1>3, WorkIs
<1>5. \A n \in 1 .. w.at - 1 : log[n] \in processed \cup dead'
  BY <1>1, <1>3, WorkIs
<1>. HIDE DEF w
<1>. QED
  BY <1>1, <1>2, <1>3, <1>4, <1>5, WorkPreserves

LEMMA GiveUpPreserves == ASSUME IInv, NEW i \in Instances, GiveUp(i) PROVE IInv'
<1>. DEFINE w == Poll(work[i].at)
<1>1. /\ UNCHANGED <<log, owner, committed, row, order, processed, applied, announced, moves>>
      /\ work[i].stage # "poll" /\ work' = [work EXCEPT ![i] = w]
      /\ dead' = dead \cup {Current(i)}
  BY DEF GiveUp, NextRecord
<1>2. UNCHANGED historyVars /\ dead \subseteq dead' /\ dead' \subseteq Events
  BY <1>1, CurrentIs DEF historyVars, IInv, TypeOK
<1>3. w \in Work /\ w.at = work[i].at + 1 /\ w.stage = "poll"
  BY WorkIs, PollIs
<1>4. w.at \in 1 .. Len(log) + 1
  BY <1>1, <1>3, WorkIs
<1>5. \A n \in 1 .. w.at - 1 : log[n] \in processed \cup dead'
  BY <1>1, <1>3, WorkIs DEF Current
<1>. HIDE DEF w
<1>. QED
  BY <1>1, <1>2, <1>3, <1>4, <1>5, WorkPreserves

LEMMA CommitOffsetPreserves == ASSUME IInv, NEW i \in Instances, CommitOffset(i) PROVE IInv'
<1>1. /\ committed' = work[i].at - 1 /\ work[i].at \in 1 .. Len(log) + 1 /\ committed' \in 0 .. Len(log)
      /\ UNCHANGED <<log, owner, work, row, order, processed, dead, applied, announced, moves>>
  BY DEF CommitOffset, IInv, TypeOK, Places
<1>2. TypeOK'
  BY <1>1 DEF IInv, TypeOK
<1>3. Places' /\ PassedIsDone' /\ SeenBelow'
  BY <1>1 DEF IInv, Places, PassedIsDone, SeenBelow
<1>4. NothingSkipped'
  BY <1>1 DEF IInv, PassedIsDone, NothingSkipped
<1>. QED
  BY <1>1, <1>2, <1>3, <1>4, HistoryStays DEF IInv, historyVars

LEMMA MovePreserves == ASSUME IInv, NEW j \in Instances, Move(j) PROVE IInv'
<1>1. /\ owner' = j /\ moves' = moves + 1 /\ moves < MaxMoves /\ committed \in 0 .. Len(log)
      /\ UNCHANGED <<log, committed, row, order, processed, dead, applied, announced>>
  BY DEF Move, IInv, TypeOK
<1>2. /\ Poll(committed) \in Work /\ Poll(committed).at = committed + 1
      /\ Poll(committed).stage = "poll"
  BY <1>1, PollIs
<1>3. /\ work' \in [Instances -> Work]
      /\ \A i \in Instances : work'[i] \in {work[i], Poll(committed)}
  BY <1>2 DEF Move, IInv, TypeOK
<1>4. TypeOK'
  BY <1>1, <1>3, TelemetryAssumption DEF IInv, TypeOK
<1>5. Places'
  BY <1>1, <1>2, <1>3 DEF IInv, Places
<1>6. PassedIsDone' /\ NothingSkipped'
  BY <1>1, <1>2, <1>3 DEF IInv, PassedIsDone, NothingSkipped
<1>7. SeenBelow'
  BY <1>1, <1>2, <1>3 DEF IInv, SeenBelow
<1>. QED
  BY <1>1, <1>4, <1>5, <1>6, <1>7, HistoryStays DEF IInv, historyVars
-----------------------------------------------------------------------------
(* What a transaction that commits does, by whether its event applies.     *)
LEMMA WriteFacts ==
    ASSUME IInv, NEW i \in Instances, Write(i)
    PROVE  LET e == Current(i)
               seen == work[i].seen
           IN  /\ work[i].stage = "write" /\ e \in Events /\ seen \in Row /\ row \in Row
               /\ work[i].at \in 1 .. Len(log)
               /\ EventOf[e].valid
               /\ processed' = processed \cup {e}
               /\ work' = [work EXCEPT ![i] = Poll(work[i].at)]
               /\ UNCHANGED <<log, owner, committed, dead, moves>>
               /\ seen.last <= row.last /\ seen.progress <= row.progress
               /\ seen.progress = Full \/ seen.last >= EventOf[e].at => UNCHANGED historyVars
               /\ ~(seen.progress = Full \/ seen.last >= EventOf[e].at) =>
                    /\ seen = row /\ row.progress # Full /\ order = "DISPATCHED" /\ announced = 0
                    /\ EventOf[e].progress >= row.progress
                    /\ row' = [progress |-> EventOf[e].progress, last |-> EventOf[e].at,
                               version |-> row.version + 1]
                    /\ applied' = Append(applied, e)
                    /\ IF EventOf[e].progress = Full
                       THEN order' = "FULFILLED" /\ announced' = 1
                       ELSE order' = "DISPATCHED" /\ announced' = 0
<1>. DEFINE e == Current(i)
            seen == work[i].seen
<1>1. /\ work[i].stage = "write" /\ ~Rejected(e, seen)
      /\ processed' = processed \cup {e}
      /\ work' = [work EXCEPT ![i] = Poll(work[i].at)]
      /\ UNCHANGED <<log, owner, committed, dead, moves>>
  BY DEF Write, NextRecord
<1>2. e \in Events /\ work[i].at \in 1 .. Len(log)
  BY <1>1, CurrentIs
<1>3. /\ work[i] \in Work /\ seen \in Row /\ row \in Row /\ order \in Statuses
  BY DEF IInv, TypeOK, Work
<1>4. /\ seen.last <= row.last /\ seen.progress <= row.progress
      /\ seen.version = row.version => seen = row
      /\ seen.progress = Full <=> work[i].seenOrder = "FULFILLED"
  BY <1>1 DEF IInv, SeenBelow
<1>5. EventOf[e].valid /\ (~Stale(e, seen) => ~Backward(e, seen))
  BY <1>1 DEF Rejected
<1>6. CASE Stale(e, seen)
  <2>1. UNCHANGED historyVars
    BY <1>6 DEF Write, historyVars
  <2>. QED
    BY <1>1, <1>2, <1>3, <1>4, <1>5, <1>6, <2>1 DEF Stale
<1>7. CASE ~Stale(e, seen)
  <2>1. /\ seen.version = row.version
        /\ row' = [progress |-> EventOf[e].progress, last |-> EventOf[e].at,
                   version |-> seen.version + 1]
        /\ applied' = Append(applied, e)
        /\ IF EventOf[e].progress = Full /\ work[i].seenOrder # "FULFILLED"
           THEN order' = "FULFILLED" /\ announced' = announced + 1
           ELSE UNCHANGED <<order, announced>>
    BY <1>7 DEF Write
  <2>2. seen = row /\ row.progress # Full /\ work[i].seenOrder # "FULFILLED"
    BY <1>4, <1>7, <2>1 DEF Stale
  <2>3. order = "DISPATCHED" /\ announced = 0
    BY <1>3, <2>2 DEF IInv, FulfilledWithDelivery, Statuses
  <2>4. EventOf[e].progress >= row.progress
    BY <1>2, <1>3, <1>5, <1>7, <2>2, EventsAre, TelemetryAssumption DEF Backward, Row
  <2>. QED
    BY <1>1, <1>2, <1>3, <1>4, <1>5, <1>7, <2>1, <2>2, <2>3, <2>4 DEF Stale
<1>. QED
  BY <1>6, <1>7

LEMMA StaleWritePreserves ==
    ASSUME IInv, NEW i \in Instances, Write(i),
           work[i].seen.progress = Full \/ work[i].seen.last >= EventOf[Current(i)].at
    PROVE  IInv'
<1>. DEFINE e == Current(i)
            w == Poll(work[i].at)
<1>1. /\ e \in Events /\ row \in Row /\ work[i].seen \in Row
      /\ work[i].at \in 1 .. Len(log)
      /\ processed' = processed \cup {e} /\ work' = [work EXCEPT ![i] = w]
      /\ UNCHANGED <<log, owner, committed, dead, moves>> /\ UNCHANGED historyVars
      /\ work[i].seen.last <= row.last /\ work[i].seen.progress <= row.progress
  BY WriteFacts
<1>2. w \in Work /\ w.at = work[i].at + 1 /\ w.stage = "poll"
  <2>1. work[i].at \in Nat
    BY DEF IInv, TypeOK, Work
  <2>. QED
    BY <2>1, PollIs
<1>3. \A j \in Instances : work'[j] = IF j = i THEN w ELSE work[j]
  BY <1>1 DEF IInv, TypeOK
<1>. HIDE DEF w
<1>4. TypeOK'
  BY <1>1, <1>2 DEF IInv, TypeOK, historyVars
<1>5. Places'
  BY <1>1, <1>2, <1>3 DEF IInv, Places
<1>6. PassedIsDone' /\ NothingSkipped'
  BY <1>1, <1>2, <1>3 DEF IInv, PassedIsDone, NothingSkipped, Current
<1>7. SeenBelow'
  BY <1>1, <1>2, <1>3 DEF IInv, SeenBelow, historyVars
<1>8. FulfilledWithDelivery' /\ AppliedInOrder' /\ LastApplied'
  BY <1>1 DEF IInv, historyVars, FulfilledWithDelivery, AppliedInOrder, LastApplied
<1>9. NewestApplied'
  <2>1. row.progress = Full \/ row.last >= EventOf[e].at
    <3>1. PICK v : v = work[i].seen
      OBVIOUS
    <3>2. /\ v \in Row /\ row \in Row /\ v.last <= row.last /\ v.progress <= row.progress
          /\ v.progress = Full \/ v.last >= EventOf[e].at
      BY <1>1, <3>1
    <3>3. /\ v.last \in Nat /\ row.last \in Nat /\ EventOf[e].at \in Nat
          /\ v.progress \in 0 .. Full /\ row.progress \in 0 .. Full /\ Full \in Nat
      BY <1>1, <3>2, EventsAre, TelemetryAssumption DEF Row
    <3>. QED
      BY <3>2, <3>3
  <2>. QED
    BY <1>1, <2>1 DEF IInv, NewestApplied, historyVars
<1>. QED
  BY <1>4, <1>5, <1>6, <1>7, <1>8, <1>9 DEF IInv

LEMMA FreshWritePreserves ==
    ASSUME IInv, NEW i \in Instances, Write(i),
           ~(work[i].seen.progress = Full \/ work[i].seen.last >= EventOf[Current(i)].at)
    PROVE  IInv'
<1>. DEFINE e == Current(i)
            w == Poll(work[i].at)
<1>1. /\ e \in Events /\ row \in Row /\ EventOf[e].valid
      /\ work[i].at \in 1 .. Len(log)
      /\ processed' = processed \cup {e} /\ work' = [work EXCEPT ![i] = w]
      /\ UNCHANGED <<log, owner, committed, dead, moves>>
      /\ row.progress # Full /\ row.last < EventOf[e].at
      /\ EventOf[e].progress >= row.progress
      /\ row' = [progress |-> EventOf[e].progress, last |-> EventOf[e].at,
                 version |-> row.version + 1]
      /\ applied' = Append(applied, e)
      /\ IF EventOf[e].progress = Full
         THEN order' = "FULFILLED" /\ announced' = 1
         ELSE order' = "DISPATCHED" /\ announced' = 0
  <2>1. \A m, n \in Nat : ~(m >= n) => m < n
    OBVIOUS
  <2>2. Current(i) \in Events /\ row \in Row /\ work[i].seen = row
    BY WriteFacts
  <2>3. row.last \in Nat /\ EventOf[e].at \in Nat
    BY <2>2, EventsAre DEF Row
  <2>. QED
    BY <2>1, <2>2, <2>3, WriteFacts
<1>2. w \in Work /\ w.at = work[i].at + 1 /\ w.stage = "poll"
  <2>1. work[i].at \in Nat
    BY DEF IInv, TypeOK, Work
  <2>. QED
    BY <2>1, PollIs
<1>3. \A j \in Instances : work'[j] = IF j = i THEN w ELSE work[j]
  BY <1>1 DEF IInv, TypeOK
<1>. HIDE DEF w
<1>4. EventOf[e].at \in Nat /\ EventOf[e].at # 0 /\ EventOf[e].progress \in 0 .. Full
  BY <1>1, EventsAre
<1>5. row' \in Row
  BY <1>1, <1>4 DEF Row
<1>6. TypeOK'
  BY <1>1, <1>2, <1>5 DEF IInv, TypeOK, Statuses
<1>7. Places'
  BY <1>1, <1>2, <1>3 DEF IInv, Places
<1>8. PassedIsDone' /\ NothingSkipped'
  <2>1. ASSUME NEW j \in Instances, NEW n \in 1 .. work'[j].at - 1
        PROVE  log[n] \in processed' \cup dead
    <3>1. CASE j = i
      <4>1. work'[j].at = work[i].at + 1 /\ work[i].at \in Nat
        BY <1>2, <1>3, <3>1, WorkIs
      <4>2. n = work[i].at \/ n \in 1 .. work[i].at - 1
        BY <2>1, <4>1
      <4>3. log[work[i].at] = e
        BY DEF Current
      <4>4. \A k \in 1 .. work[i].at - 1 : log[k] \in processed \cup dead
        BY WorkIs
      <4>. QED
        BY <1>1, <4>2, <4>3, <4>4
    <3>2. CASE j # i
      BY <1>1, <1>3, <3>2, WorkIs
    <3>. QED
      BY <3>1, <3>2
  <2>. QED
    BY <1>1, <2>1 DEF IInv, PassedIsDone, NothingSkipped
<1>9. SeenBelow'
  <2>1. /\ row'.version = row.version + 1 /\ row'.last = EventOf[e].at
        /\ row'.progress = EventOf[e].progress
    BY <1>1
  <2>2. ASSUME NEW j \in Instances, work'[j].stage = "write"
        PROVE  /\ work'[j].seen.version <= row'.version
               /\ work'[j].seen.version = row'.version => work'[j].seen = row'
               /\ work'[j].seen.last <= row'.last
               /\ work'[j].seen.progress <= row'.progress
               /\ work'[j].seen.progress = Full <=> work'[j].seenOrder = "FULFILLED"
    <3>1. work'[j] = work[j] /\ work[j].stage = "write"
      BY <1>2, <1>3, <2>2
    <3>2. work[j].seen \in Row
      BY DEF IInv, TypeOK, Work
    <3>3. /\ work[j].seen.version <= row.version
          /\ work[j].seen.last <= row.last /\ work[j].seen.progress <= row.progress
          /\ work[j].seen.progress = Full <=> work[j].seenOrder = "FULFILLED"
      BY <3>1 DEF IInv, SeenBelow
    <3>4. /\ work[j].seen.version \in Nat /\ row.version \in Nat
          /\ work[j].seen.last \in Nat /\ row.last \in Nat
          /\ work[j].seen.progress \in Nat /\ row.progress \in Nat
          /\ EventOf[e].progress \in Nat
      BY <1>1, <1>4, <3>2 DEF Row
    <3>5. work[j].seen.version <= row.version + 1 /\ work[j].seen.version # row.version + 1
      BY <3>3, <3>4
    <3>6. /\ work[j].seen.last <= EventOf[e].at
          /\ work[j].seen.progress <= EventOf[e].progress
      BY <1>1, <1>4, <3>3, <3>4, SMTT(30)
    <3>. QED
      BY <2>1, <3>1, <3>3, <3>5, <3>6
  <2>. QED
    BY <2>2 DEF SeenBelow
<1>10. FulfilledWithDelivery'
  BY <1>1 DEF FulfilledWithDelivery
<1>11. /\ Len(applied') = Len(applied) + 1 /\ applied' \in Seq(Events) /\ applied \in Seq(Events)
       /\ applied'[Len(applied')] = e
       /\ \A n \in 1 .. Len(applied) : applied'[n] = applied[n]
  BY <1>1 DEF IInv, TypeOK
<1>12. AppliedInOrder'
  <2>1. ASSUME NEW m \in DOMAIN applied', NEW n \in DOMAIN applied', m < n
        PROVE  /\ EventOf[applied'[m]].at < EventOf[applied'[n]].at
               /\ EventOf[applied'[m]].progress <= EventOf[applied'[n]].progress
    <3>1. m \in 1 .. Len(applied) + 1 /\ n \in 1 .. Len(applied) + 1 /\ Len(applied) \in Nat
      BY <1>11
    <3>2. CASE n # Len(applied) + 1
      BY <1>11, <2>1, <3>1, <3>2 DEF IInv, AppliedInOrder
    <3>3. CASE n = Len(applied) + 1
      <4>. DEFINE last == applied[Len(applied)]
      <4>1. m \in 1 .. Len(applied) /\ Len(applied) \in DOMAIN applied /\ applied # <<>>
        BY <1>11, <2>1, <3>1, <3>3
      <4>2. applied'[n] = e /\ applied'[m] = applied[m] /\ applied[m] \in Events /\ last \in Events
        BY <1>11, <3>3, <4>1
      <4>3. row.last = EventOf[last].at /\ row.progress = EventOf[last].progress
        BY <4>1 DEF IInv, AppliedInOrder, LastApplied
      <4>4. /\ EventOf[applied[m]].at <= EventOf[last].at
            /\ EventOf[applied[m]].progress <= EventOf[last].progress
        <5>1. CASE m = Len(applied)
          BY <4>2, <5>1, EventsAre, TelemetryAssumption
        <5>2. CASE m # Len(applied)
          <6>1. m < Len(applied) /\ m \in DOMAIN applied
            BY <1>11, <3>1, <4>1, <5>2
          <6>2. /\ EventOf[applied[m]].at < EventOf[last].at
                /\ EventOf[applied[m]].progress <= EventOf[last].progress
            BY <4>1, <6>1 DEF IInv, AppliedInOrder
          <6>. QED
            BY <4>2, <6>2, EventsAre
        <5>. QED
          BY <5>1, <5>2
      <4>. QED
        BY <1>1, <1>4, <4>2, <4>3, <4>4, EventsAre, TelemetryAssumption, SMTT(30)
    <3>. QED
      BY <3>2, <3>3
  <2>2. row'.version = Len(applied') /\ row'.last = EventOf[applied'[Len(applied')]].at
    BY <1>1, <1>11 DEF IInv, AppliedInOrder
  <2>. QED
    BY <2>1, <2>2 DEF AppliedInOrder
<1>13. LastApplied'
  <2>1. applied' # <<>> /\ row'.progress = EventOf[applied'[Len(applied')]].progress
    BY <1>1, <1>11
  <2>2. \A n \in DOMAIN applied' : EventOf[applied'[n]].valid
    BY <1>1, <1>11 DEF IInv, LastApplied
  <2>. QED
    BY <2>1, <2>2 DEF LastApplied
<1>14. NewestApplied'
  <2>1. ASSUME NEW f \in processed PROVE row'.last >= EventOf[f].at
    <3>1. row.last >= EventOf[f].at /\ f \in Events
      BY <1>1 DEF IInv, TypeOK, NewestApplied
    <3>. QED
      BY <1>1, <1>4, <3>1, EventsAre DEF Row
  <2>2. row'.last >= EventOf[e].at
    BY <1>1, <1>4
  <2>. QED
    BY <1>1, <2>1, <2>2 DEF NewestApplied
<1>. QED
  BY <1>6, <1>7, <1>8, <1>9, <1>10, <1>12, <1>13, <1>14 DEF IInv
-----------------------------------------------------------------------------
LEMMA InitIInv == Init => IInv
<1>. SUFFICES ASSUME Init PROVE IInv
  OBVIOUS
<1>1. /\ log = <<>> /\ applied = <<>> /\ row = Created /\ committed = 0 /\ processed = {}
      /\ work = [i \in Instances |-> Poll(0)] /\ order = "DISPATCHED" /\ announced = 0
  BY DEF Init
<1>2. Poll(0) \in Work /\ Poll(0).at = 1 /\ Poll(0).stage = "poll"
  BY PollIs
<1>3. TypeOK
  BY <1>1, <1>2, TelemetryAssumption DEF Init, TypeOK, Row, Created, Statuses
<1>4. Places /\ PassedIsDone /\ NothingSkipped /\ SeenBelow
  BY <1>1, <1>2 DEF Places, PassedIsDone, NothingSkipped, SeenBelow
<1>5. FulfilledWithDelivery /\ AppliedInOrder /\ LastApplied /\ NewestApplied
  BY <1>1, TelemetryAssumption
  DEF FulfilledWithDelivery, AppliedInOrder, LastApplied, NewestApplied, Created
<1>. QED
  BY <1>3, <1>4, <1>5 DEF IInv

LEMMA NextIInv == IInv /\ [Next]_vars => IInv'
<1>. SUFFICES ASSUME IInv, [Next]_vars PROVE IInv'
  OBVIOUS
<1>1. ASSUME NEW e \in Events, Append1(e) PROVE IInv'
  BY <1>1, AppendPreserves
<1>2. ASSUME NEW i \in Instances,
             \/ Check(i) \/ Load(i) \/ Write(i)
             \/ RetryLater(i) \/ GiveUp(i)
             \/ CommitOffset(i) \/ Move(i)
      PROVE  IInv'
  BY <1>2, CheckPreserves, LoadPreserves, StaleWritePreserves, FreshWritePreserves,
     RetryPreserves, GiveUpPreserves, CommitOffsetPreserves, MovePreserves
<1>3. CASE UNCHANGED vars
  <2>1. UNCHANGED historyVars /\ UNCHANGED <<log, owner, committed, work, processed, dead, moves>>
    BY <1>3 DEF vars, historyVars
  <2>2. TypeOK' /\ Places' /\ PassedIsDone' /\ NothingSkipped' /\ SeenBelow'
    BY <2>1 DEF IInv, historyVars, TypeOK, Places, PassedIsDone, NothingSkipped, SeenBelow
  <2>. QED
    BY <2>1, <2>2, HistoryStays DEF IInv
<1>. QED
  BY <1>1, <1>2, <1>3 DEF Next

LEMMA IInvHolds == Spec => []IInv
  BY InitIInv, NextIInv, PTL DEF Spec

(* A completion that is processed without effect is late, so the delivery  *)
(* is delivered, if the clock does not run behind completions.             *)
LEMMA CompletionStep ==
    ASSUME CompletionIsLast, IInv, CompletionStays, [Next]_vars
    PROVE  CompletionStays'
<1>1. ASSUME NEW i \in Instances, Write(i) PROVE CompletionStays'
  <2>. DEFINE e == Current(i)
              seen == work[i].seen
  <2>1. /\ e \in Events /\ row \in Row /\ seen \in Row /\ EventOf[e].valid
        /\ processed' = processed \cup {e}
        /\ seen.last <= row.last /\ seen.progress <= row.progress
    BY <1>1, WriteFacts
  <2>2. CASE seen.progress = Full \/ seen.last >= EventOf[e].at
    <3>1. row' = row
      BY <1>1, <2>2, WriteFacts DEF historyVars
    <3>2. ASSUME EventOf[e].progress = Full PROVE row.progress = Full
      <4>1. CASE seen.progress = Full
        BY <2>1, <4>1, TelemetryAssumption DEF Row
      <4>2. CASE seen.last >= EventOf[e].at
        <5>. DEFINE f == applied[Len(applied)]
        <5>1. row.last >= EventOf[e].at /\ row.last # 0
          BY <2>1, <4>2, EventsAre DEF Row
        <5>2. applied # <<>> /\ applied \in Seq(Events)
          BY <5>1 DEF IInv, LastApplied, TypeOK
        <5>3. f \in Events /\ Len(applied) \in DOMAIN applied
          BY <5>2
        <5>4. EventOf[f].valid /\ row.last = EventOf[f].at /\ row.progress = EventOf[f].progress
          BY <5>2, <5>3 DEF IInv, LastApplied, AppliedInOrder
        <5>5. EventOf[e].at <= EventOf[f].at
          BY <2>1, <5>1, <5>3, <5>4, EventsAre
        <5>. QED
          BY <2>1, <3>2, <5>3, <5>4, <5>5 DEF CompletionIsLast
      <4>. QED
        BY <2>2, <4>1, <4>2
    <3>. QED
      BY <2>1, <3>1, <3>2 DEF CompletionStays
  <2>3. CASE ~(seen.progress = Full \/ seen.last >= EventOf[e].at)
    <3>1. row.progress # Full /\ row'.progress = EventOf[e].progress
      BY <1>1, <2>3, WriteFacts
    <3>. QED
      BY <2>1, <3>1 DEF CompletionStays
  <2>. QED
    BY <2>2, <2>3
<1>2. CASE UNCHANGED <<row, processed>>
  BY <1>2 DEF CompletionStays
<1>. QED
  BY <1>1, <1>2
  DEF Next, Append1, Check, Load, RetryLater, GiveUp, CommitOffset, Move, vars

(* The variables have their types: in particular the row is never made of  *)
(* an event that does not exist, and the offset stays within the log.      *)
THEOREM TypeCorrect == Spec => []TypeOK
<1>1. IInv => TypeOK
  BY DEF IInv
<1>. QED
  BY <1>1, IInvHolds, PTL

(* Whatever instances start at which offset and however often records are  *)
(* repeated, a committed offset has passed over nothing.                   *)
THEOREM OffsetsSkipNothing == Spec => []NothingSkipped
<1>1. IInv => NothingSkipped
  BY DEF IInv
<1>. QED
  BY <1>1, IInvHolds, PTL

(* The linked order is fulfilled with the delivery and announced once, for *)
(* any number of completions, instances and rebalances.                    *)
THEOREM FulfilledOnce == Spec => []FulfilledWithDelivery
<1>1. IInv => FulfilledWithDelivery
  BY DEF IInv
<1>. QED
  BY <1>1, IInvHolds, PTL

(* The events that take effect are in the order of their times and never   *)
(* take progress back, whatever clock the events were made with.           *)
THEOREM EventsApplyInOrder == Spec => []AppliedInOrder
<1>1. IInv => AppliedInOrder
  BY DEF IInv
<1>. QED
  BY <1>1, IInvHolds, PTL

(* The delivery only moves forward, and a completion that was processed    *)
(* left it delivered, as long as no other event has the completion's time  *)
(* or a later one: this is what the consumer needs of the simulator.       *)
THEOREM DeliveryOnlyForward == ASSUME CompletionIsLast PROVE Spec => []OnlyForward
<1>1. Init => CompletionStays
  BY DEF Init, CompletionStays
<1>2. IInv /\ CompletionStays /\ [Next]_vars => CompletionStays'
  BY CompletionStep
<1>3. Spec => []CompletionStays
  BY <1>1, <1>2, IInvHolds, PTL DEF Spec
<1>4. IInv /\ CompletionStays => OnlyForward
  BY DEF IInv, CompletionStays, NewestApplied, OnlyForward, RowIsNewest
<1>. QED
  BY <1>3, <1>4, IInvHolds, PTL

-----------------------------------------------------------------------------
(* An alert has a status from its event on, and a key only with a name.    *)
RowsFormed ==
    \A a \in Alerts :
        /\ alert[a].status = "NONE" => alert[a] = NoAlert
        /\ alert[a].by = None => alert[a].key = None

OneActive == \A a, b \in Active : a = b

(* What a telemetry transaction has read is the row as it is now, except   *)
(* for an acknowledgement and its key, which may have come since.          *)
StillTrue(r) ==
    /\ r.of = None => Active = {}
    /\ r.of # None =>
          /\ r.of \in Active
          /\ r.seen.status = "ACTIVE" /\ r.seen.severity = alert[r.of].severity
          /\ r.seen.by = None => r.seen.key = None
          /\ r.seen.by # None => r.seen.by = alert[r.of].by
                                 /\ r.seen.key \in {None, alert[r.of].key}

(* It is so as long as the version is the one the transaction read: only   *)
(* then does it commit.                                                    *)
ReadIsTrue ==
    \A t \in Consumers : reading[t] # NoReading =>
        /\ reading[t].version <= version /\ reading[t].version < MaxReadings
        /\ reading[t].version = version => StillTrue(reading[t])

(* An acknowledgement under way is of an alert that was opened; whoever    *)
(* has locked the row has it alone, active and unacknowledged.             *)
LocksHold ==
    /\ \A c \in Clients : request[c].stage # "idle" =>
          /\ request[c].alert \in Alerts /\ request[c].by \in Operators
          /\ alert[request[c].alert].status # "NONE"
    /\ \A c \in Clients : request[c].stage = "locked" =>
          alert[request[c].alert].status = "ACTIVE" /\ alert[request[c].alert].by = None
    /\ \A b, c \in Clients :
          b # c /\ request[b].stage = "locked" /\ request[c].stage = "locked" =>
              request[b].alert # request[c].alert

Count(s, action) == Cardinality({n \in DOMAIN s : s[n] = action})

(* LifeIsAnnounced, of one row and its events.                             *)
Lived(row0, s) ==
    /\ row0.status = "NONE" => s = <<>>
    /\ row0.status # "NONE" =>
          /\ s # <<>> /\ s[1] = "OPENED" /\ Count(s, "OPENED") = 1
          /\ Count(s, "ESCALATED") <= 1
          /\ Count(s, "ESCALATED") = 1 => row0.severity = "CRITICAL"
          /\ Count(s, "RESOLVED") = IF row0.status = "RESOLVED" THEN 1 ELSE 0
          /\ row0.status = "RESOLVED" => s[Len(s)] = "RESOLVED"

AlertInv ==
    /\ AlertTypeOK
    /\ RowsFormed
    /\ OneActive
    /\ ReadIsTrue
    /\ LocksHold
    /\ \A a \in Alerts : Lived(alert[a], alertEvents[a])

-----------------------------------------------------------------------------
LEMMA CountFinite ==
    ASSUME NEW s \in Seq(Actions), NEW x
    PROVE  IsFiniteSet({n \in DOMAIN s : s[n] = x}) /\ Count(s, x) \in Nat
<1>1. IsFiniteSet(DOMAIN s)
  <2>1. DOMAIN s = 1 .. Len(s) /\ Len(s) \in Nat
    OBVIOUS
  <2>. QED
    BY <2>1, FS_Interval
<1>2. IsFiniteSet({n \in DOMAIN s : s[n] = x})
  BY <1>1, FS_Subset
<1>. QED
  BY <1>2, FS_CardinalityType DEF Count

(* Appending an event adds one to the count of its action.                 *)
LEMMA CountAppend ==
    ASSUME NEW s \in Seq(Actions), NEW y \in Actions, NEW x
    PROVE  /\ x = y => Count(Append(s, y), x) = Count(s, x) + 1
           /\ x # y => Count(Append(s, y), x) = Count(s, x)
<1>. DEFINE z == Len(s) + 1
            t == Append(s, y)
            At(u) == {n \in DOMAIN u : u[n] = x}
<1>1. /\ DOMAIN t = (DOMAIN s) \cup {z} /\ z \notin DOMAIN s
      /\ \A i \in DOMAIN s : t[i] = s[i]
      /\ t[z] = y
  OBVIOUS
<1>. HIDE DEF z, t
<1>2. x # y => At(t) = At(s)
  BY <1>1
<1>3. x = y => At(t) = At(s) \cup {z}
  BY <1>1
<1>4. z \notin At(s) /\ IsFiniteSet(At(s))
  BY <1>1, CountFinite
<1>5. Cardinality(At(s) \cup {z}) = Cardinality(At(s)) + 1
  BY <1>4, FS_AddElement
<1>6. /\ x = y => Count(t, x) = Count(s, x) + 1
      /\ x # y => Count(t, x) = Count(s, x)
  BY <1>2, <1>3, <1>5 DEF Count
<1>. QED
  BY <1>6 DEF t

LEMMA AppendedEvent ==
    ASSUME NEW s \in Seq(Actions), NEW y \in Actions
    PROVE  LET t == Append(s, y) IN
           t # <<>> /\ t[Len(t)] = y /\ t[1] = IF s = <<>> THEN y ELSE s[1]
OBVIOUS

LEMMA EmptyCount == ASSUME NEW x PROVE Count(<<>>, x) = 0
<1>1. {n \in DOMAIN <<>> : <<>>[n] = x} = {}
  OBVIOUS
<1>. QED
  BY <1>1, FS_EmptySet DEF Count
-----------------------------------------------------------------------------
(* The steps of one alert *)

Opened(a) ==
    /\ Active = {}
    /\ alert[a].status = "NONE" /\ alert'[a].status = "ACTIVE"
    /\ alertEvents'[a] = Append(alertEvents[a], "OPENED")

Escalated(a) ==
    /\ alert[a].status = "ACTIVE" /\ alert'[a].status = "ACTIVE"
    /\ alert[a].severity = "WARNING" /\ alert'[a].severity = "CRITICAL"
    /\ alertEvents'[a] = Append(alertEvents[a], "ESCALATED")

Resolved(a) ==
    /\ alert[a].status = "ACTIVE" /\ alert'[a].status = "RESOLVED"
    /\ alert'[a].severity = alert[a].severity
    /\ alertEvents'[a] = Append(alertEvents[a], "RESOLVED")

SameLife(a) ==
    /\ alert'[a].status = alert[a].status /\ alert'[a].severity = alert[a].severity
    /\ alertEvents'[a] = alertEvents[a]

Acknowledged(a) ==
    /\ alert[a].status = "ACTIVE" /\ alert'[a].status = "ACTIVE"
    /\ alert'[a].severity = alert[a].severity
    /\ alertEvents'[a] = Append(alertEvents[a], "ACKNOWLEDGED")

RowStep(a) == Opened(a) \/ Escalated(a) \/ Resolved(a) \/ Acknowledged(a) \/ SameLife(a)

(* An operator's name is kept, and its key once it has one.                *)
NameKept(a) ==
    alert[a].by # None =>
        /\ alert'[a].by = alert[a].by
        /\ alert[a].key = None \/ alert'[a].key = alert[a].key

(* A telemetry transaction may also take them away.                        *)
NameLost(a) ==
    alert[a].by # None /\ alert'[a].by # None =>
        /\ alert'[a].by = alert[a].by
        /\ alert[a].key = None \/ alert'[a].key \in {alert[a].key, None}

KeyNamed(a) == alert'[a].by = None => alert'[a].key = None

Untouched(a) == alert'[a] = alert[a] /\ alertEvents'[a] = alertEvents[a]

ClientStep(c) ==
    \/ \E a \in Alerts, op \in Operators, k \in Keys \cup {None} : Receive(c, a, op, k)
    \/ LookUpKey(c) \/ LockAlert(c) \/ Acknowledge(c) \/ RollBack(c)

(* What the commit of a telemetry transaction does to a row: it writes none *)
(* that is locked.                                                         *)
LEMMA ReadingStep ==
    ASSUME AlertInv, NEW t \in Consumers, CommitReading(t), NEW a \in Alerts
    PROVE  /\ Untouched(a) \/ (~RowLocked(a) /\ RowStep(a))
           /\ NameLost(a) /\ KeyNamed(a)
           /\ alert'[a].status = "NONE" => alert'[a] = NoAlert
<1>. DEFINE Goal == /\ Untouched(a) \/ (~RowLocked(a) /\ RowStep(a))
                    /\ NameLost(a) /\ KeyNamed(a)
                    /\ alert'[a].status = "NONE" => alert'[a] = NoAlert
<1>1. PICK r : r = reading[t]
  OBVIOUS
<1>2. r \in Reading /\ StillTrue(r)
  BY <1>1 DEF AlertInv, AlertTypeOK, ReadIsTrue, CommitReading
<1>3. /\ alert \in [Alerts -> AlertRow] /\ alertEvents \in [Alerts -> Seq(Actions)]
      /\ alert[a] \in AlertRow /\ r.seen \in AlertRow
  BY <1>2 DEF AlertInv, AlertTypeOK, Reading
<1>4. /\ alert[a].status = "NONE" => alert[a] = NoAlert
      /\ alert[a].by = None => alert[a].key = None
  BY DEF AlertInv, RowsFormed
<1>5. Open(r) \/ Observe(r) \/ Resolve(r) \/ LeaveAlone(r)
  BY <1>1 DEF CommitReading
<1>6. ASSUME Untouched(a) PROVE Goal
  <2>1. PICK w : w = alert[a]
    OBVIOUS
  <2>2. alert'[a] = w
    BY <1>6, <2>1 DEF Untouched
  <2>3. NameLost(a) /\ KeyNamed(a)
    BY <1>4, <2>1, <2>2 DEF NameLost, KeyNamed
  <2>4. alert'[a].status = "NONE" => alert'[a] = NoAlert
    BY <1>4, <2>1, <2>2
  <2>. QED
    BY <1>6, <2>3, <2>4
<1>7. ASSUME Open(r) PROVE Goal
  <2>1. PICK b \in Alerts :
            /\ alert[b] = NoAlert
            /\ alert' = [alert EXCEPT ![b] = [NoAlert EXCEPT !.status = "ACTIVE",
                  !.severity = IF r.measure = "critical" THEN "CRITICAL" ELSE "WARNING"]]
            /\ alertEvents' = [alertEvents EXCEPT ![b] = Append(@, "OPENED")]
    BY <1>7 DEF Open, Emit
  <2>2. Active = {}
    BY <1>7 DEF Open
  <2>3. CASE a = b
    <3>1. alert'[a].status = "ACTIVE" /\ alert'[a].by = None /\ alert'[a].key = None
      BY <1>3, <2>1, <2>3 DEF NoAlert
    <3>2. alertEvents'[a] = Append(alertEvents[a], "OPENED")
      BY <1>3, <2>1, <2>3
    <3>3. alert[a].status = "NONE" /\ alert[a].by = None
      BY <2>1, <2>3 DEF NoAlert
    <3>4. ~RowLocked(a)
      BY <3>3 DEF RowLocked, AlertInv, LocksHold
    <3>. QED
      BY <2>2, <3>1, <3>2, <3>3, <3>4 DEF RowStep, Opened, NameLost, KeyNamed
  <2>4. CASE a # b
    BY <1>3, <1>6, <2>1, <2>4 DEF Untouched
  <2>. QED
    BY <2>3, <2>4
<1>8. ASSUME Observe(r) \/ Resolve(r) PROVE Goal
  <2>0. PICK b : b = r.of
    OBVIOUS
  <2>1. /\ b \in Active /\ b \in Alerts /\ r.seen.status = "ACTIVE" /\ ~RowLocked(b)
        /\ alert[b].status = "ACTIVE" /\ r.seen.severity = alert[b].severity
    BY <1>2, <1>8, <2>0 DEF StillTrue, Observe, Resolve, Active
  <2>2. /\ r.seen.by = None => r.seen.key = None
        /\ r.seen.by # None => r.seen.by = alert[b].by /\ r.seen.key \in {None, alert[b].key}
    BY <1>2, <1>8, <2>0 DEF StillTrue, Observe, Resolve
  <2>3. PICK w : w = r.seen
    OBVIOUS
  <2>4. \/ /\ alert' = [alert EXCEPT ![b] = [w EXCEPT !.severity = "CRITICAL"]]
           /\ w.severity = "WARNING"
           /\ alertEvents' = [alertEvents EXCEPT ![b] = Append(@, "ESCALATED")]
        \/ alert' = [alert EXCEPT ![b] = w] /\ alertEvents' = alertEvents
        \/ /\ alert' = [alert EXCEPT ![b] = [w EXCEPT !.status = "RESOLVED"]]
           /\ alertEvents' = [alertEvents EXCEPT ![b] = Append(@, "RESOLVED")]
    BY <1>8, <2>0, <2>3 DEF Observe, Resolve, Emit
  <2>5. w \in AlertRow
    BY <1>3, <2>3
  <2>6. CASE a = b
    <3>0. PICK x : x = alert'[a]
      OBVIOUS
    <3>1. \/ /\ x = [w EXCEPT !.severity = "CRITICAL"] /\ w.severity = "WARNING"
             /\ alertEvents'[a] = Append(alertEvents[a], "ESCALATED")
          \/ x = w /\ alertEvents'[a] = alertEvents[a]
          \/ /\ x = [w EXCEPT !.status = "RESOLVED"]
             /\ alertEvents'[a] = Append(alertEvents[a], "RESOLVED")
      BY <1>3, <2>4, <2>6, <3>0
    <3>2. /\ x.by = w.by /\ x.key = w.key
          /\ \/ /\ x.status = w.status /\ x.severity = "CRITICAL" /\ w.severity = "WARNING"
                /\ alertEvents'[a] = Append(alertEvents[a], "ESCALATED")
             \/ /\ x.status = w.status /\ x.severity = w.severity
                /\ alertEvents'[a] = alertEvents[a]
             \/ /\ x.status = "RESOLVED" /\ x.severity = w.severity
                /\ alertEvents'[a] = Append(alertEvents[a], "RESOLVED")
      BY <2>5, <3>1 DEF AlertRow
    <3>4. Escalated(a) \/ SameLife(a) \/ Resolved(a)
      BY <2>1, <2>3, <2>6, <3>0, <3>2 DEF Escalated, SameLife, Resolved
    <3>5. x.status # "NONE"
      BY <2>1, <2>3, <3>2
    <3>3. NameLost(a) /\ KeyNamed(a)
      BY <2>2, <2>3, <2>6, <3>0, <3>2 DEF NameLost, KeyNamed
    <3>. QED
      BY <2>1, <2>6, <3>0, <3>3, <3>4, <3>5 DEF RowStep
  <2>7. CASE a # b
    BY <1>3, <1>6, <2>1, <2>4, <2>7 DEF Untouched
  <2>. QED
    BY <2>6, <2>7
<1>9. ASSUME LeaveAlone(r) PROVE Goal
  BY <1>6, <1>9 DEF LeaveAlone, Untouched
<1>. QED
  BY <1>5, <1>7, <1>8, <1>9

(* What an operator's transaction does to a row.                           *)
LEMMA ClientRow ==
    ASSUME AlertInv, NEW c \in Clients, ClientStep(c), NEW a \in Alerts
    PROVE  /\ Acknowledged(a) \/ SameLife(a)
           /\ NameKept(a) /\ KeyNamed(a)
           /\ Untouched(a) \/ alert[a].status # "NONE"
           /\ Untouched(a) \/ ~\E b \in Clients \ {c} : request[b].stage = "locked"
                                                        /\ request[b].alert = a
<1>. DEFINE Goal == /\ Acknowledged(a) \/ SameLife(a)
                    /\ NameKept(a) /\ KeyNamed(a)
                    /\ Untouched(a) \/ alert[a].status # "NONE"
                    /\ Untouched(a) \/ ~\E b \in Clients \ {c} : request[b].stage = "locked"
                                                        /\ request[b].alert = a
<1>1. /\ alert \in [Alerts -> AlertRow] /\ alertEvents \in [Alerts -> Seq(Actions)]
      /\ alert[a] \in AlertRow /\ request[c] \in Request
  BY DEF AlertInv, AlertTypeOK
<1>2. alert[a].by = None => alert[a].key = None
  BY DEF AlertInv, RowsFormed
<1>3. ASSUME Untouched(a) PROVE Goal
  BY <1>2, <1>3 DEF Untouched, SameLife, NameKept, KeyNamed
<1>4. ASSUME LockAlert(c) PROVE Goal
  <2>0. PICK q : q = request[c]
    OBVIOUS
  <2>1. q.alert \in Alerts /\ q.by \in Operators /\ ~RowLocked(q.alert) /\ q.by # None
    BY <1>4, <2>0, DeliveryAlertsAssumption DEF LockAlert, AlertInv, LocksHold
  <2>9. alert[q.alert].status # "NONE"
    BY <1>4, <2>0 DEF LockAlert, AlertInv, LocksHold
  <2>2. /\ alertEvents' = alertEvents
        /\ \/ alert' = alert
           \/ /\ alert[q.alert].by = q.by /\ alert[q.alert].key = None
              /\ alert' = [alert EXCEPT ![q.alert].key = q.key]
    BY <1>4, <2>0 DEF LockAlert
  <2>3. CASE a = q.alert /\ alert' # alert
    <3>1. /\ alert'[a].by = alert[a].by /\ alert'[a].status = alert[a].status
          /\ alert'[a].severity = alert[a].severity
      BY <1>1, <2>2, <2>3 DEF AlertRow
    <3>. QED
      BY <2>1, <2>2, <2>3, <2>9, <3>1 DEF SameLife, NameKept, KeyNamed, RowLocked
  <2>4. CASE a # q.alert \/ alert' = alert
    BY <1>1, <1>3, <2>1, <2>2, <2>4 DEF Untouched
  <2>. QED
    BY <2>3, <2>4
<1>5. ASSUME Acknowledge(c) PROVE Goal
  <2>0. PICK q : q = request[c]
    OBVIOUS
  <2>1. /\ q.stage = "locked" /\ q.alert \in Alerts /\ q.by \in Operators /\ q.by # None
        /\ alert[q.alert].status = "ACTIVE" /\ alert[q.alert].by = None
        /\ \A b \in Clients : b # c /\ request[b].stage = "locked" => request[b].alert # q.alert
    BY <1>5, <2>0, DeliveryAlertsAssumption DEF Acknowledge, AlertInv, LocksHold
  <2>2. /\ alert' = [alert EXCEPT ![q.alert] = [@ EXCEPT !.by = q.by, !.key = q.key]]
        /\ alertEvents' = [alertEvents EXCEPT ![q.alert] = Append(@, "ACKNOWLEDGED")]
    BY <1>5, <2>0 DEF Acknowledge, Emit
  <2>3. CASE a = q.alert
    <3>1. /\ alert'[a].by = q.by /\ alert'[a].status = alert[a].status
          /\ alert'[a].severity = alert[a].severity
      BY <1>1, <2>2, <2>3 DEF AlertRow
    <3>2. alertEvents'[a] = Append(alertEvents[a], "ACKNOWLEDGED")
      BY <1>1, <2>2, <2>3
    <3>. QED
      BY <2>1, <2>3, <3>1, <3>2 DEF Acknowledged, NameKept, KeyNamed
  <2>4. CASE a # q.alert
    BY <1>1, <1>3, <2>1, <2>2, <2>4 DEF Untouched
  <2>. QED
    BY <2>3, <2>4
<1>6. ASSUME UNCHANGED <<alert, alertEvents>> PROVE Goal
  BY <1>3, <1>6 DEF Untouched
<1>. QED
  BY <1>4, <1>5, <1>6 DEF ClientStep, Receive, LookUpKey, RollBack

(* What any step does to a row and its events.                             *)
LEMMA RowSteps ==
    ASSUME AlertInv, [AlertNext]_alertVars, NEW a \in Alerts
    PROVE  RowStep(a) /\ NameLost(a) /\ KeyNamed(a)
           /\ (alert'[a].status = "NONE" => alert'[a] = NoAlert)
<1>. DEFINE Goal == RowStep(a) /\ NameLost(a) /\ KeyNamed(a)
                    /\ (alert'[a].status = "NONE" => alert'[a] = NoAlert)
<1>0. /\ alert[a].status = "NONE" => alert[a] = NoAlert
      /\ alert[a].by = None => alert[a].key = None
  BY DEF AlertInv, RowsFormed
<1>1. ASSUME Untouched(a) PROVE Goal
  <2>1. PICK w : w = alert[a]
    OBVIOUS
  <2>2. alert'[a] = w
    BY <1>1, <2>1 DEF Untouched
  <2>3. NameLost(a) /\ KeyNamed(a)
    BY <1>0, <2>1, <2>2 DEF NameLost, KeyNamed
  <2>4. RowStep(a)
    BY <1>1, <2>1, <2>2 DEF RowStep, SameLife, Untouched
  <2>. QED
    BY <1>0, <2>1, <2>2, <2>3, <2>4
<1>2. ASSUME NEW t \in Consumers, CommitReading(t) PROVE Goal
  BY <1>1, <1>2, ReadingStep
<1>3. ASSUME NEW c \in Clients, ClientStep(c) PROVE Goal
  <2>1. /\ Acknowledged(a) \/ SameLife(a)
        /\ NameKept(a) /\ KeyNamed(a)
        /\ Untouched(a) \/ alert[a].status # "NONE"
    BY <1>3, ClientRow
  <2>2. RowStep(a) /\ NameLost(a)
    BY <2>1 DEF RowStep, NameKept, NameLost
  <2>3. alert'[a].status = "NONE" => alert'[a] = NoAlert
    <3>1. CASE Untouched(a)
      BY <1>1, <3>1
    <3>2. CASE ~Untouched(a)
      BY <2>1, <3>2 DEF Acknowledged, SameLife
    <3>. QED
      BY <3>1, <3>2
  <2>. QED
    BY <2>1, <2>2, <2>3
<1>4. ASSUME UNCHANGED <<alert, alertEvents>> PROVE Goal
  BY <1>1, <1>4 DEF Untouched
<1>. QED
  BY <1>2, <1>3, <1>4 DEF AlertNext, ClientStep, Evaluate, AbandonReading, alertVars

LEMMA InitAlertInv == AlertInit => AlertInv
<1>. SUFFICES ASSUME AlertInit PROVE AlertInv
  OBVIOUS
<1>1. AlertTypeOK
  BY DeliveryAlertsAssumption
     DEF AlertInit, AlertTypeOK, NoAlert, AlertRow, NoReading, Reading, Idle, Request
<1>2. \A a \in Alerts : alert[a] = NoAlert /\ alert[a].status = "NONE" /\ alertEvents[a] = <<>>
  BY DEF AlertInit, NoAlert
<1>3. RowsFormed /\ OneActive
  BY <1>2 DEF RowsFormed, OneActive, Active, NoAlert
<1>4. ReadIsTrue
  BY DEF AlertInit, ReadIsTrue
<1>5. LocksHold
  BY DEF AlertInit, LocksHold, Idle
<1>6. \A a \in Alerts : Lived(alert[a], alertEvents[a])
  BY <1>2 DEF Lived
<1>. QED
  BY <1>1, <1>3, <1>4, <1>5, <1>6 DEF AlertInv

LEMMA TypedStays == ASSUME AlertInv, [AlertNext]_alertVars PROVE AlertTypeOK'
<1>0. AlertTypeOK
  BY DEF AlertInv
<1>1. ASSUME NEW t \in Consumers, NEW m \in Measures, Evaluate(t, m)
      PROVE  AlertTypeOK'
  <2>1. PICK r : /\ r \in Reading
                 /\ reading' = [reading EXCEPT ![t] = r]
    <3>1. CASE Active = {}
      <4>1. [measure |-> m, of |-> None, seen |-> NoAlert, version |-> version] \in Reading
        BY <1>0 DEF AlertTypeOK, Reading, NoAlert, AlertRow
      <4>. QED
        BY <1>1, <3>1, <4>1 DEF Evaluate
    <3>2. CASE Active # {}
      <4>1. PICK a : a = CHOOSE x \in Active : TRUE
        OBVIOUS
      <4>2. a \in Alerts
        BY <3>2, <4>1 DEF Active
      <4>3. [measure |-> m, of |-> a, seen |-> alert[a], version |-> version] \in Reading
        BY <1>0, <4>2 DEF AlertTypeOK, Reading
      <4>. QED
        BY <1>1, <3>2, <4>1, <4>3 DEF Evaluate
    <3>. QED
      BY <3>1, <3>2
  <2>. QED
    BY <1>0, <1>1, <2>1 DEF AlertTypeOK, Evaluate
<1>2. ASSUME NEW t \in Consumers, CommitReading(t)
      PROVE  AlertTypeOK'
  <2>1. PICK r : r = reading[t]
    OBVIOUS
  <2>2. r \in Reading /\ r.seen \in AlertRow
    BY <1>0, <2>1 DEF AlertTypeOK, Reading
  <2>3. version < MaxReadings /\ version' = version + 1 /\ request' = request
    BY <1>2 DEF AlertInv, ReadIsTrue, CommitReading
  <2>4. version' \in 0 .. MaxReadings
    BY <1>0, <2>3, DeliveryAlertsAssumption DEF AlertTypeOK
  <2>5. NoReading \in Reading
    BY DEF NoReading, Reading, NoAlert, AlertRow
  <2>6. reading' \in [Consumers -> Reading]
    BY <1>0, <1>2, <2>5 DEF AlertTypeOK, CommitReading
  <2>7. alert' \in [Alerts -> AlertRow] /\ alertEvents' \in [Alerts -> Seq(Actions)]
    <3>0. /\ alert \in [Alerts -> AlertRow]
          /\ alertEvents \in [Alerts -> Seq(Actions)]
      BY <1>0 DEF AlertTypeOK
    <3>1. Open(r) \/ Observe(r) \/ Resolve(r) \/ LeaveAlone(r)
      BY <1>2, <2>1 DEF CommitReading
    <3>2. CASE Open(r)
      <4>1. PICK b \in Alerts :
               /\ alert' = [alert EXCEPT ![b] = [NoAlert EXCEPT !.status = "ACTIVE",
                     !.severity = IF r.measure = "critical" THEN "CRITICAL" ELSE "WARNING"]]
               /\ alertEvents' = [alertEvents EXCEPT ![b] = Append(@, "OPENED")]
        BY <3>2 DEF Open, Emit
      <4>2. [NoAlert EXCEPT !.status = "ACTIVE",
               !.severity = IF r.measure = "critical" THEN "CRITICAL" ELSE "WARNING"] \in AlertRow
        BY DEF NoAlert, AlertRow
      <4>3. Append(alertEvents[b], "OPENED") \in Seq(Actions)
        BY <3>0 DEF Actions
      <4>. QED
        BY <3>0, <4>1, <4>2, <4>3
    <3>3. CASE Observe(r) \/ Resolve(r)
      <4>1. PICK b : b = r.of
        OBVIOUS
      <4>2. b \in Alerts
        BY <2>2, <3>3, <4>1 DEF Observe, Resolve, Reading
      <4>3. PICK w : w = r.seen
        OBVIOUS
      <4>4. /\ w \in AlertRow /\ [w EXCEPT !.severity = "CRITICAL"] \in AlertRow
            /\ [w EXCEPT !.status = "RESOLVED"] \in AlertRow
        BY <2>2, <4>3 DEF AlertRow
      <4>5. /\ Append(alertEvents[b], "ESCALATED") \in Seq(Actions)
            /\ Append(alertEvents[b], "RESOLVED") \in Seq(Actions)
        BY <3>0, <4>2 DEF Actions
      <4>6. \/ /\ alert' = [alert EXCEPT ![b] = [w EXCEPT !.severity = "CRITICAL"]]
               /\ alertEvents' = [alertEvents EXCEPT ![b] = Append(@, "ESCALATED")]
            \/ alert' = [alert EXCEPT ![b] = w] /\ alertEvents' = alertEvents
            \/ /\ alert' = [alert EXCEPT ![b] = [w EXCEPT !.status = "RESOLVED"]]
               /\ alertEvents' = [alertEvents EXCEPT ![b] = Append(@, "RESOLVED")]
        BY <3>3, <4>1, <4>3 DEF Observe, Resolve, Emit
      <4>. QED
        BY <3>0, <4>2, <4>4, <4>5, <4>6
    <3>4. CASE LeaveAlone(r)
      BY <3>0, <3>4 DEF LeaveAlone
    <3>. QED
      BY <3>1, <3>2, <3>3, <3>4
  <2>. QED
    BY <1>0, <2>3, <2>4, <2>6, <2>7 DEF AlertTypeOK
<1>3. ASSUME NEW t \in Consumers, AbandonReading(t)
      PROVE  AlertTypeOK'
  <2>1. NoReading \in Reading
    BY DEF NoReading, Reading, NoAlert, AlertRow
  <2>. QED
    BY <1>0, <1>3, <2>1 DEF AlertTypeOK, AbandonReading
<1>4. ASSUME NEW c \in Clients, ClientStep(c)
      PROVE  AlertTypeOK'
  <2>0. /\ alert \in [Alerts -> AlertRow] /\ alertEvents \in [Alerts -> Seq(Actions)]
        /\ request \in [Clients -> Request] /\ request[c] \in Request
    BY <1>0 DEF AlertTypeOK
  <2>1. UNCHANGED <<version, reading>>
    BY <1>4 DEF ClientStep, Receive, LookUpKey, LockAlert, Acknowledge, RollBack
  <2>2. Idle \in Request
    BY DEF Idle, Request
  <2>3. \A stage \in {"keyed", "locked"} : [request[c] EXCEPT !.stage = stage] \in Request
    BY <2>0 DEF Request
  <2>4. \A a \in Alerts, op \in Operators, k \in Keys \cup {None} :
            [stage |-> "received", alert |-> a, by |-> op, key |-> k] \in Request
    BY DEF Request
  <2>5. request' \in [Clients -> Request]
    <3>1. CASE \E a \in Alerts, op \in Operators, k \in Keys \cup {None} : Receive(c, a, op, k)
      BY <2>0, <2>4, <3>1 DEF Receive
    <3>2. CASE Finish(c)
      BY <2>0, <2>2, <3>2 DEF Finish
    <3>3. CASE Advance(c, "keyed") \/ Advance(c, "locked")
      BY <2>0, <2>3, <3>3 DEF Advance
    <3>. QED
      BY <1>4, <3>1, <3>2, <3>3 DEF ClientStep, LookUpKey, LockAlert, Acknowledge, RollBack
  <2>6. PICK q : q = request[c]
    OBVIOUS
  <2>7. CASE UNCHANGED <<alert, alertEvents>>
    BY <1>0, <2>1, <2>5, <2>7 DEF AlertTypeOK
  <2>8. CASE LockAlert(c) /\ alert' # alert
    <3>1. /\ q.alert \in Alerts /\ q.key \in Keys \cup {None}
          /\ alert' = [alert EXCEPT ![q.alert].key = q.key] /\ alertEvents' = alertEvents
      BY <2>0, <2>6, <2>8 DEF LockAlert, AlertInv, LocksHold, Request
    <3>2. [alert[q.alert] EXCEPT !.key = q.key] \in AlertRow
      <4>1. \A x \in AlertRow, k \in Keys \cup {None} : [x EXCEPT !.key = k] \in AlertRow
        BY DEF AlertRow
      <4>. QED
        BY <2>0, <3>1, <4>1
    <3>. QED
      BY <1>0, <2>0, <2>1, <2>5, <3>1, <3>2 DEF AlertTypeOK
  <2>9. CASE Acknowledge(c)
    <3>1. /\ q.alert \in Alerts /\ q.key \in Keys \cup {None} /\ q.by \in Operators
          /\ alert' = [alert EXCEPT ![q.alert] = [@ EXCEPT !.by = q.by, !.key = q.key]]
          /\ alertEvents' = [alertEvents EXCEPT ![q.alert] = Append(@, "ACKNOWLEDGED")]
      BY <2>0, <2>6, <2>9 DEF Acknowledge, Emit, AlertInv, LocksHold, Request
    <3>2. [alert[q.alert] EXCEPT !.by = q.by, !.key = q.key] \in AlertRow
      <4>1. \A x \in AlertRow, k \in Keys \cup {None}, o \in Operators :
                [x EXCEPT !.by = o, !.key = k] \in AlertRow
        BY DEF AlertRow
      <4>. QED
        BY <2>0, <3>1, <4>1
    <3>3. Append(alertEvents[q.alert], "ACKNOWLEDGED") \in Seq(Actions)
      BY <2>0, <3>1 DEF Actions
    <3>. QED
      BY <1>0, <2>0, <2>1, <2>5, <3>1, <3>2, <3>3 DEF AlertTypeOK
  <2>. QED
    BY <1>4, <2>7, <2>8, <2>9 DEF ClientStep, Receive, LookUpKey, LockAlert, RollBack
<1>5. CASE UNCHANGED alertVars
  BY <1>0, <1>5 DEF AlertTypeOK, alertVars
<1>. QED
  BY <1>1, <1>2, <1>3, <1>4, <1>5 DEF AlertNext, ClientStep

LEMMA OneStaysActive == ASSUME AlertInv, [AlertNext]_alertVars PROVE OneActive'
<1>1. CASE Active = {}
  <2>1. ASSUME NEW a \in Alerts, NEW b \in Alerts, a # b,
               alert'[a].status = "ACTIVE", alert'[b].status = "ACTIVE"
        PROVE  FALSE
    <3>1. alert[a].status # "ACTIVE" /\ alert[b].status # "ACTIVE"
      BY <1>1 DEF Active
    <3>2. alert[a].status = "NONE" /\ alert[b].status = "NONE"
      BY <2>1, <3>1, RowSteps DEF RowStep, Opened, Escalated, Resolved, Acknowledged, SameLife
    <3>3. alert[a] = NoAlert /\ alert[b] = NoAlert
      BY <3>2 DEF AlertInv, RowsFormed
    <3>4. PICK t \in Consumers : CommitReading(t)
      <4>1. ASSUME NEW c \in Clients, ClientStep(c) PROVE FALSE
        BY <2>1, <3>1, <4>1, ClientRow DEF Acknowledged, SameLife
      <4>. QED
        BY <2>1, <3>1, <4>1 DEF AlertNext, ClientStep, Evaluate, AbandonReading, alertVars
    <3>5. PICK r : r = reading[t]
      OBVIOUS
    <3>6. StillTrue(r) /\ (Open(r) \/ Observe(r) \/ Resolve(r) \/ LeaveAlone(r))
      BY <3>4, <3>5 DEF CommitReading, AlertInv, ReadIsTrue
    <3>7. ~Observe(r) /\ ~Resolve(r)
      BY <1>1, <3>6 DEF StillTrue, Observe, Resolve
    <3>8. ~LeaveAlone(r)
      BY <2>1, <3>1 DEF LeaveAlone
    <3>9. PICK e \in Alerts : \E x : alert' = [alert EXCEPT ![e] = x]
      BY <3>6, <3>7, <3>8 DEF Open
    <3>10. alert'[a] = alert[a] \/ alert'[b] = alert[b]
      BY <2>1, <3>9 DEF AlertInv, AlertTypeOK
    <3>. QED
      BY <2>1, <3>1, <3>10
  <2>. QED
    BY <2>1 DEF OneActive, Active
<1>2. CASE Active # {}
  <2>1. \A a \in Alerts : alert'[a].status = "ACTIVE" => alert[a].status = "ACTIVE"
    BY <1>2, RowSteps DEF RowStep, Opened, Escalated, Resolved, Acknowledged, SameLife
  <2>. QED
    BY <2>1 DEF AlertInv, OneActive, Active
<1>. QED
  BY <1>1, <1>2

LEMMA LivesOn ==
    ASSUME AlertInv, [AlertNext]_alertVars, NEW a \in Alerts
    PROVE  Lived(alert'[a], alertEvents'[a])
<1>1. PICK s, w, x : s = alertEvents[a] /\ w = alert[a] /\ x = alert'[a]
  OBVIOUS
<1>2. s \in Seq(Actions) /\ Lived(w, s)
  BY <1>1 DEF AlertInv, AlertTypeOK
<1>3. /\ Count(s, "OPENED") \in Nat /\ Count(s, "ESCALATED") \in Nat /\ Count(s, "RESOLVED") \in Nat
  BY <1>2, CountFinite
<1>4. RowStep(a)
  BY RowSteps
<1>5. CASE SameLife(a)
  BY <1>1, <1>2, <1>5 DEF SameLife, Lived
<1>6. ASSUME NEW y \in {"OPENED", "ESCALATED", "RESOLVED", "ACKNOWLEDGED"},
             NEW z, z = Append(s, y)
      PROVE  /\ z # <<>> /\ z[Len(z)] = y /\ z[1] = IF s = <<>> THEN y ELSE s[1]
             /\ Count(z, y) = Count(s, y) + 1
             /\ \A v : v # y => Count(z, v) = Count(s, v)
  <2>1. y \in Actions
    BY DEF Actions
  <2>2. z # <<>> /\ z[Len(z)] = y /\ z[1] = IF s = <<>> THEN y ELSE s[1]
    BY <1>2, <1>6, <2>1, AppendedEvent
  <2>3. /\ Count(z, y) = Count(s, y) + 1
        /\ \A v : v # y => Count(z, v) = Count(s, v)
    BY <1>2, <1>6, <2>1, CountAppend
  <2>. QED
    BY <2>2, <2>3
<1>7. PICK z : z = alertEvents'[a]
  OBVIOUS
<1>8. CASE Opened(a)
  <2>1. z = Append(s, "OPENED") /\ w.status = "NONE" /\ x.status = "ACTIVE"
    BY <1>1, <1>7, <1>8 DEF Opened
  <2>2. /\ s = <<>> /\ Count(s, "OPENED") = 0 /\ Count(s, "ESCALATED") = 0
        /\ Count(s, "RESOLVED") = 0
    BY <1>2, <2>1, EmptyCount DEF Lived
  <2>3. /\ z # <<>> /\ z[1] = "OPENED" /\ Count(z, "OPENED") = 1
        /\ Count(z, "ESCALATED") = 0 /\ Count(z, "RESOLVED") = 0
    BY <1>6, <2>1, <2>2
  <2>4. Lived(x, z)
    BY <2>1, <2>3 DEF Lived
  <2>. QED
    BY <1>1, <1>7, <2>4
<1>9. CASE Escalated(a)
  <2>1. /\ z = Append(s, "ESCALATED") /\ w.status = "ACTIVE" /\ x.status = "ACTIVE"
        /\ w.severity = "WARNING" /\ x.severity = "CRITICAL"
    BY <1>1, <1>7, <1>9 DEF Escalated
  <2>2. /\ s # <<>> /\ s[1] = "OPENED" /\ Count(s, "OPENED") = 1
        /\ Count(s, "ESCALATED") = 0 /\ Count(s, "RESOLVED") = 0
    BY <1>2, <1>3, <2>1 DEF Lived
  <2>5. /\ z # <<>> /\ z[Len(z)] = "ESCALATED" /\ z[1] = IF s = <<>> THEN "ESCALATED" ELSE s[1]
    BY <1>6, <2>1
  <2>6. Count(z, "OPENED") = Count(s, "OPENED")
    BY <1>6, <2>1
  <2>7. Count(z, "ESCALATED") = Count(s, "ESCALATED") + 1
    BY <1>6, <2>1
  <2>8. Count(z, "RESOLVED") = Count(s, "RESOLVED")
    BY <1>6, <2>1
  <2>3. /\ z # <<>> /\ z[1] = "OPENED" /\ Count(z, "OPENED") = 1
        /\ Count(z, "ESCALATED") = 1 /\ Count(z, "RESOLVED") = 0
    BY <1>3, <2>2, <2>5, <2>6, <2>7, <2>8
  <2>4. Lived(x, z)
    BY <2>1, <2>3 DEF Lived
  <2>. QED
    BY <1>1, <1>7, <2>4
<1>10. CASE Resolved(a)
  <2>1. /\ z = Append(s, "RESOLVED") /\ w.status = "ACTIVE" /\ x.status = "RESOLVED"
        /\ x.severity = w.severity
    BY <1>1, <1>7, <1>10 DEF Resolved
  <2>2. /\ s # <<>> /\ s[1] = "OPENED" /\ Count(s, "OPENED") = 1
        /\ Count(s, "ESCALATED") <= 1 /\ Count(s, "RESOLVED") = 0
        /\ Count(s, "ESCALATED") = 1 => w.severity = "CRITICAL"
    BY <1>2, <2>1 DEF Lived
  <2>5. /\ z # <<>> /\ z[Len(z)] = "RESOLVED" /\ z[1] = IF s = <<>> THEN "RESOLVED" ELSE s[1]
    BY <1>6, <2>1
  <2>6. Count(z, "OPENED") = Count(s, "OPENED")
    BY <1>6, <2>1
  <2>7. Count(z, "ESCALATED") = Count(s, "ESCALATED")
    BY <1>6, <2>1
  <2>8. Count(z, "RESOLVED") = Count(s, "RESOLVED") + 1
    BY <1>6, <2>1
  <2>3. /\ z # <<>> /\ z[1] = "OPENED" /\ Count(z, "OPENED") = 1
        /\ Count(z, "ESCALATED") = Count(s, "ESCALATED") /\ Count(z, "RESOLVED") = 1
        /\ z[Len(z)] = "RESOLVED"
    BY <1>3, <2>2, <2>5, <2>6, <2>7, <2>8
  <2>4. Lived(x, z)
    BY <2>1, <2>2, <2>3 DEF Lived
  <2>. QED
    BY <1>1, <1>7, <2>4
<1>11. CASE Acknowledged(a)
  <2>1. /\ z = Append(s, "ACKNOWLEDGED") /\ w.status = "ACTIVE" /\ x.status = "ACTIVE"
        /\ x.severity = w.severity
    BY <1>1, <1>7, <1>11 DEF Acknowledged
  <2>2. /\ s # <<>> /\ s[1] = "OPENED" /\ Count(s, "OPENED") = 1
        /\ Count(s, "ESCALATED") <= 1 /\ Count(s, "RESOLVED") = 0
        /\ Count(s, "ESCALATED") = 1 => w.severity = "CRITICAL"
    BY <1>2, <2>1 DEF Lived
  <2>5. /\ z # <<>> /\ z[Len(z)] = "ACKNOWLEDGED" /\ z[1] = IF s = <<>> THEN "ACKNOWLEDGED" ELSE s[1]
    BY <1>6, <2>1
  <2>6. Count(z, "OPENED") = Count(s, "OPENED")
    BY <1>6, <2>1
  <2>7. Count(z, "ESCALATED") = Count(s, "ESCALATED")
    BY <1>6, <2>1
  <2>8. Count(z, "RESOLVED") = Count(s, "RESOLVED")
    BY <1>6, <2>1
  <2>3. /\ z # <<>> /\ z[1] = "OPENED" /\ Count(z, "OPENED") = 1
        /\ Count(z, "ESCALATED") = Count(s, "ESCALATED") /\ Count(z, "RESOLVED") = 0
    BY <1>3, <2>2, <2>5, <2>6, <2>7, <2>8
  <2>4. Lived(x, z)
    BY <2>1, <2>2, <2>3 DEF Lived
  <2>. QED
    BY <1>1, <1>7, <2>4
<1>. QED
  BY <1>4, <1>5, <1>8, <1>9, <1>10, <1>11 DEF RowStep

LEMMA ReadStaysTrue == ASSUME AlertInv, [AlertNext]_alertVars PROVE ReadIsTrue'
<1>0. /\ version \in Nat /\ ReadIsTrue /\ RowsFormed /\ OneActive
      /\ reading \in [Consumers -> Reading]
  BY DeliveryAlertsAssumption DEF AlertInv, AlertTypeOK
<1>1. ASSUME NEW t \in Consumers, NEW m \in Measures, Evaluate(t, m), NEW u \in Consumers,
             reading'[u] # NoReading
      PROVE  /\ reading'[u].version <= version /\ reading'[u].version < MaxReadings
             /\ reading'[u].version = version => StillTrue(reading'[u])
  <2>1. CASE u # t
    <3>1. reading'[u] = reading[u]
      BY <1>0, <1>1, <2>1 DEF Evaluate
    <3>2. PICK r : r = reading[u]
      OBVIOUS
    <3>. QED
      BY <1>0, <1>1, <3>1, <3>2 DEF ReadIsTrue
  <2>2. CASE u = t
    <3>1. version < MaxReadings
      BY <1>1 DEF Evaluate
    <3>2. CASE Active = {}
      <4>1. PICK r : r = [measure |-> m, of |-> None, seen |-> NoAlert, version |-> version]
        OBVIOUS
      <4>2. reading'[u] = r
        BY <1>0, <1>1, <2>2, <3>2, <4>1 DEF Evaluate
      <4>3. r.of = None /\ r.version = version
        BY <4>1
      <4>. QED
        BY <1>0, <3>1, <3>2, <4>2, <4>3 DEF StillTrue
    <3>3. CASE Active # {}
      <4>0. PICK a : a = CHOOSE x \in Active : TRUE
        OBVIOUS
      <4>1. PICK r : r = [measure |-> m, of |-> a, seen |-> alert[a], version |-> version]
        OBVIOUS
      <4>2. reading'[u] = r
        BY <1>0, <1>1, <2>2, <3>3, <4>0, <4>1 DEF Evaluate
      <4>3. r.of = a /\ r.seen = alert[a] /\ r.version = version /\ a \in Active
        BY <3>3, <4>0, <4>1
      <4>4. r.seen.status = "ACTIVE" /\ (r.seen.by = None => r.seen.key = None)
        BY <1>0, <4>3 DEF Active, RowsFormed
      <4>5. StillTrue(r)
        BY <4>3, <4>4, DeliveryAlertsAssumption DEF StillTrue, Active
      <4>. QED
        BY <1>0, <3>1, <4>2, <4>3, <4>5
    <3>. QED
      BY <3>2, <3>3
  <2>. QED
    BY <2>1, <2>2
<1>2. ASSUME NEW t \in Consumers, CommitReading(t)
      PROVE  ReadIsTrue'
  <2>1. version' = version + 1 /\ reading' = [reading EXCEPT ![t] = NoReading]
    BY <1>2 DEF CommitReading
  <2>2. ASSUME NEW u \in Consumers, reading'[u] # NoReading
        PROVE  /\ reading'[u].version <= version /\ reading'[u].version < MaxReadings
               /\ reading'[u].version \in Nat
    <3>1. reading'[u] = reading[u]
      BY <1>0, <2>1, <2>2
    <3>2. PICK r : r = reading[u]
      OBVIOUS
    <3>3. r \in Reading
      BY <1>0, <3>2
    <3>4. r.version \in Nat
      BY <3>3 DEF Reading
    <3>. QED
      BY <1>0, <2>2, <3>1, <3>2, <3>4 DEF ReadIsTrue
  <2>3. ASSUME NEW u \in Consumers, reading'[u] # NoReading
        PROVE  /\ reading'[u].version <= version' /\ reading'[u].version < MaxReadings
               /\ reading'[u].version # version'
    <3>1. PICK n : n = reading'[u].version
      OBVIOUS
    <3>. QED
      BY <1>0, <2>1, <2>2, <2>3, <3>1
  <2>. QED
    BY <2>3 DEF ReadIsTrue
<1>3. ASSUME NEW t \in Consumers, AbandonReading(t)
      PROVE  ReadIsTrue'
  BY <1>0, <1>3 DEF AbandonReading, ReadIsTrue, StillTrue, Active
<1>4. ASSUME NEW c \in Clients, ClientStep(c)
      PROVE  ReadIsTrue'
  <2>1. UNCHANGED <<version, reading>>
    BY <1>4 DEF ClientStep, Receive, LookUpKey, LockAlert, Acknowledge, RollBack
  <2>2. \A a \in Alerts : /\ alert'[a].status = alert[a].status
                          /\ alert'[a].severity = alert[a].severity
                          /\ NameKept(a)
    BY <1>4, ClientRow DEF Acknowledged, SameLife
  <2>3. Active' = Active
    BY <2>2 DEF Active
  <2>4. ASSUME NEW r, StillTrue(r) PROVE StillTrue(r)'
    BY <2>2, <2>3, <2>4 DEF StillTrue, NameKept, Active
  <2>5. ASSUME NEW t \in Consumers, reading'[t] # NoReading
        PROVE  /\ reading'[t].version <= version' /\ reading'[t].version < MaxReadings
               /\ reading'[t].version = version' => StillTrue(reading[t])'
    <3>1. PICK r : r = reading[t] /\ r' = r
      OBVIOUS
    <3>. QED
      BY <1>0, <2>1, <2>4, <2>5, <3>1 DEF ReadIsTrue
  <2>. QED
    BY <2>1, <2>5 DEF ReadIsTrue
<1>5. CASE UNCHANGED alertVars
  BY <1>0, <1>5 DEF alertVars, ReadIsTrue, StillTrue, Active
<1>6. ASSUME NEW t \in Consumers, NEW m \in Measures, Evaluate(t, m)
      PROVE  ReadIsTrue'
  <2>1. UNCHANGED <<alert, version>>
    BY <1>6 DEF Evaluate
  <2>. QED
    BY <1>1, <1>6, <2>1 DEF ReadIsTrue, StillTrue, Active
<1>. QED
  BY <1>2, <1>3, <1>4, <1>5, <1>6 DEF AlertNext, ClientStep

LEMMA LocksStay == ASSUME AlertInv, [AlertNext]_alertVars PROVE LocksHold'
<1>0. LocksHold /\ request \in [Clients -> Request] /\ RowsFormed
  BY DEF AlertInv, AlertTypeOK
<1>1. \A a \in Alerts : alert[a].status # "NONE" => alert'[a].status # "NONE"
  BY RowSteps DEF RowStep, Opened, Escalated, Resolved, Acknowledged, SameLife
<1>2. ASSUME UNCHANGED request,
             \A c \in Clients : request[c].stage = "locked" => alert'[request[c].alert] = alert[request[c].alert]
      PROVE  LocksHold'
  BY <1>0, <1>1, <1>2 DEF LocksHold
<1>3. ASSUME NEW t \in Consumers, CommitReading(t)
      PROVE  LocksHold'
  <2>1. ASSUME NEW c \in Clients, request[c].stage = "locked"
        PROVE  alert'[request[c].alert] = alert[request[c].alert]
    <3>1. PICK a \in Alerts : a = request[c].alert
      BY <1>0, <2>1 DEF LocksHold
    <3>2. RowLocked(a)
      BY <2>1, <3>1 DEF RowLocked
    <3>. QED
      BY <1>3, <3>1, <3>2, ReadingStep DEF Untouched
  <2>. QED
    BY <1>2, <1>3, <2>1 DEF CommitReading
<1>4. ASSUME NEW c \in Clients, ClientStep(c)
      PROVE  LocksHold'
  <2>1. \A b \in Clients \ {c} : request'[b] = request[b]
    BY <1>0, <1>4 DEF ClientStep, Receive, LookUpKey, LockAlert, Acknowledge, RollBack, Finish, Advance
  <2>2. ASSUME NEW b \in Clients \ {c}, request[b].stage = "locked"
        PROVE  alert'[request[b].alert] = alert[request[b].alert]
    <3>1. PICK a \in Alerts : a = request[b].alert
      BY <1>0, <2>2 DEF LocksHold
    <3>. QED
      BY <1>4, <2>2, <3>1, ClientRow DEF Untouched
  <2>. DEFINE Wellformed ==
                request'[c].stage # "idle" =>
                    /\ request'[c].alert \in Alerts /\ request'[c].by \in Operators
                    /\ alert[request'[c].alert].status # "NONE"
              Exclusive ==
                request'[c].stage = "locked" =>
                    /\ alert' = alert /\ ~RowLocked(request'[c].alert)
                    /\ alert[request'[c].alert].status = "ACTIVE"
                    /\ alert[request'[c].alert].by = None
  <2>3. Wellformed /\ Exclusive
    <3>1. ASSUME NEW a \in Alerts, NEW op \in Operators, NEW k \in Keys \cup {None},
                 Receive(c, a, op, k)
          PROVE  Wellformed /\ Exclusive
      <4>1. alert[a].status # "NONE"
        BY <1>0, <3>1 DEF Receive, RowsFormed
      <4>. QED
        BY <1>0, <3>1, <4>1 DEF Receive
    <3>2. CASE Finish(c)
      BY <1>0, <3>2 DEF Finish, Idle
    <3>3. CASE LookUpKey(c) /\ Advance(c, "keyed")
      BY <1>0, <3>3 DEF LookUpKey, Advance, LocksHold, Request
    <3>4. CASE LockAlert(c) /\ Advance(c, "locked")
      <4>1. PICK q : q = request[c]
        OBVIOUS
      <4>2. /\ request'[c].stage = "locked" /\ request'[c].alert = q.alert /\ request'[c].by = q.by
        BY <1>0, <3>4, <4>1 DEF Advance, Request
      <4>3. /\ q.stage = "keyed" /\ q.alert \in Alerts /\ q.by \in Operators
            /\ alert[q.alert].status # "NONE" /\ ~RowLocked(q.alert)
        BY <1>0, <3>4, <4>1 DEF LockAlert, LocksHold
      <4>4. ~Finish(c)
        BY <1>0, <4>2 DEF Finish, Idle
      <4>5. alert' = alert /\ alert[q.alert].by = None /\ alert[q.alert].status = "ACTIVE"
        BY <3>4, <4>1, <4>4 DEF LockAlert
      <4>. QED
        BY <4>2, <4>3, <4>5
    <3>. QED
      BY <1>4, <3>1, <3>2, <3>3, <3>4 DEF ClientStep, LookUpKey, LockAlert, Acknowledge, RollBack
  <2>4. ASSUME NEW b \in Clients, request'[b].stage # "idle"
        PROVE  /\ request'[b].alert \in Alerts /\ request'[b].by \in Operators
               /\ alert'[request'[b].alert].status # "NONE"
    BY <1>0, <1>1, <2>1, <2>3, <2>4 DEF LocksHold
  <2>5. ASSUME NEW b \in Clients, request'[b].stage = "locked"
        PROVE  alert'[request'[b].alert].status = "ACTIVE" /\ alert'[request'[b].alert].by = None
    <3>1. CASE b = c
      BY <2>3, <2>5, <3>1
    <3>2. CASE b # c
      BY <1>0, <2>1, <2>2, <2>5, <3>2 DEF LocksHold
    <3>. QED
      BY <3>1, <3>2
  <2>6. ASSUME NEW b \in Clients, NEW d \in Clients, b # d,
               request'[b].stage = "locked", request'[d].stage = "locked"
        PROVE  request'[b].alert # request'[d].alert
    BY <1>0, <2>1, <2>3, <2>6 DEF LocksHold, RowLocked
  <2>. QED
    BY <2>4, <2>5, <2>6 DEF LocksHold
<1>5. ASSUME UNCHANGED <<alert, request>> PROVE LocksHold'
  BY <1>2, <1>5
<1>. QED
  BY <1>3, <1>4, <1>5 DEF AlertNext, ClientStep, Evaluate, AbandonReading, alertVars

LEMMA NextAlertInv == AlertInv /\ [AlertNext]_alertVars => AlertInv'
<1>. SUFFICES ASSUME AlertInv, [AlertNext]_alertVars PROVE AlertInv'
  OBVIOUS
<1>1. RowsFormed'
  BY RowSteps DEF RowsFormed, KeyNamed
<1>2. (\A a \in Alerts : Lived(alert[a], alertEvents[a]))'
  BY LivesOn
<1>. QED
  BY <1>1, <1>2, TypedStays, OneStaysActive, ReadStaysTrue, LocksStay DEF AlertInv

(* Whatever telemetry and operators do at the same time, a transaction     *)
(* commits only what is still true of the alert's life.                    *)
LEMMA AlertInvariant == AlertSpec => []AlertInv
<1>. QED
  BY InitAlertInv, NextAlertInv, PTL DEF AlertSpec

(* Every variable of the alerts keeps its type.                            *)
THEOREM AlertTypeCorrect == AlertSpec => []AlertTypeOK
<1>1. AlertInv => AlertTypeOK
  BY DEF AlertInv
<1>. QED
  BY <1>1, AlertInvariant, PTL

(* One alert at most is active, and the events of each tell its life:      *)
(* opened once and first, escalated once at most, resolved once and last.  *)
THEOREM LifeAlwaysAnnounced == AlertSpec => []LifeIsAnnounced
<1>1. ASSUME AlertInv PROVE LifeIsAnnounced
  <2>1. Cardinality(Active) <= 1
    <3>1. CASE Active = {}
      BY <3>1, FS_EmptySet
    <3>2. CASE Active # {}
      <4>1. PICK a : Active = {a}
        BY <1>1, <3>2 DEF AlertInv, OneActive
      <4>2. Cardinality({a}) = 1
        BY FS_Singleton
      <4>. QED
        BY <4>1, <4>2
    <3>. QED
      BY <3>1, <3>2
  <2>2. ASSUME NEW a \in Alerts, alert[a] # NoAlert
        PROVE  /\ Times(a, "OPENED") = 1 /\ alertEvents[a][1] = "OPENED"
               /\ Times(a, "ESCALATED") <= 1
               /\ Times(a, "ESCALATED") = 1 => alert[a].severity = "CRITICAL"
               /\ Times(a, "RESOLVED") = IF alert[a].status = "RESOLVED" THEN 1 ELSE 0
               /\ alert[a].status = "RESOLVED" => alertEvents[a][Len(alertEvents[a])] = "RESOLVED"
    <3>1. alert[a].status # "NONE" /\ Lived(alert[a], alertEvents[a])
      BY <1>1, <2>2 DEF AlertInv, RowsFormed
    <3>2. \A x : Times(a, x) = Count(alertEvents[a], x)
      BY DEF Times, Count
    <3>. QED
      BY <3>1, <3>2 DEF Lived
  <2>. QED
    BY <2>1, <2>2 DEF LifeIsAnnounced
<1>. QED
  BY <1>1, AlertInvariant, PTL

(* No step puts one operator's name, or the key it came with, in the place *)
(* of another's.                                                           *)
THEOREM NamesAreNotReplaced == AlertSpec => NeverReplaced
<1>1. ASSUME AlertInv, [AlertNext]_alertVars
      PROVE  [\A a \in Alerts : alert[a].by # None /\ alert'[a].by # None =>
                 /\ alert'[a].by = alert[a].by
                 /\ alert'[a].key \in {alert[a].key, None} \/ alert[a].key = None]_alertVars
  BY <1>1, RowSteps DEF NameLost
<1>. QED
  BY <1>1, AlertInvariant, PTL DEF AlertSpec, NeverReplaced
=============================================================================

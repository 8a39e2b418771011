------------------------ MODULE SimulatorOffsetsProofs ------------------------
(***************************************************************************)
(* The simulator for any partitions, deliveries, workers and any number of *)
(* failures.  The tracker holds exactly the offsets from the committed to  *)
(* the last registered one (Tracked), each unfinished one of them is in    *)
(* one place of the process (Placed), and what is counted as finished is   *)
(* done for good (Finishes).                                               *)
(***************************************************************************)
EXTENDS SimulatorOffsets, SequenceTheorems, FiniteSetTheorems, WellFoundedInduction, TLAPS

Typed ==
    /\ TypeOK
    /\ log \in [Partitions -> Seq(Deliveries \cup {Poison})]
    /\ committed \in [Partitions -> Nat]
    /\ position \in [Partitions -> Nat]
    /\ pending \in [Partitions -> SUBSET Nat]
    /\ completed \in [Partitions -> SUBSET Nat]
    /\ lastSeen \in [Partitions -> Nat]
    /\ main \in [at : {"drain", "poll", "submit", "quarantine"}, record : Records \cup {NoRecord}]
    /\ backlog \in Seq(Records)
    /\ completions \in Seq([record : Records, ok : BOOLEAN])

(* A process that is down knows nothing; a loop that is not busy with a    *)
(* record has none.                                                        *)
Resting ==
    /\ ~up =>
          /\ \A p \in Partitions : pending[p] = {} /\ completed[p] = {} /\ lastSeen[p] = 0
          /\ main = Idle /\ backlog = <<>> /\ running = {} /\ completions = <<>>
    /\ main.at \in {"submit", "quarantine"} <=> main.record # NoRecord

(* What is fetched next follows what was registered last, or was           *)
(* registered already; before the first record it is what is committed.    *)
Tracked ==
    \A p \in Partitions :
        /\ lastSeen[p] = 0 => pending[p] = {} /\ (up => position[p] = committed[p])
        /\ lastSeen[p] > 0 =>
              /\ pending[p] = committed[p] .. lastSeen[p]
              /\ committed[p] <= lastSeen[p] + 1
              /\ committed[p] \notin completed[p]
              /\ position[p] <= lastSeen[p] + 1

AtMain(r) == main.record = r
AtBacklog(r) == \E i \in DOMAIN backlog : backlog[i] = r
AtWorker(r) == \E t \in running : t.record = r
AtEnd(r) == \E i \in DOMAIN completions : completions[i].record = r

InProcess(r) == AtMain(r) \/ AtBacklog(r) \/ AtWorker(r) \/ AtEnd(r)

Unfinished(r) == r[2] \in pending[r[1]] \ completed[r[1]]

NoneTwice ==
    /\ \A i, j \in DOMAIN backlog : backlog[i] = backlog[j] => i = j
    /\ \A i, j \in DOMAIN completions : completions[i].record = completions[j].record => i = j
    /\ \A t, u \in running : t.record = u.record => t = u

OnePlace(r) ==
    /\ AtMain(r) => ~AtBacklog(r) /\ ~AtWorker(r) /\ ~AtEnd(r)
    /\ AtBacklog(r) => ~AtWorker(r) /\ ~AtEnd(r)
    /\ AtWorker(r) => ~AtEnd(r)
    /\ InProcess(r) <=> Unfinished(r)

(* No two places have the same record, and the places have the unfinished. *)
Placed == NoneTwice /\ \A r \in Records : OnePlace(r)

MainKind ==
    /\ main.at = "submit" => Event(main.record) \in Deliveries
    /\ main.at = "quarantine" => Event(main.record) = Poison

(* What the loop and the workers have in hand is of the kind they expect,  *)
(* and what they have done of it is in the topics.                         *)
Finishes ==
    /\ MainKind
    /\ \A i \in DOMAIN backlog : Event(backlog[i]) \in Deliveries
    /\ \A t \in running :
          /\ Event(t.record) \in Deliveries
          /\ \A s \in 1 .. Steps : s < t.next => s \in telemetry[Event(t.record)]
    /\ \A i \in DOMAIN completions : completions[i].ok => Done(completions[i].record)
    /\ \A p \in Partitions : \A n \in completed[p] : Done(<<p, n>>)
    /\ \A d \in Deliveries : \A s \in 1 .. Steps : s <= progress[d] => s \in telemetry[d]

IInv ==
    /\ Typed
    /\ Resting
    /\ Tracked
    /\ Placed
    /\ Finishes
    /\ TelemetryHasNoGap
    /\ NothingPassedOver

-----------------------------------------------------------------------------
(* Sets of numbers, and sequences *)

(* The order of the natural numbers, as a relation.                        *)
LEMMA NatOrder ==
    \E R : IsWellFoundedOn(R, Nat) /\ \A x, y \in Nat : <<x, y>> \in R <=> x < y
<1>. DEFINE R == {ss \in Nat \X Nat : ss[1] < ss[2]}
<1>1. IsWellFoundedOn(R, Nat)
  BY NatLessThanWellFounded DEF OpToRel
<1>2. \A x, y \in Nat : <<x, y>> \in R <=> x < y
  OBVIOUS
<1>. QED
  BY <1>1, <1>2

LEMMA LeastNatural ==
    ASSUME NEW S \in SUBSET Nat, S # {}
    PROVE  \E x \in S : \A y \in S : x <= y
<1>1. PICK R : IsWellFoundedOn(R, Nat) /\ \A x, y \in Nat : <<x, y>> \in R <=> x < y
  BY NatOrder
<1>2. S \subseteq Nat
  OBVIOUS
<1>3. \E x \in S : \A y \in S : ~ (<<y, x>> \in R)
  <2>1. IsWellFoundedOn(R, Nat)
    BY <1>1
  <2>. QED
    BY <1>2, <2>1, WFMin, Zenon
<1>4. PICK x \in S : \A y \in S : ~ (<<y, x>> \in R)
  BY <1>3
<1>5. ASSUME NEW y \in S
      PROVE  x <= y
  <2>1. ~ (<<y, x>> \in R) /\ x \in Nat /\ y \in Nat
    BY <1>2, <1>4
  <2>2. ~ (y < x)
    BY <1>1, <2>1
  <2>. QED
    BY <2>1, <2>2
<1>. QED
  BY <1>5

(* A set of numbers with a bound has a largest one.                        *)
LEMMA MaxOfBounded ==
    ASSUME NEW S \in SUBSET Nat, S # {}, NEW b \in Nat, \A n \in S : n <= b
    PROVE  Max(S) \in S /\ \A n \in S : n <= Max(S)
<1>. DEFINE T == {b - n : n \in S}
<1>0. S \subseteq Nat /\ \A n \in S : b - n \in Nat
  OBVIOUS
<1>1. T \in SUBSET Nat /\ T # {}
  BY <1>0
<1>2. PICK x \in T : \A y \in T : x <= y
  BY <1>1, LeastNatural
<1>3. PICK m \in S : x = b - m
  BY <1>2
<1>4. ASSUME NEW n \in S
      PROVE  n <= m
  <2>1. b - n \in T
    OBVIOUS
  <2>2. b - m <= b - n /\ m \in Nat /\ n \in Nat
    BY <1>0, <1>2, <1>3, <2>1
  <2>. QED
    BY <2>2
<1>5. \A n \in S : m >= n
  BY <1>4
<1>6. Max(S) \in S /\ \A n \in S : Max(S) >= n
  BY <1>5 DEF Max
<1>. QED
  BY <1>6

LEMMA SeqElements ==
    ASSUME NEW S, NEW s \in Seq(S)
    PROVE  \A i \in DOMAIN s : s[i] \in S
  OBVIOUS

LEMMA TailElements ==
    ASSUME NEW S, NEW s \in Seq(S), s # <<>>
    PROVE  /\ Tail(s) \in Seq(S) /\ 1 \in DOMAIN s /\ Head(s) = s[1] /\ Head(s) \in S
           /\ \A i \in DOMAIN Tail(s) : i # 0 /\ i + 1 \in DOMAIN s /\ Tail(s)[i] = s[i + 1]
           /\ \A j \in DOMAIN s : j # 1 =>
                 j - 1 \in DOMAIN Tail(s) /\ Tail(s)[j - 1] = s[j]
  OBVIOUS

LEMMA AppendElements ==
    ASSUME NEW S, NEW s \in Seq(S), NEW e \in S
    PROVE  /\ Append(s, e) \in Seq(S)
           /\ DOMAIN Append(s, e) = DOMAIN s \cup {Len(s) + 1} /\ Len(s) + 1 \notin DOMAIN s
           /\ Append(s, e)[Len(s) + 1] = e
           /\ \A i \in DOMAIN s : Append(s, e)[i] = s[i]
  OBVIOUS

-----------------------------------------------------------------------------
(* Finishing a record *)

(* The longest prefix of an interval that is done.                         *)
Prefix(c, l, done) == {n \in c .. l : \A m \in c .. l : m <= n => m \in done}

After(passed, c) == IF passed = {} THEN c ELSE Max(passed) + 1

LEMMA LongestPrefix ==
    ASSUME NEW c \in Nat, NEW l \in Nat, NEW done, done \subseteq c .. l, done # {}
    PROVE  /\ After(Prefix(c, l, done), c) \in Nat /\ c <= After(Prefix(c, l, done), c)
           /\ After(Prefix(c, l, done), c) <= l + 1
           /\ Prefix(c, l, done) = c .. (After(Prefix(c, l, done), c) - 1)
           /\ After(Prefix(c, l, done), c) \notin done
           /\ Prefix(c, l, done) \subseteq done
<1>. DEFINE passed == Prefix(c, l, done)
            after == After(passed, c)
<1>1. /\ passed \subseteq c .. l
      /\ \A n \in c .. l : n \in passed <=> \A m \in c .. l : m <= n => m \in done
  BY DEF Prefix
<1>. SUFFICES /\ after \in Nat /\ c <= after /\ after <= l + 1
              /\ passed = c .. (after - 1) /\ after \notin done /\ passed \subseteq done
  OBVIOUS
<1>. HIDE DEF passed
<1>2. \A n : n \in c .. l <=> n \in Nat /\ c <= n /\ n <= l
  OBVIOUS
<1>3. passed \subseteq done
  <2>. SUFFICES ASSUME NEW n \in passed
                PROVE  n \in done
    OBVIOUS
  <2>1. n \in c .. l /\ n <= n
    BY <1>1, <1>2
  <2>. QED
    BY <1>1, <2>1
<1>4. CASE passed = {}
  <2>1. c \in c .. l
    <3>1. PICK n \in done : n \in c .. l
      OBVIOUS
    <3>. QED
      BY <1>2, <3>1
  <2>2. c \notin done
    <3>. SUFFICES ASSUME c \in done
                  PROVE  c \in passed
      BY <1>4
    <3>1. \A m \in c .. l : m <= c => m = c
      BY <1>2
    <3>. QED
      BY <1>1, <2>1, <3>1
  <2>3. c .. (c - 1) = {} /\ c <= l + 1
    BY <2>1
  <2>. QED
    <3>1. after = c
      BY <1>4 DEF After
    <3>. QED
      BY <1>3, <1>4, <2>2, <2>3, <3>1
<1>5. CASE passed # {}
  <2>1. Max(passed) \in passed /\ \A n \in passed : n <= Max(passed)
    <3>1. passed \in SUBSET Nat /\ \A n \in passed : n <= l
      BY <1>1, <1>2
    <3>. QED
      BY <1>5, <3>1, MaxOfBounded
  <2>2. PICK m \in passed : m = Max(passed) /\ \A n \in passed : n <= m
    BY <2>1
  <2>3. m \in Nat /\ c <= m /\ m <= l
    BY <1>1, <1>2
  <2>4. ASSUME NEW n \in Nat, c <= n, n <= m
        PROVE  n \in passed
    <3>1. n \in c .. l
      BY <1>2, <2>3, <2>4
    <3>2. ASSUME NEW k \in c .. l, k <= n
          PROVE  k \in done
      <4>1. k <= m /\ m \in c .. l
        BY <1>1, <1>2, <2>3, <2>4, <3>2
      <4>. QED
        BY <1>1, <4>1
    <3>. QED
      BY <1>1, <3>1, <3>2
  <2>5. passed = c .. m
    <3>1. \A n \in passed : n \in Nat /\ c <= n /\ n <= m
      BY <1>1, <1>2, <2>2
    <3>2. \A n : n \in c .. m <=> n \in Nat /\ c <= n /\ n <= m
      BY <2>3
    <3>. QED
      BY <2>4, <3>1, <3>2
  <2>6. m + 1 \notin done
    <3>. SUFFICES ASSUME m + 1 \in done
                  PROVE  m + 1 \in passed
      BY <2>2, <2>3
    <3>1. m + 1 \in c .. l
      OBVIOUS
    <3>2. ASSUME NEW k \in c .. l, k <= m + 1
          PROVE  k \in done
      <4>1. CASE k = m + 1
        BY <4>1
      <4>2. CASE k # m + 1
        <5>1. k \in Nat /\ c <= k /\ k <= m
          BY <1>2, <2>3, <3>2, <4>2
        <5>. QED
          BY <1>3, <2>4, <5>1
      <4>. QED
        BY <4>1, <4>2
    <3>. QED
      BY <1>1, <3>1, <3>2
  <2>7. (m + 1) - 1 = m /\ m + 1 \in Nat /\ c <= m + 1 /\ m + 1 <= l + 1
    BY <2>3
  <2>. QED
    <3>1. after = m + 1
      BY <1>5, <2>2 DEF After
    <3>. HIDE DEF after
    <3>. QED
      BY <1>3, <2>5, <2>6, <2>7, <3>1
<1>. QED
  BY <1>4, <1>5

(* A record that is completed takes the offsets up to the first unfinished *)
(* one off the front of the tracker.                                       *)
FinishedWith(r) == completed[r[1]] \cup {r[2]}

Leaving(r) == Passed(r[1], FinishedWith(r))

NextCommit(r) == After(Leaving(r), committed[r[1]])

LEMMA PassedIsPrefix ==
    ASSUME Typed, Tracked, NEW r \in Records, Unfinished(r)
    PROVE  /\ NextCommit(r) \in Nat /\ lastSeen[r[1]] > 0 /\ r[1] \in Partitions
           /\ committed[r[1]] <= NextCommit(r) /\ NextCommit(r) <= lastSeen[r[1]] + 1
           /\ pending[r[1]] \ Leaving(r) = NextCommit(r) .. lastSeen[r[1]]
           /\ Leaving(r) = committed[r[1]] .. (NextCommit(r) - 1)
           /\ NextCommit(r) \notin FinishedWith(r)
           /\ Leaving(r) \subseteq FinishedWith(r) /\ Leaving(r) \subseteq pending[r[1]]
           /\ FinishedWith(r) \subseteq pending[r[1]]
<1>. DEFINE p == r[1]
            from == committed[p]
            upto == lastSeen[p]
            done == FinishedWith(r)
<1>1. p \in Partitions
  BY DEF Records
<1>2. r[2] \in pending[p] /\ from \in Nat /\ upto \in Nat
  BY <1>1 DEF Unfinished, Typed
<1>3. /\ upto > 0 /\ pending[p] = from .. upto /\ from <= upto + 1
      /\ from \notin completed[p] /\ completed[p] \subseteq pending[p]
  BY <1>1, <1>2, SMTT(30) DEF Tracked, Typed, TypeOK
<1>4. Leaving(r) = Prefix(from, upto, done)
  BY <1>3 DEF Leaving, Passed, Prefix
<1>5. done \subseteq from .. upto /\ done # {}
  BY <1>2, <1>3 DEF FinishedWith
<1>6. NextCommit(r) = After(Prefix(from, upto, done), from)
  BY <1>4 DEF NextCommit
<1>. HIDE DEF from, upto, done
<1>7. /\ NextCommit(r) \in Nat /\ from <= NextCommit(r) /\ NextCommit(r) <= upto + 1
      /\ Leaving(r) = from .. (NextCommit(r) - 1)
      /\ NextCommit(r) \notin done /\ Leaving(r) \subseteq done
  <2>1. from \in Nat /\ upto \in Nat
    BY <1>2
  <2>2. done \subseteq from .. upto /\ done # {}
    BY <1>5
  <2>3. /\ After(Prefix(from, upto, done), from) \in Nat
        /\ from <= After(Prefix(from, upto, done), from)
        /\ After(Prefix(from, upto, done), from) <= upto + 1
        /\ Prefix(from, upto, done) = from .. (After(Prefix(from, upto, done), from) - 1)
        /\ After(Prefix(from, upto, done), from) \notin done
        /\ Prefix(from, upto, done) \subseteq done
    BY <2>1, <2>2, LongestPrefix, Zenon
  <2>. QED
    BY <1>4, <1>6, <2>3
<1>8. Leaving(r) \subseteq from .. upto /\ (from .. upto) \ Leaving(r) = NextCommit(r) .. upto
  BY <1>2, <1>7
<1>. QED
  BY <1>1, <1>3, <1>5, <1>7, <1>8 DEF from, upto, done

(* The two ends of a completion: the loop goes on, or an error stops the   *)
(* process after a commit that may have been stored.                       *)
GoesOn(r, mainNext, completionsNext) ==
    /\ pending' = [pending EXCEPT ![r[1]] = NextCommit(r) .. lastSeen[r[1]]]
    /\ completed' = [completed EXCEPT ![r[1]] = FinishedWith(r) \ Leaving(r)]
    /\ committed' = [committed EXCEPT ![r[1]] = NextCommit(r)]
    /\ main' = mainNext
    /\ completions' = completionsNext
    /\ UNCHANGED <<up, position, lastSeen, backlog, running, faults>>

StopsAfter(r) ==
    /\ Fault
    /\ committed' \in {committed, [committed EXCEPT ![r[1]] = NextCommit(r)]}
    /\ Stop

LEMMA CompleteEnds ==
    ASSUME Typed, Tracked, NEW r \in Records, Unfinished(r), NEW m, NEW cs, Complete(r, m, cs)
    PROVE  GoesOn(r, m, cs) \/ StopsAfter(r)
<1>. DEFINE commit == IF Leaving(r) = {} THEN committed
                      ELSE [committed EXCEPT ![r[1]] = Max(Leaving(r)) + 1]
<1>1. commit = [committed EXCEPT ![r[1]] = NextCommit(r)]
  <2>1. r[1] \in Partitions /\ committed \in [Partitions -> Nat]
    BY DEF Records, Typed
  <2>2. CASE Leaving(r) = {}
    BY <2>1, <2>2 DEF NextCommit, After
  <2>3. CASE Leaving(r) # {}
    BY <2>1, <2>3 DEF NextCommit, After
  <2>. QED
    BY <2>2, <2>3
<1>2. pending[r[1]] \ Leaving(r) = NextCommit(r) .. lastSeen[r[1]]
  BY PassedIsPrefix
<1>3. \/ /\ pending' = [pending EXCEPT ![r[1]] = @ \ Leaving(r)]
         /\ completed' = [completed EXCEPT ![r[1]] = FinishedWith(r) \ Leaving(r)]
         /\ committed' = commit /\ main' = m /\ completions' = cs
         /\ UNCHANGED <<up, position, lastSeen, backlog, running, faults>>
      \/ Fault /\ committed' \in {committed, commit} /\ Stop
  BY DEF Complete, Leaving, FinishedWith
<1>4. r[1] \in Partitions /\ pending \in [Partitions -> SUBSET Nat]
  BY DEF Records, Typed
<1>. HIDE DEF commit
<1>5. [pending EXCEPT ![r[1]] = @ \ Leaving(r)]
        = [pending EXCEPT ![r[1]] = NextCommit(r) .. lastSeen[r[1]]]
  BY <1>2, <1>4
<1>. QED
  BY <1>1, <1>3, <1>5 DEF GoesOn, StopsAfter

-----------------------------------------------------------------------------
(* What is known of a record stays *)

LEMMA LogGrows ==
    ASSUME Typed, [Next]_vars, NEW p \in Partitions
    PROVE  /\ DOMAIN log[p] \subseteq DOMAIN log'[p] /\ Len(log[p]) <= Len(log'[p])
           /\ \A n \in DOMAIN log[p] : log'[p][n] = log[p][n]
<1>0. Len(log[p]) \in Nat
  BY DEF Typed
<1>1. ASSUME NEW q \in Partitions, NEW e \in Deliveries \cup {Poison}, Publish(q, e)
      PROVE  /\ DOMAIN log[p] \subseteq DOMAIN log'[p] /\ Len(log[p]) <= Len(log'[p])
             /\ \A n \in DOMAIN log[p] : log'[p][n] = log[p][n]
  <2>1. log[p] \in Seq(Deliveries \cup {Poison})
    BY DEF Typed
  <2>2. CASE p = q
    <3>1. log'[p] = Append(log[p], e)
      BY <1>1, <2>2 DEF Publish, Typed
    <3>. QED
      BY <2>1, <3>1
  <2>3. CASE p # q
    BY <1>0, <1>1, <2>3 DEF Publish, Typed
  <2>. QED
    BY <2>2, <2>3
<1>2. CASE UNCHANGED log
  BY <1>0, <1>2
<1>. QED
  BY <1>1, <1>2
     DEF Next, Apply, Delete, Drain, Drained, PollNothing, Poll, Quarantine, QuarantineFails,
         Submit, Start, StepStored, StepConfirmed, StepFails, Finished, Crash, Restart,
         Reassign, kafka, vars

LEMMA TopicsGrow ==
    ASSUME Typed, [Next]_vars
    PROVE  /\ telemetry' \in [Deliveries -> SUBSET (1 .. Steps)]
           /\ quarantined \subseteq quarantined'
           /\ \A d \in Deliveries : telemetry[d] \subseteq telemetry'[d]
<1>0. telemetry \in [Deliveries -> SUBSET (1 .. Steps)]
  BY DEF Typed, TypeOK
<1>1. ASSUME NEW t \in running, StepStored(t)
      PROVE  /\ telemetry' \in [Deliveries -> SUBSET (1 .. Steps)]
             /\ \A d \in Deliveries : telemetry[d] \subseteq telemetry'[d]
             /\ quarantined' = quarantined
  <2>1. t.next \in 1 .. Steps
    BY <1>1, SimulatorAssumption DEF StepStored, Typed, TypeOK
  <2>. QED
    BY <1>0, <1>1, <2>1 DEF StepStored
<1>2. CASE Quarantine \/ QuarantineFails
  BY <1>0, <1>2 DEF Quarantine, QuarantineFails
<1>3. CASE UNCHANGED <<telemetry, quarantined>>
  BY <1>0, <1>3
<1>. QED
  BY <1>1, <1>2, <1>3
     DEF Next, Publish, Apply, Delete, Drain, Drained, PollNothing, Poll,
         Submit, Start, StepConfirmed, StepFails, Finished, Crash, Restart,
         Reassign, vars

(* A record of the log; what is done of it for good.                       *)
LEMMA DoneStays ==
    ASSUME Typed, [Next]_vars, NEW r \in Records, r[2] \in DOMAIN log[r[1]]
    PROVE  /\ Event(r)' = Event(r) /\ Event(r) \in Deliveries \cup {Poison}
           /\ Done(r) => Done(r)'
<1>1. r[1] \in Partitions
  BY DEF Records
<1>2. Event(r)' = Event(r) /\ Event(r) \in Deliveries \cup {Poison}
  BY <1>1, LogGrows DEF Event, Typed, TypeOK
<1>3. /\ telemetry' \in [Deliveries -> SUBSET (1 .. Steps)]
      /\ quarantined \subseteq quarantined'
      /\ \A d \in Deliveries : telemetry[d] \subseteq telemetry'[d]
  BY TopicsGrow
<1>. QED
  BY <1>2, <1>3 DEF Done

-----------------------------------------------------------------------------
(* What a step does to the tracker *)

LEMMA MainIsUnfinished ==
    ASSUME IInv, main.at \in {"submit", "quarantine"}
    PROVE  main.record \in Records /\ Unfinished(main.record)
  BY DEF IInv, Resting, Placed, OnePlace, InProcess, AtMain, Typed

LEMMA HeadIsUnfinished ==
    ASSUME IInv, completions # <<>>
    PROVE  /\ 1 \in DOMAIN completions /\ Head(completions) = completions[1]
           /\ completions[1] \in [record : Records, ok : BOOLEAN]
           /\ Unfinished(completions[1].record)
<1>1. completions \in Seq([record : Records, ok : BOOLEAN])
  BY DEF IInv, Typed
<1>2. /\ 1 \in DOMAIN completions /\ Head(completions) = completions[1]
      /\ completions[1] \in [record : Records, ok : BOOLEAN]
  BY <1>1, TailElements
<1>3. InProcess(completions[1].record)
  BY <1>2 DEF InProcess, AtEnd
<1>. QED
  BY <1>2, <1>3 DEF IInv, Placed, OnePlace

LEMMA FetchedIsRecord ==
    ASSUME IInv, NEW p \in Partitions, position[p] <= Len(log[p])
    PROVE  position[p] \in Offsets /\ <<p, position[p]>> \in Records
<1>1. position[p] \in Nat /\ position[p] >= 1 /\ Len(log[p]) \in Nat /\ Len(log[p]) <= MaxRecords
  BY DEF IInv, Typed, TypeOK
<1>. QED
  BY <1>1, SimulatorAssumption DEF Offsets, Records

(* Registering the next record of a partition.                             *)
Registers(p) ==
    /\ Poll(p)
    /\ position[p] > lastSeen[p]
    /\ pending' = [pending EXCEPT ![p] = @ \cup {position[p]}]
    /\ lastSeen' = [lastSeen EXCEPT ![p] = position[p]]
    /\ position' = [position EXCEPT ![p] = position[p] + 1]
    /\ main'.record = <<p, position[p]>>
    /\ UNCHANGED <<up, completed, committed, workers>>

Rests == UNCHANGED <<committed, position, tracker, up>>

LEMMA PollEnds ==
    ASSUME IInv, NEW p \in Partitions, Poll(p)
    PROVE  Registers(p) \/ (Stop /\ committed' = committed)
<1>1. committed' = committed
  BY DEF Poll, kafka
<1>2. position[p] \in Nat /\ lastSeen[p] \in Nat
  BY DEF IInv, Typed
<1>3. CASE position[p] > lastSeen[p]
  <2>1. ~ (position[p] <= lastSeen[p])
    BY <1>2, <1>3
  <2>2. /\ pending' = [pending EXCEPT ![p] = @ \cup {position[p]}]
        /\ lastSeen' = [lastSeen EXCEPT ![p] = position[p]]
        /\ position' = [position EXCEPT ![p] = position[p] + 1]
        /\ UNCHANGED <<up, completed, workers>>
    BY <2>1 DEF Poll
  <2>3. main'.record = <<p, position[p]>>
    <3>1. PICK at : main' = [at |-> at, record |-> <<p, position[p]>>]
      BY <2>1 DEF Poll
    <3>. QED
      BY <3>1
  <2>. QED
    BY <1>1, <1>3, <2>2, <2>3 DEF Registers
<1>4. CASE ~ (position[p] > lastSeen[p])
  BY <1>1, <1>4 DEF Poll
<1>. QED
  BY <1>3, <1>4

LEMMA TrackerMoves ==
    ASSUME IInv, [Next]_vars
    PROVE  \/ Rests
           \/ /\ up /\ main.at \in {"drain", "submit"} /\ completions # <<>>
              /\ GoesOn(Head(completions).record, main, Tail(completions))
           \/ /\ up /\ main.at = "quarantine"
              /\ GoesOn(main.record, Idle, completions)
           \/ Stop /\ committed' = committed
           \/ \E r \in Records : Unfinished(r) /\ StopsAfter(r)
           \/ \E p \in Partitions : Registers(p)
           \/ Restart
           \/ \E p \in Partitions : Reassign(p)
<1>1. CASE Drain
  <2>1. /\ Head(completions).record \in Records /\ Unfinished(Head(completions).record)
        /\ up /\ main.at \in {"drain", "submit"} /\ completions # <<>>
    BY <1>1, HeadIsUnfinished DEF Drain
  <2>2. CASE Complete(Head(completions).record, main, Tail(completions))
    BY <2>1, <2>2, CompleteEnds DEF IInv
  <2>. QED
    BY <1>1, <2>1, <2>2 DEF Drain
<1>2. CASE Quarantine
  <2>1. main.record \in Records /\ Unfinished(main.record) /\ up /\ main.at = "quarantine"
    BY <1>2, MainIsUnfinished DEF Quarantine
  <2>2. Complete(main.record, Idle, completions)
    BY <1>2 DEF Quarantine
  <2>. QED
    BY <2>1, <2>2, CompleteEnds DEF IInv
<1>3. CASE QuarantineFails \/ Crash
  BY <1>3 DEF QuarantineFails, Crash, kafka
<1>4. CASE UNCHANGED vars
  BY <1>4 DEF vars, kafka, Rests
<1>. QED
  BY <1>1, <1>2, <1>3, <1>4, PollEnds
     DEF Next, Publish, Apply, Delete, Drained, PollNothing, Submit, Start, StepStored,
         StepConfirmed, StepFails, Finished, kafka, Rests

(* The tracker of a partition: numbers within the log, and Tracked.        *)
TrackerOf(p) ==
    /\ committed[p] \in 1 .. Len(log[p]) + 1
    /\ position[p] \in 1 .. Len(log[p]) + 1
    /\ pending[p] \subseteq DOMAIN log[p]
    /\ completed[p] \subseteq pending[p]
    /\ lastSeen[p] \in 0 .. Len(log[p])
    /\ lastSeen[p] = 0 => pending[p] = {} /\ (up => position[p] = committed[p])
    /\ lastSeen[p] > 0 =>
          /\ pending[p] = committed[p] .. lastSeen[p]
          /\ committed[p] <= lastSeen[p] + 1
          /\ committed[p] \notin completed[p]
          /\ position[p] <= lastSeen[p] + 1

NumbersTyped ==
    /\ committed \in [Partitions -> Nat]
    /\ position \in [Partitions -> Nat]
    /\ pending \in [Partitions -> SUBSET Nat]
    /\ completed \in [Partitions -> SUBSET Nat]
    /\ lastSeen \in [Partitions -> Nat]

LEMMA TrackerKnown ==
    ASSUME IInv
    PROVE  NumbersTyped /\ \A p \in Partitions : TrackerOf(p) /\ Len(log[p]) \in Nat
                                                    /\ DOMAIN log[p] = 1 .. Len(log[p])
  BY DEF IInv, Typed, TypeOK, Tracked, NumbersTyped, TrackerOf

(* A partition whose tracker is left alone while its log may grow.         *)
LEMMA TrackerUntouched ==
    ASSUME NumbersTyped, NEW p \in Partitions, TrackerOf(p),
           committed'[p] = committed[p], position'[p] = position[p], pending'[p] = pending[p],
           completed'[p] = completed[p], lastSeen'[p] = lastSeen[p], up' = up,
           Len(log[p]) \in Nat, Len(log'[p]) \in Nat, Len(log[p]) <= Len(log'[p]),
           DOMAIN log[p] \subseteq DOMAIN log'[p]
    PROVE  TrackerOf(p)'
<1>1. /\ committed'[p] \in 1 .. Len(log'[p]) + 1
      /\ position'[p] \in 1 .. Len(log'[p]) + 1
      /\ lastSeen'[p] \in 0 .. Len(log'[p])
  BY SMTT(30) DEF TrackerOf
<1>2. pending'[p] \subseteq DOMAIN log'[p] /\ completed'[p] \subseteq pending'[p]
  BY DEF TrackerOf
<1>. QED
  BY <1>1, <1>2 DEF TrackerOf

LEMMA TrackerStep ==
    ASSUME IInv, [Next]_vars, \A p \in Partitions : Len(log'[p]) \in Nat
    PROVE  NumbersTyped' /\ \A p \in Partitions : TrackerOf(p)'
<1>0. NumbersTyped /\ \A p \in Partitions : TrackerOf(p) /\ Len(log[p]) \in Nat
                                               /\ DOMAIN log[p] = 1 .. Len(log[p])
  BY TrackerKnown
<1>1. \A p \in Partitions : DOMAIN log[p] \subseteq DOMAIN log'[p] /\ Len(log[p]) <= Len(log'[p])
  BY LogGrows DEF IInv
<1>2. CASE Rests
  <2>1. /\ committed' = committed /\ position' = position /\ pending' = pending
        /\ completed' = completed /\ lastSeen' = lastSeen /\ up' = up
    BY <1>2 DEF Rests, tracker
  <2>2. NumbersTyped'
    BY <1>0, <2>1 DEF NumbersTyped
  <2>3. \A p \in Partitions : TrackerOf(p)'
    BY <1>0, <1>1, <2>1, TrackerUntouched
  <2>. QED
    BY <2>2, <2>3
<1>3. ASSUME NEW r \in Records, Unfinished(r), NEW m, NEW cs, GoesOn(r, m, cs)
      PROVE  NumbersTyped' /\ \A p \in Partitions : TrackerOf(p)'
  <2>1. /\ NextCommit(r) \in Nat /\ lastSeen[r[1]] > 0 /\ r[1] \in Partitions
        /\ committed[r[1]] <= NextCommit(r) /\ NextCommit(r) <= lastSeen[r[1]] + 1
        /\ pending[r[1]] \ Leaving(r) = NextCommit(r) .. lastSeen[r[1]]
        /\ NextCommit(r) \notin FinishedWith(r)
        /\ FinishedWith(r) \subseteq pending[r[1]]
    BY <1>3, PassedIsPrefix DEF IInv
  <2>2. NumbersTyped'
    BY <1>0, <1>3, <2>1 DEF GoesOn, NumbersTyped
  <2>3. ASSUME NEW p \in Partitions, p # r[1]
        PROVE  TrackerOf(p)'
    <3>1. /\ committed'[p] = committed[p] /\ position'[p] = position[p]
          /\ pending'[p] = pending[p] /\ completed'[p] = completed[p]
          /\ lastSeen'[p] = lastSeen[p] /\ up' = up
      BY <1>0, <1>3, <2>1, <2>3 DEF GoesOn, NumbersTyped
    <3>. QED
      BY <1>0, <1>1, <3>1, TrackerUntouched
  <2>4. TrackerOf(r[1])'
    <3>. DEFINE p == r[1]
    <3>1. /\ pending'[p] = NextCommit(r) .. lastSeen[p]
          /\ completed'[p] = FinishedWith(r) \ Leaving(r)
          /\ committed'[p] = NextCommit(r)
          /\ position' = position /\ lastSeen' = lastSeen /\ up' = up
      BY <1>0, <1>3, <2>1 DEF GoesOn, NumbersTyped
    <3>2. completed'[p] \subseteq pending'[p] /\ pending'[p] \subseteq pending[p]
      BY <2>1, <3>1
    <3>3. committed'[p] \notin completed'[p]
      BY <2>1, <3>1
    <3>4. TrackerOf(p) /\ Len(log[p]) \in Nat /\ Len(log'[p]) \in Nat
          /\ Len(log[p]) <= Len(log'[p]) /\ DOMAIN log[p] \subseteq DOMAIN log'[p]
      BY <1>0, <1>1, <2>1
    <3>. HIDE DEF p
    <3>5. /\ NextCommit(r) \in Nat /\ lastSeen[p] > 0 /\ committed[p] <= NextCommit(r)
          /\ NextCommit(r) <= lastSeen[p] + 1
      BY <2>1 DEF p
    <3>6. /\ committed'[p] \in 1 .. Len(log'[p]) + 1
          /\ position'[p] \in 1 .. Len(log'[p]) + 1
          /\ lastSeen'[p] \in 0 .. Len(log'[p]) /\ lastSeen'[p] > 0
      BY <3>1, <3>4, <3>5, SMTT(30) DEF TrackerOf
    <3>7. pending'[p] \subseteq DOMAIN log'[p] /\ completed'[p] \subseteq pending'[p]
      BY <3>2, <3>4 DEF TrackerOf
    <3>8. /\ pending'[p] = committed'[p] .. lastSeen'[p] /\ committed'[p] <= lastSeen'[p] + 1
          /\ committed'[p] \notin completed'[p] /\ position'[p] <= lastSeen'[p] + 1
      BY <3>1, <3>3, <3>4, <3>5 DEF TrackerOf
    <3>9. lastSeen'[p] # 0
      BY <3>6
    <3>. QED
      BY <3>6, <3>7, <3>8, <3>9 DEF TrackerOf, p
  <2>. QED
    BY <2>2, <2>3, <2>4
<1>4. ASSUME Stop, \/ committed' = committed
                   \/ \E r \in Records : Unfinished(r) /\ StopsAfter(r)
      PROVE  NumbersTyped' /\ \A p \in Partitions : TrackerOf(p)'
  <2>1. /\ committed' \in [Partitions -> Nat]
        /\ \A p \in Partitions : committed'[p] \in 1 .. Len(log[p]) + 1
    <3>1. CASE committed' = committed
      BY <1>0, <3>1 DEF NumbersTyped, TrackerOf
    <3>2. ASSUME NEW r \in Records, Unfinished(r),
                 committed' = [committed EXCEPT ![r[1]] = NextCommit(r)]
          PROVE  /\ committed' \in [Partitions -> Nat]
                 /\ \A p \in Partitions : committed'[p] \in 1 .. Len(log[p]) + 1
      <4>1. /\ NextCommit(r) \in Nat /\ r[1] \in Partitions
            /\ committed[r[1]] <= NextCommit(r) /\ NextCommit(r) <= lastSeen[r[1]] + 1
        BY <3>2, PassedIsPrefix DEF IInv
      <4>2. NextCommit(r) \in 1 .. Len(log[r[1]]) + 1
        BY <1>0, <4>1 DEF TrackerOf
      <4>. QED
        BY <1>0, <3>2, <4>1, <4>2 DEF NumbersTyped, TrackerOf
    <3>. QED
      BY <1>4, <3>1, <3>2 DEF StopsAfter
  <2>2. NumbersTyped'
    BY <1>4, <2>1 DEF Stop, NumbersTyped
  <2>3. ASSUME NEW p \in Partitions
        PROVE  TrackerOf(p)'
    <3>1. /\ pending'[p] = {} /\ completed'[p] = {} /\ lastSeen'[p] = 0 /\ position'[p] = 1
          /\ up' = FALSE
      BY <1>4 DEF Stop
    <3>2. committed'[p] \in 1 .. Len(log'[p]) + 1
      BY <1>0, <1>1, <2>1
    <3>3. Len(log'[p]) \in Nat
      OBVIOUS
    <3>. QED
      BY <3>1, <3>2, <3>3 DEF TrackerOf
  <2>. QED
    BY <2>2, <2>3
<1>5. ASSUME NEW q \in Partitions, Registers(q)
      PROVE  NumbersTyped' /\ \A p \in Partitions : TrackerOf(p)'
  <2>1. position[q] <= Len(log[q]) /\ up
    BY <1>5 DEF Registers, Poll
  <2>2. NumbersTyped'
    BY <1>0, <1>5 DEF Registers, NumbersTyped
  <2>3. ASSUME NEW p \in Partitions, p # q
        PROVE  TrackerOf(p)'
    <3>1. /\ committed'[p] = committed[p] /\ position'[p] = position[p]
          /\ pending'[p] = pending[p] /\ completed'[p] = completed[p]
          /\ lastSeen'[p] = lastSeen[p] /\ up' = up
      BY <1>0, <1>5, <2>3 DEF Registers, NumbersTyped
    <3>. QED
      BY <1>0, <1>1, <3>1, TrackerUntouched
  <2>4. TrackerOf(q)'
    <3>1. /\ pending'[q] = pending[q] \cup {position[q]} /\ lastSeen'[q] = position[q]
          /\ position'[q] = position[q] + 1 /\ completed' = completed
          /\ committed' = committed /\ up' = up /\ position[q] > lastSeen[q]
      BY <1>0, <1>5 DEF Registers, NumbersTyped
    <3>2. /\ TrackerOf(q) /\ Len(log[q]) \in Nat /\ Len(log'[q]) \in Nat
          /\ Len(log[q]) <= Len(log'[q]) /\ DOMAIN log[q] \subseteq DOMAIN log'[q]
          /\ DOMAIN log[q] = 1 .. Len(log[q])
      BY <1>0, <1>1
    <3>3. committed[q] \in Nat /\ position[q] \in Nat /\ lastSeen[q] \in Nat
      BY <1>0 DEF NumbersTyped
    <3>4. /\ pending'[q] = committed[q] .. position[q] /\ committed[q] <= position[q] + 1
          /\ committed[q] \notin completed[q] /\ position[q] > 0
      <4>1. CASE lastSeen[q] = 0
        BY <2>1, <3>1, <3>2, <3>3, <4>1 DEF TrackerOf
      <4>2. CASE lastSeen[q] > 0
        <5>1. position[q] = lastSeen[q] + 1 /\ pending[q] = committed[q] .. lastSeen[q]
          BY <3>1, <3>2, <3>3, <4>2 DEF TrackerOf
        <5>. QED
          BY <3>1, <3>2, <3>3, <4>2, <5>1 DEF TrackerOf
      <4>. QED
        BY <3>3, <4>1, <4>2
    <3>5. /\ committed'[q] \in 1 .. Len(log'[q]) + 1
          /\ position'[q] \in 1 .. Len(log'[q]) + 1
          /\ lastSeen'[q] \in 0 .. Len(log'[q]) /\ lastSeen'[q] # 0
      BY <2>1, <3>1, <3>2, <3>3, <3>4 DEF TrackerOf
    <3>6. pending'[q] \subseteq DOMAIN log'[q] /\ completed'[q] \subseteq pending'[q]
      <4>1. position[q] \in DOMAIN log[q]
        BY <2>1, <3>2, <3>3, <3>4
      <4>. QED
        BY <3>1, <3>2, <4>1 DEF TrackerOf
    <3>7. /\ pending'[q] = committed'[q] .. lastSeen'[q] /\ committed'[q] <= lastSeen'[q] + 1
          /\ committed'[q] \notin completed'[q] /\ position'[q] <= lastSeen'[q] + 1
      BY <3>1, <3>3, <3>4
    <3>. QED
      BY <3>5, <3>6, <3>7 DEF TrackerOf
  <2>. QED
    BY <2>2, <2>3, <2>4
<1>6. CASE Restart
  <2>1. /\ position' = committed /\ committed' = committed /\ pending' = pending
        /\ completed' = completed /\ lastSeen' = lastSeen /\ ~up
    BY <1>6 DEF Restart, kafka, tracker
  <2>2. \A p \in Partitions : pending[p] = {} /\ completed[p] = {} /\ lastSeen[p] = 0
    BY <2>1 DEF IInv, Resting
  <2>. QED
    BY <1>0, <1>1, <2>1, <2>2, SMTT(30) DEF TrackerOf, NumbersTyped
<1>7. ASSUME NEW q \in Partitions, Reassign(q)
      PROVE  NumbersTyped' /\ \A p \in Partitions : TrackerOf(p)'
  BY <1>0, <1>1, <1>7 DEF Reassign, kafka, tracker, TrackerOf, NumbersTyped
<1>. QED
  BY <1>2, <1>3, <1>4, <1>5, <1>6, <1>7, TrackerMoves, MainIsUnfinished, HeadIsUnfinished
     DEF StopsAfter

-----------------------------------------------------------------------------
(* The type invariant *)

LEMMA LogTyped ==
    ASSUME Typed, [Next]_vars
    PROVE  /\ log' \in [Partitions -> Seq(Deliveries \cup {Poison})]
           /\ \A p \in Partitions :
                 /\ Len(log'[p]) \in Nat /\ Len(log'[p]) <= MaxRecords
                 /\ \A n \in DOMAIN log'[p] : log'[p][n] \in Deliveries \cup {Poison}
<1>0. /\ log \in [Partitions -> Seq(Deliveries \cup {Poison})]
      /\ \A p \in Partitions : Len(log[p]) <= MaxRecords
  BY DEF Typed, TypeOK
<1>1. ASSUME NEW q \in Partitions, NEW e \in Deliveries \cup {Poison}, Publish(q, e)
      PROVE  /\ log' \in [Partitions -> Seq(Deliveries \cup {Poison})]
             /\ \A p \in Partitions : Len(log'[p]) <= MaxRecords
  <2>1. /\ Append(log[q], e) \in Seq(Deliveries \cup {Poison})
        /\ Len(Append(log[q], e)) = Len(log[q]) + 1 /\ Len(log[q]) \in Nat
    BY <1>0
  <2>2. log' = [log EXCEPT ![q] = Append(log[q], e)] /\ Len(log[q]) < MaxRecords
    BY <1>1 DEF Publish
  <2>. QED
    BY <1>0, <2>1, <2>2, SimulatorAssumption
<1>2. CASE UNCHANGED log
  BY <1>0, <1>2
<1>3. /\ log' \in [Partitions -> Seq(Deliveries \cup {Poison})]
      /\ \A p \in Partitions : Len(log'[p]) <= MaxRecords
  BY <1>1, <1>2
     DEF Next, Apply, Delete, Drain, Drained, PollNothing, Poll, Quarantine, QuarantineFails,
         Submit, Start, StepStored, StepConfirmed, StepFails, Finished, Crash, Restart,
         Reassign, kafka, vars
<1>. QED
  BY <1>3

LEMMA ApiTyped ==
    ASSUME Typed, [Next]_vars
    PROVE  progress' \in [Deliveries -> 0 .. Steps] /\ deleted' \subseteq Deliveries
<1>0. progress \in [Deliveries -> 0 .. Steps] /\ deleted \subseteq Deliveries
  BY DEF Typed, TypeOK
<1>1. ASSUME NEW d \in Deliveries, NEW i \in 1 .. Steps, Apply(d, i)
      PROVE  progress' \in [Deliveries -> 0 .. Steps] /\ deleted' \subseteq Deliveries
  BY <1>0, <1>1, SimulatorAssumption DEF Apply
<1>2. ASSUME NEW d \in Deliveries, Delete(d)
      PROVE  progress' \in [Deliveries -> 0 .. Steps] /\ deleted' \subseteq Deliveries
  BY <1>0, <1>2 DEF Delete
<1>3. CASE UNCHANGED api
  BY <1>0, <1>3 DEF api
<1>. QED
  BY <1>1, <1>2, <1>3
     DEF Next, Publish, Drain, Drained, PollNothing, Poll, Quarantine, QuarantineFails,
         Submit, Start, StepStored, StepConfirmed, StepFails, Finished, Crash, Restart,
         Reassign, vars

(* The loop and the workers.                                               *)
WorkTyped ==
    /\ quarantined \subseteq Records
    /\ up \in BOOLEAN
    /\ main \in [at : {"drain", "poll", "submit", "quarantine"}, record : Records \cup {NoRecord}]
    /\ backlog \in Seq(Records)
    /\ running \subseteq [record : Records, next : 1 .. Steps + 1]
    /\ completions \in Seq([record : Records, ok : BOOLEAN])
    /\ faults \in 0 .. MaxFaults

LEMMA StopTyped ==
    ASSUME WorkTyped, Stop, quarantined' \subseteq Records, Fault \/ faults' = faults
    PROVE  WorkTyped'
<1>1. faults' \in 0 .. MaxFaults
  BY SimulatorAssumption DEF WorkTyped, Fault
<1>2. main' \in [at : {"drain", "poll", "submit", "quarantine"}, record : Records \cup {NoRecord}]
  BY DEF Stop, Idle
<1>3. backlog' \in Seq(Records) /\ completions' \in Seq([record : Records, ok : BOOLEAN])
  BY DEF Stop
<1>4. up' \in BOOLEAN /\ running' \subseteq [record : Records, next : 1 .. Steps + 1]
  BY DEF Stop
<1>. QED
  BY <1>1, <1>2, <1>3, <1>4 DEF WorkTyped

LEMMA FinishTyped ==
    ASSUME WorkTyped, NEW r \in Records, NEW ok \in BOOLEAN, Finish(r, ok)
    PROVE  completions' \in Seq([record : Records, ok : BOOLEAN])
  BY AppendElements DEF WorkTyped, Finish

LEMMA WorkStep ==
    ASSUME IInv, [Next]_vars
    PROVE  WorkTyped'
<1>0. WorkTyped
  BY DEF IInv, Typed, TypeOK, WorkTyped
<1>1. CASE Drain
  <2>1. quarantined' = quarantined
    BY <1>1 DEF Drain
  <2>2. ASSUME GoesOn(Head(completions).record, main, Tail(completions)), completions # <<>>
        PROVE  WorkTyped'
    <3>1. completions' \in Seq([record : Records, ok : BOOLEAN])
      BY <1>0, <2>2, TailElements DEF WorkTyped, GoesOn
    <3>. QED
      BY <1>0, <2>1, <2>2, <3>1 DEF WorkTyped, GoesOn
  <2>3. CASE Stop /\ (Fault \/ faults' = faults)
    BY <1>0, <2>1, <2>3, StopTyped DEF WorkTyped
  <2>4. CASE Complete(Head(completions).record, main, Tail(completions))
    <3>1. completions # <<>>
      BY <1>1 DEF Drain
    <3>2. Head(completions).record \in Records /\ Unfinished(Head(completions).record)
      BY <3>1, HeadIsUnfinished
    <3>. QED
      BY <2>2, <2>3, <2>4, <3>1, <3>2, CompleteEnds DEF IInv, StopsAfter
  <2>. QED
    BY <1>1, <2>3, <2>4 DEF Drain
<1>2. CASE Quarantine
  <2>1. main.record \in Records /\ Unfinished(main.record)
    BY <1>2, MainIsUnfinished DEF Quarantine
  <2>2. quarantined' \subseteq Records
    BY <1>0, <1>2, <2>1 DEF Quarantine, WorkTyped
  <2>3. GoesOn(main.record, Idle, completions) \/ StopsAfter(main.record)
    <3>1. Complete(main.record, Idle, completions)
      BY <1>2 DEF Quarantine
    <3>. QED
      BY <2>1, <3>1, CompleteEnds DEF IInv
  <2>4. CASE GoesOn(main.record, Idle, completions)
    BY <1>0, <2>2, <2>4 DEF WorkTyped, GoesOn, Idle
  <2>5. CASE StopsAfter(main.record)
    BY <1>0, <2>2, <2>5, StopTyped DEF StopsAfter
  <2>. QED
    BY <2>3, <2>4, <2>5
<1>3. CASE QuarantineFails
  <2>1. main.record \in Records
    BY <1>3, MainIsUnfinished DEF QuarantineFails
  <2>2. quarantined' \subseteq Records
    BY <1>0, <1>3, <2>1 DEF QuarantineFails, WorkTyped
  <2>. QED
    BY <1>0, <1>3, <2>2, StopTyped DEF QuarantineFails
<1>4. CASE Crash
  BY <1>0, <1>4, StopTyped DEF Crash, WorkTyped
<1>5. ASSUME NEW p \in Partitions, Poll(p)
      PROVE  WorkTyped'
  <2>1. position[p] \in Offsets /\ <<p, position[p]>> \in Records
    BY <1>5, FetchedIsRecord DEF Poll
  <2>2. quarantined' = quarantined /\ faults' = faults
    BY <1>5 DEF Poll
  <2>3. CASE Stop
    BY <1>0, <2>2, <2>3, StopTyped DEF WorkTyped
  <2>4. CASE UNCHANGED <<up, workers>>
             /\ \E at \in {"quarantine", "submit"} :
                   main' = [at |-> at, record |-> <<p, position[p]>>]
    <3>1. main' \in [at : {"drain", "poll", "submit", "quarantine"},
                     record : Records \cup {NoRecord}]
      BY <2>1, <2>4
    <3>. QED
      BY <1>0, <2>2, <2>4, <3>1 DEF WorkTyped, workers
  <2>. QED
    BY <1>5, <2>3, <2>4 DEF Poll
<1>6. CASE Submit
  <2>1. main.record \in Records
    BY <1>6, MainIsUnfinished DEF Submit
  <2>2. backlog' \in Seq(Records)
    BY <1>0, <1>6, <2>1 DEF Submit, WorkTyped
  <2>. QED
    BY <1>0, <1>6, <2>2 DEF Submit, WorkTyped, Idle
<1>7. CASE Start
  <2>. DEFINE r == Head(backlog)
              d == Event(r)
  <2>1. r \in Records /\ backlog' \in Seq(Records) /\ Event(r) \in Deliveries
    <3>1. backlog \in Seq(Records) /\ backlog # <<>> /\ backlog' = Tail(backlog)
      BY <1>0, <1>7 DEF Start, WorkTyped
    <3>2. /\ 1 \in DOMAIN backlog /\ Head(backlog) = backlog[1] /\ Head(backlog) \in Records
          /\ Tail(backlog) \in Seq(Records)
      BY <3>1, TailElements
    <3>. QED
      BY <3>1, <3>2 DEF IInv, Finishes
  <2>2. FirstStep(d) \in 1 .. Steps + 1
    BY <2>1, SimulatorAssumption DEF FirstStep, IInv, Typed, TypeOK
  <2>3. UNCHANGED <<quarantined, up, main>>
    BY <1>7 DEF Start
  <2>. HIDE DEF r, d
  <2>4. CASE running' = running \cup {[record |-> r, next |-> FirstStep(d)]}
             /\ UNCHANGED <<completions, faults>>
    BY <1>0, <2>1, <2>2, <2>3, <2>4 DEF WorkTyped
  <2>5. CASE Finish(r, FALSE) /\ UNCHANGED running /\ (Fault \/ faults' = faults)
    <3>1. completions' \in Seq([record : Records, ok : BOOLEAN])
      BY <1>0, <2>1, <2>5, FinishTyped
    <3>2. faults' \in 0 .. MaxFaults
      BY <1>0, <2>5, SimulatorAssumption DEF WorkTyped, Fault
    <3>. QED
      BY <1>0, <2>1, <2>3, <2>5, <3>1, <3>2 DEF WorkTyped
  <2>. QED
    BY <1>7, <2>4, <2>5 DEF Start, r, d
<1>8. ASSUME NEW t \in running, StepConfirmed(t)
      PROVE  WorkTyped'
  <2>1. t \in [record : Records, next : 1 .. Steps + 1] /\ t.next <= Steps
    BY <1>0, <1>8 DEF WorkTyped, StepConfirmed
  <2>2. [t EXCEPT !.next = @ + 1] \in [record : Records, next : 1 .. Steps + 1]
    BY <2>1, SimulatorAssumption
  <2>. QED
    BY <1>0, <1>8, <2>2 DEF WorkTyped, StepConfirmed
<1>9. ASSUME NEW t \in running, StepFails(t) \/ Finished(t)
      PROVE  WorkTyped'
  <2>1. t.record \in Records
    BY <1>0 DEF WorkTyped
  <2>2. completions' \in Seq([record : Records, ok : BOOLEAN])
    BY <1>0, <1>9, <2>1, FinishTyped DEF StepFails, Finished
  <2>3. CASE StepFails(t)
    <3>1. faults' \in 0 .. MaxFaults
      BY <1>0, <2>3, SimulatorAssumption DEF StepFails, Fault, WorkTyped
    <3>. QED
      BY <1>0, <2>2, <2>3, <3>1 DEF StepFails, WorkTyped
  <2>4. CASE Finished(t)
    BY <1>0, <2>2, <2>4 DEF Finished, WorkTyped
  <2>. QED
    BY <1>9, <2>3, <2>4
<1>10. CASE Drained \/ PollNothing
  <2>1. main' \in [at : {"drain", "poll", "submit", "quarantine"}, record : Records \cup {NoRecord}]
    BY <1>0, <1>10 DEF Drained, PollNothing, WorkTyped, Idle
  <2>. QED
    BY <1>0, <1>10, <2>1 DEF Drained, PollNothing, WorkTyped, workers
<1>11. ASSUME NEW p \in Partitions, Reassign(p)
       PROVE  WorkTyped'
  <2>1. faults' \in 0 .. MaxFaults
    BY <1>0, <1>11, SimulatorAssumption DEF Reassign, Fault, WorkTyped
  <2>. QED
    BY <1>0, <1>11, <2>1 DEF Reassign, WorkTyped, workers
<1>12. CASE Restart
  BY <1>0, <1>12 DEF Restart, WorkTyped, workers
<1>13. CASE UNCHANGED <<quarantined, up, main, workers, faults>>
  BY <1>0, <1>13 DEF WorkTyped, workers
<1>. QED
  BY <1>1, <1>2, <1>3, <1>4, <1>5, <1>6, <1>7, <1>8, <1>9, <1>10, <1>11, <1>12, <1>13
     DEF Next, Publish, Apply, Delete, StepStored, vars

LEMMA TypedStep ==
    ASSUME IInv, [Next]_vars
    PROVE  Typed' /\ Tracked'
<1>1. WorkTyped' /\ NumbersTyped' /\ \A p \in Partitions : TrackerOf(p)'
  BY WorkStep, LogTyped, TrackerStep DEF IInv
<1>2. /\ \A i \in DOMAIN backlog' : backlog'[i] \in Records
      /\ \A i \in DOMAIN completions' : completions'[i] \in [record : Records, ok : BOOLEAN]
      /\ main'.at \in {"drain", "poll", "submit", "quarantine"}
      /\ main'.record \in Records \cup {NoRecord}
  <2>1. backlog' \in Seq(Records) /\ completions' \in Seq([record : Records, ok : BOOLEAN])
    BY <1>1 DEF WorkTyped
  <2>2. main' \in [at : {"drain", "poll", "submit", "quarantine"}, record : Records \cup {NoRecord}]
    BY <1>1 DEF WorkTyped
  <2>3. \A i \in DOMAIN backlog' : backlog'[i] \in Records
    BY <2>1, SeqElements, Zenon
  <2>4. \A i \in DOMAIN completions' : completions'[i] \in [record : Records, ok : BOOLEAN]
    BY <2>1, SeqElements, Zenon
  <2>5. /\ main'.at \in {"drain", "poll", "submit", "quarantine"}
        /\ main'.record \in Records \cup {NoRecord}
    BY <2>2
  <2>. QED
    BY <2>3, <2>4, <2>5
<1>3. TypeOK'
  <2>1. Typed
    BY DEF IInv
  <2>2. /\ telemetry' \in [Deliveries -> SUBSET (1 .. Steps)]
        /\ progress' \in [Deliveries -> 0 .. Steps] /\ deleted' \subseteq Deliveries
    BY <2>1, TopicsGrow, ApiTyped
  <2>3. /\ quarantined' \subseteq Records /\ up' \in BOOLEAN /\ faults' \in 0 .. MaxFaults
        /\ running' \subseteq [record : Records, next : 1 .. Steps + 1]
    BY <1>1 DEF WorkTyped
  <2>4. \A p \in Partitions :
           /\ Len(log'[p]) <= MaxRecords
           /\ \A n \in DOMAIN log'[p] : log'[p][n] \in Deliveries \cup {Poison}
    BY <2>1, LogTyped
  <2>5. \A p \in Partitions :
           /\ committed'[p] \in 1 .. Len(log'[p]) + 1
           /\ position'[p] \in 1 .. Len(log'[p]) + 1
           /\ pending'[p] \subseteq DOMAIN log'[p]
           /\ completed'[p] \subseteq pending'[p]
           /\ lastSeen'[p] \in 0 .. Len(log'[p])
    BY <1>1 DEF TrackerOf
  <2>. QED
    BY <1>2, <2>2, <2>3, <2>4, <2>5 DEF TypeOK
<1>4. Tracked'
  BY <1>1 DEF Tracked, TrackerOf
<1>. QED
  BY <1>1, <1>3, <1>4, LogTyped DEF Typed, IInv, WorkTyped, NumbersTyped

-----------------------------------------------------------------------------
(* A process that is down, a loop that has no record *)

LEMMA RecordsAreSome == \A r \in Records : r # NoRecord
  BY DEF Records, NoRecord

LEMMA RestingStep ==
    ASSUME IInv, [Next]_vars
    PROVE  Resting'
<1>0. Resting /\ Typed
  BY DEF IInv
<1>1. CASE Stop
  BY <1>1 DEF Stop, Resting, Idle
<1>2. ASSUME up' = up, up, main'.at \in {"submit", "quarantine"} <=> main'.record # NoRecord
      PROVE  Resting'
  BY <1>2 DEF Resting
<1>3. CASE main' = main /\ up' = up /\ up
  BY <1>0, <1>2, <1>3 DEF Resting
<1>4. CASE main' = Idle /\ up' = up /\ up
  BY <1>2, <1>4 DEF Idle
<1>5. CASE Drain
  <2>1. /\ Head(completions).record \in Records /\ Unfinished(Head(completions).record)
        /\ up /\ completions # <<>>
    BY <1>5, HeadIsUnfinished DEF Drain
  <2>2. CASE Complete(Head(completions).record, main, Tail(completions))
    BY <1>0, <1>1, <1>3, <2>1, <2>2, CompleteEnds DEF IInv, GoesOn, StopsAfter
  <2>. QED
    BY <1>1, <1>5, <2>2 DEF Drain
<1>6. CASE Quarantine
  <2>1. main.record \in Records /\ Unfinished(main.record) /\ up
    BY <1>6, MainIsUnfinished DEF Quarantine
  <2>2. Complete(main.record, Idle, completions)
    BY <1>6 DEF Quarantine
  <2>. QED
    BY <1>1, <1>4, <2>1, <2>2, CompleteEnds DEF IInv, GoesOn, StopsAfter
<1>7. ASSUME NEW p \in Partitions, Poll(p)
      PROVE  Resting'
  <2>1. position[p] \in Offsets /\ <<p, position[p]>> \in Records
    BY <1>7, FetchedIsRecord DEF Poll
  <2>2. CASE up' = up /\ \E at \in {"quarantine", "submit"} :
                             main' = [at |-> at, record |-> <<p, position[p]>>]
    <3>1. main'.at \in {"submit", "quarantine"} /\ main'.record # NoRecord
      BY <2>1, <2>2, RecordsAreSome
    <3>. QED
      BY <1>2, <1>7, <2>2, <3>1 DEF Poll
  <2>. QED
    BY <1>1, <1>7, <2>2 DEF Poll
<1>8. CASE Drained
  <2>1. main'.at = "poll" /\ main'.record = main.record /\ main.at = "drain" /\ up /\ up' = up
    BY <1>0, <1>8 DEF Drained, Typed
  <2>. QED
    BY <1>0, <1>2, <2>1 DEF Resting
<1>9. CASE Restart
  <2>1. main' = main /\ up'
    BY <1>9 DEF Restart
  <2>. QED
    BY <1>0, <2>1 DEF Resting
<1>10. CASE UNCHANGED <<pending, completed, lastSeen, main, workers, up>>
  BY <1>0, <1>10 DEF Resting, workers
<1>11. ASSUME NEW t \in running, StepConfirmed(t) \/ StepFails(t) \/ Finished(t)
       PROVE  Resting'
  <2>1. main' = main /\ up' = up
    BY <1>11 DEF StepConfirmed, StepFails, Finished
  <2>2. up
    BY <1>0 DEF Resting, Typed, TypeOK
  <2>. QED
    BY <1>3, <2>1, <2>2
<1>12. CASE Start
  BY <1>3, <1>12 DEF Start
<1>. QED
  BY <1>1, <1>4, <1>5, <1>6, <1>7, <1>8, <1>9, <1>10, <1>11, <1>12
     DEF Next, Publish, Apply, Delete, PollNothing, QuarantineFails, Submit, StepStored, Crash,
         Reassign, vars, tracker

-----------------------------------------------------------------------------
(* Where the records are *)

LEMMA BacklogTaken ==
    ASSUME IInv, backlog # <<>>, backlog' = Tail(backlog)
    PROVE  /\ Head(backlog) \in Records /\ AtBacklog(Head(backlog))
           /\ \A i, j \in DOMAIN backlog' : backlog'[i] = backlog'[j] => i = j
           /\ \A r : AtBacklog(r)' <=> AtBacklog(r) /\ r # Head(backlog)
<1>1. backlog \in Seq(Records)
  BY DEF IInv, Typed
<1>2. /\ 1 \in DOMAIN backlog /\ Head(backlog) = backlog[1] /\ Head(backlog) \in Records
      /\ \A i \in DOMAIN Tail(backlog) :
            i # 0 /\ i + 1 \in DOMAIN backlog /\ Tail(backlog)[i] = backlog[i + 1]
      /\ \A j \in DOMAIN backlog : j # 1 =>
            j - 1 \in DOMAIN Tail(backlog) /\ Tail(backlog)[j - 1] = backlog[j]
  BY <1>1, TailElements
<1>3. DOMAIN Tail(backlog) \subseteq Nat
  BY <1>1
<1>4. \A i, j \in DOMAIN backlog : backlog[i] = backlog[j] => i = j
  BY DEF IInv, Placed, NoneTwice
<1>5. ASSUME NEW i \in DOMAIN backlog', NEW j \in DOMAIN backlog', backlog'[i] = backlog'[j]
      PROVE  i = j
  <2>1. i \in Nat /\ j \in Nat
    BY <1>3
  <2>2. i + 1 = j + 1
    BY <1>2, <1>4, <1>5
  <2>. QED
    BY <2>1, <2>2
<1>6. ASSUME NEW r
      PROVE  AtBacklog(r)' <=> AtBacklog(r) /\ r # Head(backlog)
  <2>1. ASSUME NEW i \in DOMAIN backlog', backlog'[i] = r
        PROVE  AtBacklog(r) /\ r # Head(backlog)
    <3>1. i \in Nat /\ i # 0 /\ i + 1 \in DOMAIN backlog /\ backlog[i + 1] = r
      BY <1>2, <1>3, <2>1
    <3>2. i + 1 # 1
      BY <3>1
    <3>. QED
      BY <1>2, <1>4, <3>1, <3>2 DEF AtBacklog
  <2>2. ASSUME NEW j \in DOMAIN backlog, backlog[j] = r, r # Head(backlog)
        PROVE  AtBacklog(r)'
    <3>1. j - 1 \in DOMAIN backlog' /\ backlog'[j - 1] = r
      BY <1>2, <2>2
    <3>. QED
      BY <3>1 DEF AtBacklog
  <2>. QED
    BY <2>1, <2>2 DEF AtBacklog
<1>. QED
  BY <1>2, <1>5, <1>6 DEF AtBacklog

LEMMA BacklogGrown ==
    ASSUME IInv, NEW x \in Records, ~AtBacklog(x), backlog' = Append(backlog, x)
    PROVE  /\ \A i, j \in DOMAIN backlog' : backlog'[i] = backlog'[j] => i = j
           /\ \A r : AtBacklog(r)' <=> AtBacklog(r) \/ r = x
<1>1. backlog \in Seq(Records)
  BY DEF IInv, Typed
<1>2. /\ DOMAIN backlog' = DOMAIN backlog \cup {Len(backlog) + 1}
      /\ Len(backlog) + 1 \notin DOMAIN backlog
      /\ backlog'[Len(backlog) + 1] = x
      /\ \A i \in DOMAIN backlog : backlog'[i] = backlog[i]
  BY <1>1, AppendElements
<1>3. \A i, j \in DOMAIN backlog : backlog[i] = backlog[j] => i = j
  BY DEF IInv, Placed, NoneTwice
<1>. QED
  BY <1>2, <1>3 DEF AtBacklog

LEMMA EndTaken ==
    ASSUME IInv, completions # <<>>, completions' = Tail(completions)
    PROVE  /\ Head(completions).record \in Records /\ AtEnd(Head(completions).record)
           /\ \A i, j \in DOMAIN completions' :
                 completions'[i].record = completions'[j].record => i = j
           /\ \A r : AtEnd(r)' <=> AtEnd(r) /\ r # Head(completions).record
<1>1. completions \in Seq([record : Records, ok : BOOLEAN])
  BY DEF IInv, Typed
<1>2. /\ 1 \in DOMAIN completions /\ Head(completions) = completions[1]
      /\ Head(completions) \in [record : Records, ok : BOOLEAN]
      /\ \A i \in DOMAIN Tail(completions) :
            i # 0 /\ i + 1 \in DOMAIN completions /\ Tail(completions)[i] = completions[i + 1]
      /\ \A j \in DOMAIN completions : j # 1 =>
            j - 1 \in DOMAIN Tail(completions) /\ Tail(completions)[j - 1] = completions[j]
  BY <1>1, TailElements
<1>3. DOMAIN Tail(completions) \subseteq Nat
  BY <1>1
<1>4. \A i, j \in DOMAIN completions : completions[i].record = completions[j].record => i = j
  BY DEF IInv, Placed, NoneTwice
<1>5. ASSUME NEW i \in DOMAIN completions', NEW j \in DOMAIN completions',
             completions'[i].record = completions'[j].record
      PROVE  i = j
  <2>1. i \in Nat /\ j \in Nat
    BY <1>3
  <2>2. i + 1 = j + 1
    BY <1>2, <1>4, <1>5
  <2>. QED
    BY <2>1, <2>2
<1>6. ASSUME NEW r
      PROVE  AtEnd(r)' <=> AtEnd(r) /\ r # Head(completions).record
  <2>1. ASSUME NEW i \in DOMAIN completions', completions'[i].record = r
        PROVE  AtEnd(r) /\ r # Head(completions).record
    <3>1. i \in Nat /\ i # 0 /\ i + 1 \in DOMAIN completions /\ completions[i + 1].record = r
      BY <1>2, <1>3, <2>1
    <3>2. i + 1 # 1
      BY <3>1
    <3>. QED
      BY <1>2, <1>4, <3>1, <3>2 DEF AtEnd
  <2>2. ASSUME NEW j \in DOMAIN completions, completions[j].record = r,
               r # Head(completions).record
        PROVE  AtEnd(r)'
    <3>1. j - 1 \in DOMAIN completions' /\ completions'[j - 1].record = r
      BY <1>2, <2>2
    <3>. QED
      BY <3>1 DEF AtEnd
  <2>. QED
    BY <2>1, <2>2 DEF AtEnd
<1>. QED
  BY <1>2, <1>5, <1>6 DEF AtEnd

LEMMA EndGrown ==
    ASSUME IInv, NEW x \in Records, NEW ok \in BOOLEAN, ~AtEnd(x), Finish(x, ok)
    PROVE  /\ \A i, j \in DOMAIN completions' :
                 completions'[i].record = completions'[j].record => i = j
           /\ \A r : AtEnd(r)' <=> AtEnd(r) \/ r = x
<1>. DEFINE e == [record |-> x, ok |-> ok]
<1>1. completions \in Seq([record : Records, ok : BOOLEAN])
  BY DEF IInv, Typed
<1>2. /\ DOMAIN completions' = DOMAIN completions \cup {Len(completions) + 1}
      /\ Len(completions) + 1 \notin DOMAIN completions
      /\ completions'[Len(completions) + 1] = e
      /\ \A i \in DOMAIN completions : completions'[i] = completions[i]
  <2>1. e \in [record : Records, ok : BOOLEAN] /\ completions' = Append(completions, e)
    BY DEF Finish
  <2>. HIDE DEF e
  <2>. QED
    BY <1>1, <2>1, AppendElements
<1>3. \A i, j \in DOMAIN completions : completions[i].record = completions[j].record => i = j
  BY DEF IInv, Placed, NoneTwice
<1>. QED
  BY <1>2, <1>3 DEF AtEnd

(* Finishing a record makes it the one record that is unfinished no more.  *)
LEMMA UnfinishedLess ==
    ASSUME IInv, NEW x \in Records, Unfinished(x), NEW m, NEW cs, GoesOn(x, m, cs)
    PROVE  \A r \in Records : Unfinished(r)' <=> Unfinished(r) /\ r # x
<1>1. /\ x[1] \in Partitions
      /\ pending[x[1]] \ Leaving(x) = NextCommit(x) .. lastSeen[x[1]]
      /\ Leaving(x) \subseteq FinishedWith(x)
  BY PassedIsPrefix DEF IInv
<1>2. /\ pending' = [pending EXCEPT ![x[1]] = NextCommit(x) .. lastSeen[x[1]]]
      /\ completed' = [completed EXCEPT ![x[1]] = FinishedWith(x) \ Leaving(x)]
      /\ pending \in [Partitions -> SUBSET Nat] /\ completed \in [Partitions -> SUBSET Nat]
  BY DEF GoesOn, IInv, Typed
<1>3. ASSUME NEW r \in Records
      PROVE  Unfinished(r)' <=> Unfinished(r) /\ r # x
  <2>1. r[1] \in Partitions /\ (r = x <=> r[1] = x[1] /\ r[2] = x[2])
    BY DEF Records
  <2>2. CASE r[1] = x[1]
    <3>1. /\ pending'[r[1]] = pending[x[1]] \ Leaving(x)
          /\ completed'[r[1]] = FinishedWith(x) \ Leaving(x)
      BY <1>1, <1>2, <2>2
    <3>2. Unfinished(r)' <=> r[2] \in pending[x[1]] /\ r[2] \notin FinishedWith(x)
      BY <1>1, <3>1 DEF Unfinished
    <3>. QED
      BY <2>1, <2>2, <3>2 DEF Unfinished, FinishedWith
  <2>3. CASE r[1] # x[1]
    BY <1>2, <2>1, <2>3 DEF Unfinished
  <2>. QED
    BY <2>2, <2>3
<1>. QED
  BY <1>3

(* Each step moves a record from one place to the next.                    *)
LEMMA PlacedStep ==
    ASSUME IInv, [Next]_vars
    PROVE  Placed'
<1>0. NoneTwice /\ (\A r \in Records : OnePlace(r)) /\ Typed /\ Resting
  BY DEF IInv, Placed
<1>1. CASE UNCHANGED <<pending, completed, main, workers>>
  BY <1>0, <1>1 DEF Placed, NoneTwice, OnePlace, InProcess, AtMain, AtBacklog, AtWorker, AtEnd,
                    Unfinished, workers
<1>2. CASE Stop
  <2>1. NoneTwice'
    BY <1>2 DEF Stop, NoneTwice
  <2>2. ASSUME NEW r \in Records
        PROVE  OnePlace(r)'
    <3>1. ~AtMain(r)'
      BY <1>2, RecordsAreSome DEF Stop, Idle, AtMain
    <3>2. ~AtBacklog(r)' /\ ~AtWorker(r)' /\ ~AtEnd(r)'
      BY <1>2 DEF Stop, AtBacklog, AtWorker, AtEnd
    <3>3. ~Unfinished(r)'
      BY <1>2 DEF Stop, Unfinished, Records
    <3>. QED
      BY <3>1, <3>2, <3>3 DEF OnePlace, InProcess
  <2>. QED
    BY <2>1, <2>2 DEF Placed
<1>3. CASE Drain
  <2>. DEFINE x == Head(completions).record
  <2>1. x \in Records /\ Unfinished(x) /\ completions # <<>>
    BY <1>3, HeadIsUnfinished DEF Drain
  <2>2. CASE GoesOn(x, main, Tail(completions))
    <3>1. UNCHANGED <<main, backlog, running>> /\ completions' = Tail(completions)
      BY <2>2 DEF GoesOn
    <3>2. /\ AtEnd(x)
          /\ \A i, j \in DOMAIN completions' :
                completions'[i].record = completions'[j].record => i = j
          /\ \A r : AtEnd(r)' <=> AtEnd(r) /\ r # x
      BY <2>1, <3>1, EndTaken
    <3>3. \A r \in Records : Unfinished(r)' <=> Unfinished(r) /\ r # x
      BY <2>1, <2>2, UnfinishedLess
    <3>4. NoneTwice'
      BY <1>0, <3>1, <3>2 DEF NoneTwice
    <3>5. \A r : /\ AtMain(r)' <=> AtMain(r)
                 /\ AtBacklog(r)' <=> AtBacklog(r)
                 /\ AtWorker(r)' <=> AtWorker(r)
      BY <3>1 DEF AtMain, AtBacklog, AtWorker
    <3>. HIDE DEF x
    <3>6. ASSUME NEW r \in Records
          PROVE  OnePlace(r)'
      BY <1>0, <2>1, <3>2, <3>3, <3>5 DEF OnePlace, InProcess
    <3>. QED
      BY <3>4, <3>6 DEF Placed
  <2>3. CASE Complete(x, main, Tail(completions))
    BY <1>2, <2>1, <2>2, <2>3, CompleteEnds DEF IInv, StopsAfter
  <2>. QED
    BY <1>2, <1>3, <2>3 DEF Drain
<1>4. CASE Quarantine
  <2>1. main.record \in Records /\ Unfinished(main.record)
    BY <1>4, MainIsUnfinished DEF Quarantine
  <2>2. CASE GoesOn(main.record, Idle, completions)
    <3>1. UNCHANGED <<backlog, running, completions>> /\ main' = Idle
      BY <2>2 DEF GoesOn
    <3>2. \A r \in Records : ~AtMain(r)'
      BY <3>1, RecordsAreSome DEF Idle, AtMain
    <3>3. \A r \in Records : Unfinished(r)' <=> Unfinished(r) /\ r # main.record
      BY <2>1, <2>2, UnfinishedLess
    <3>4. NoneTwice'
      BY <1>0, <3>1 DEF NoneTwice
    <3>5. \A r : /\ AtBacklog(r)' <=> AtBacklog(r)
                 /\ AtWorker(r)' <=> AtWorker(r)
                 /\ AtEnd(r)' <=> AtEnd(r)
      BY <3>1 DEF AtEnd, AtBacklog, AtWorker
    <3>6. ASSUME NEW r \in Records
          PROVE  OnePlace(r)'
      BY <1>0, <2>1, <3>2, <3>3, <3>5 DEF OnePlace, InProcess, AtMain
    <3>. QED
      BY <3>4, <3>6 DEF Placed
  <2>3. Complete(main.record, Idle, completions)
    BY <1>4 DEF Quarantine
  <2>. QED
    BY <1>2, <2>1, <2>2, <2>3, CompleteEnds DEF IInv, StopsAfter
<1>5. CASE main' = Idle /\ main.record = NoRecord /\ UNCHANGED <<pending, completed, workers>>
  <2>1. \A r : AtMain(r)' <=> AtMain(r)
    BY <1>5 DEF Idle, AtMain
  <2>2. \A r : /\ AtBacklog(r)' <=> AtBacklog(r)
               /\ AtWorker(r)' <=> AtWorker(r)
               /\ AtEnd(r)' <=> AtEnd(r)
               /\ Unfinished(r)' <=> Unfinished(r)
    BY <1>5 DEF AtEnd, AtBacklog, AtWorker, Unfinished, workers
  <2>. QED
    BY <1>0, <1>5, <2>1, <2>2 DEF Placed, NoneTwice, OnePlace, InProcess, workers
<1>6. CASE Drained
  <2>1. main'.record = main.record
    BY <1>0, <1>6 DEF Drained, Typed
  <2>2. \A r : /\ AtMain(r)' <=> AtMain(r)
               /\ AtBacklog(r)' <=> AtBacklog(r)
               /\ AtWorker(r)' <=> AtWorker(r)
               /\ AtEnd(r)' <=> AtEnd(r)
               /\ Unfinished(r)' <=> Unfinished(r)
    BY <1>6, <2>1 DEF Drained, AtMain, AtEnd, AtBacklog, AtWorker, Unfinished, workers, tracker
  <2>. QED
    BY <1>0, <1>6, <2>2 DEF Drained, Placed, NoneTwice, OnePlace, InProcess, workers
<1>7. ASSUME NEW p \in Partitions, Registers(p)
      PROVE  Placed'
  <2>. DEFINE n == position[p]
              x == <<p, n>>
  <2>1. /\ n > lastSeen[p] /\ main'.record = x /\ x \in Records /\ main.record = NoRecord
        /\ pending' = [pending EXCEPT ![p] = @ \cup {n}]
        /\ UNCHANGED <<completed, workers>>
    <3>1. main.at = "poll" /\ n <= Len(log[p])
      BY <1>7 DEF Registers, Poll
    <3>. QED
      BY <1>0, <1>7, <3>1, FetchedIsRecord DEF Registers, Resting
  <2>2. n \notin pending[p] /\ n \notin completed[p]
    <3>1. TrackerOf(p) /\ NumbersTyped
      BY TrackerKnown
    <3>2. n \in Nat /\ lastSeen[p] \in Nat /\ committed[p] \in Nat
      BY <3>1 DEF NumbersTyped
    <3>3. n \notin pending[p]
      BY <2>1, <3>1, <3>2 DEF TrackerOf
    <3>. QED
      BY <3>1, <3>3 DEF TrackerOf
  <2>3. \A r \in Records : Unfinished(r)' <=> Unfinished(r) \/ r = x
    <3>1. ASSUME NEW r \in Records
          PROVE  Unfinished(r)' <=> Unfinished(r) \/ r = x
      <4>1. r[1] \in Partitions /\ (r = x <=> r[1] = p /\ r[2] = n)
        BY DEF Records
      <4>2. pending \in [Partitions -> SUBSET Nat] /\ completed' = completed
        BY <1>0, <2>1 DEF Typed
      <4>. HIDE DEF n, x
      <4>3. CASE r[1] = p
        BY <2>1, <2>2, <4>1, <4>2, <4>3 DEF Unfinished
      <4>4. CASE r[1] # p
        BY <2>1, <4>1, <4>2, <4>4 DEF Unfinished
      <4>. QED
        BY <4>3, <4>4
    <3>. QED
      BY <3>1
  <2>4. ~Unfinished(x)
    BY <2>2 DEF Unfinished
  <2>5. \A r : /\ AtBacklog(r)' <=> AtBacklog(r)
               /\ AtWorker(r)' <=> AtWorker(r)
               /\ AtEnd(r)' <=> AtEnd(r)
    BY <2>1 DEF AtEnd, AtBacklog, AtWorker, workers
  <2>6. \A r \in Records : ~AtMain(r) /\ (AtMain(r)' <=> r = x)
    BY <2>1, RecordsAreSome DEF AtMain
  <2>7. NoneTwice'
    BY <1>0, <2>1 DEF NoneTwice, workers
  <2>. HIDE DEF x, n
  <2>8. ASSUME NEW r \in Records
        PROVE  OnePlace(r)'
    BY <1>0, <2>3, <2>4, <2>5, <2>6 DEF OnePlace, InProcess
  <2>. QED
    BY <2>7, <2>8 DEF Placed
<1>8. CASE Submit
  <2>. DEFINE x == main.record
  <2>1. x \in Records /\ AtMain(x)
    BY <1>8, MainIsUnfinished DEF Submit, AtMain
  <2>2. backlog' = Append(backlog, x) /\ main' = Idle /\ UNCHANGED <<pending, completed, running, completions>>
    BY <1>8 DEF Submit, tracker
  <2>3. /\ \A i, j \in DOMAIN backlog' : backlog'[i] = backlog'[j] => i = j
        /\ \A r : AtBacklog(r)' <=> AtBacklog(r) \/ r = x
    <3>1. ~AtBacklog(x)
      BY <1>0, <2>1 DEF OnePlace
    <3>. QED
      BY <2>1, <2>2, <3>1, BacklogGrown
  <2>4. \A r : /\ AtWorker(r)' <=> AtWorker(r)
               /\ AtEnd(r)' <=> AtEnd(r)
               /\ Unfinished(r)' <=> Unfinished(r)
    BY <2>2 DEF AtEnd, AtWorker, Unfinished
  <2>5. \A r \in Records : ~AtMain(r)' /\ (AtMain(r) <=> r = x)
    BY <2>2, RecordsAreSome DEF AtMain, Idle
  <2>6. NoneTwice'
    BY <1>0, <2>2, <2>3 DEF NoneTwice
  <2>. HIDE DEF x
  <2>7. ASSUME NEW r \in Records
        PROVE  OnePlace(r)'
    BY <1>0, <2>3, <2>4, <2>5 DEF OnePlace, InProcess
  <2>. QED
    BY <2>6, <2>7 DEF Placed
<1>9. CASE Start
  <2>. DEFINE x == Head(backlog)
  <2>1. backlog # <<>> /\ backlog' = Tail(backlog) /\ UNCHANGED <<pending, completed, main>>
    BY <1>9 DEF Start, tracker
  <2>2. /\ x \in Records /\ AtBacklog(x)
        /\ \A i, j \in DOMAIN backlog' : backlog'[i] = backlog'[j] => i = j
        /\ \A r : AtBacklog(r)' <=> AtBacklog(r) /\ r # x
    BY <2>1, BacklogTaken
  <2>3. ~AtWorker(x) /\ ~AtEnd(x) /\ ~AtMain(x)
    BY <1>0, <2>2 DEF OnePlace
  <2>4. \A r : (AtMain(r)' <=> AtMain(r)) /\ (Unfinished(r)' <=> Unfinished(r))
    BY <2>1 DEF AtMain, Unfinished
  <2>5. \/ /\ \E n : running' = running \cup {[record |-> x, next |-> n]}
           /\ completions' = completions
        \/ Finish(x, FALSE) /\ running' = running
    BY <1>9 DEF Start
  <2>. HIDE DEF x
  <2>6. ASSUME NEW n, running' = running \cup {[record |-> x, next |-> n]},
               completions' = completions
        PROVE  Placed'
    <3>1. \A r : AtWorker(r)' <=> AtWorker(r) \/ r = x
      <4>. DEFINE u == [record |-> x, next |-> n]
      <4>1. running' = running \cup {u} /\ u.record = x
        BY <2>6
      <4>. HIDE DEF u
      <4>. QED
        BY <4>1 DEF AtWorker
    <3>2. \A r : AtEnd(r)' <=> AtEnd(r)
      BY <2>6 DEF AtEnd
    <3>3. \A t, u \in running' : t.record = u.record => t = u
      BY <1>0, <2>3, <2>6 DEF NoneTwice, AtWorker
    <3>4. NoneTwice'
      BY <1>0, <2>2, <2>6, <3>3 DEF NoneTwice
    <3>5. ASSUME NEW r \in Records
          PROVE  OnePlace(r)'
      BY <1>0, <2>2, <2>3, <2>4, <3>1, <3>2 DEF OnePlace, InProcess
    <3>. QED
      BY <3>4, <3>5 DEF Placed
  <2>7. CASE Finish(x, FALSE) /\ running' = running
    <3>1. /\ \A i, j \in DOMAIN completions' :
                completions'[i].record = completions'[j].record => i = j
          /\ \A r : AtEnd(r)' <=> AtEnd(r) \/ r = x
      BY <2>2, <2>3, <2>7, EndGrown
    <3>2. \A r : AtWorker(r)' <=> AtWorker(r)
      BY <2>7 DEF AtWorker
    <3>3. NoneTwice'
      BY <1>0, <2>2, <2>7, <3>1 DEF NoneTwice
    <3>4. ASSUME NEW r \in Records
          PROVE  OnePlace(r)'
      BY <1>0, <2>2, <2>3, <2>4, <3>1, <3>2 DEF OnePlace, InProcess
    <3>. QED
      BY <3>3, <3>4 DEF Placed
  <2>. QED
    BY <2>5, <2>6, <2>7
<1>10. ASSUME NEW t \in running, StepConfirmed(t)
       PROVE  Placed'
  <2>. DEFINE u == [t EXCEPT !.next = @ + 1]
  <2>1. t \in [record : Records, next : 1 .. Steps + 1]
    BY <1>0 DEF Typed, TypeOK
  <2>2. u.record = t.record
    BY <2>1
  <2>3. /\ running' = (running \ {t}) \cup {u}
        /\ UNCHANGED <<pending, completed, main, backlog, completions>>
    BY <1>10 DEF StepConfirmed, tracker
  <2>. HIDE DEF u
  <2>4. \A r : AtWorker(r)' <=> AtWorker(r)
    BY <2>2, <2>3 DEF AtWorker
  <2>5. \A r : /\ AtMain(r)' <=> AtMain(r)
               /\ AtBacklog(r)' <=> AtBacklog(r)
               /\ AtEnd(r)' <=> AtEnd(r)
               /\ Unfinished(r)' <=> Unfinished(r)
    BY <2>3 DEF AtMain, AtBacklog, AtEnd, Unfinished
  <2>6. \A v, w \in running' : v.record = w.record => v = w
    BY <1>0, <2>2, <2>3 DEF NoneTwice
  <2>7. NoneTwice'
    BY <1>0, <2>3, <2>6 DEF NoneTwice
  <2>. QED
    BY <1>0, <2>4, <2>5, <2>7 DEF Placed, OnePlace, InProcess
<1>11. ASSUME NEW t \in running, StepFails(t) \/ Finished(t)
       PROVE  Placed'
  <2>. DEFINE x == t.record
  <2>1. x \in Records /\ AtWorker(x)
    BY <1>0 DEF Typed, TypeOK, AtWorker
  <2>2. /\ running' = running \ {t} /\ UNCHANGED <<pending, completed, main, backlog>>
        /\ Finish(x, TRUE) \/ Finish(x, FALSE)
    BY <1>11 DEF StepFails, Finished, tracker
  <2>3. ~AtEnd(x)
    BY <1>0, <2>1 DEF OnePlace
  <2>4. \A r : AtWorker(r)' <=> AtWorker(r) /\ r # x
    BY <1>0, <2>2 DEF AtWorker, NoneTwice
  <2>. HIDE DEF x
  <2>5. /\ \A i, j \in DOMAIN completions' :
              completions'[i].record = completions'[j].record => i = j
        /\ \A r : AtEnd(r)' <=> AtEnd(r) \/ r = x
    BY <2>1, <2>2, <2>3, EndGrown
  <2>6. \A r : /\ AtMain(r)' <=> AtMain(r)
               /\ AtBacklog(r)' <=> AtBacklog(r)
               /\ Unfinished(r)' <=> Unfinished(r)
    BY <2>2 DEF AtMain, AtBacklog, Unfinished
  <2>7. NoneTwice'
    BY <1>0, <2>2, <2>5 DEF NoneTwice
  <2>8. ASSUME NEW r \in Records
        PROVE  OnePlace(r)'
    BY <1>0, <2>1, <2>4, <2>5, <2>6 DEF OnePlace, InProcess
  <2>. QED
    BY <2>7, <2>8 DEF Placed
<1>12. ASSUME NEW p \in Partitions, Poll(p)
       PROVE  Stop \/ Registers(p)
  BY <1>12, PollEnds
<1>13. CASE PollNothing
  BY <1>0, <1>5, <1>13 DEF PollNothing, Resting, tracker
<1>. QED
  BY <1>1, <1>2, <1>3, <1>4, <1>6, <1>7, <1>8, <1>9, <1>10, <1>11, <1>12, <1>13
     DEF Next, Publish, Apply, Delete, QuarantineFails, StepStored, Crash, Restart, Reassign,
         vars, tracker

-----------------------------------------------------------------------------
(* What is done *)

LEMMA InProcessIsLogged ==
    ASSUME IInv, NEW r \in Records, InProcess(r)
    PROVE  r[2] \in DOMAIN log[r[1]]
<1>1. r[1] \in Partitions /\ r[2] \in pending[r[1]]
  BY DEF Records, IInv, Placed, OnePlace, Unfinished
<1>. QED
  BY <1>1 DEF IInv, Typed, TypeOK

LEMMA LoggedIsRecord ==
    ASSUME IInv, NEW p \in Partitions, NEW n \in DOMAIN log[p]
    PROVE  <<p, n>> \in Records
<1>1. Len(log[p]) \in Nat /\ Len(log[p]) <= MaxRecords /\ DOMAIN log[p] = 1 .. Len(log[p])
  BY DEF IInv, Typed, TypeOK
<1>. QED
  BY <1>1, SimulatorAssumption DEF Records, Offsets

(* A record is counted as finished when it is done: its simulation has     *)
(* published every step, or its copy is in the dead letter topic.          *)
LEMMA CompletedIsDone ==
    ASSUME IInv, [Next]_vars
    PROVE  \/ UNCHANGED <<committed, completed>>
           \/ committed' = committed /\ \A p \in Partitions : completed'[p] = {}
           \/ \E r \in Records :
                 /\ Unfinished(r) /\ Done(r)'
                 /\ committed' \in {committed, [committed EXCEPT ![r[1]] = NextCommit(r)]}
                 /\ \/ completed' = [completed EXCEPT ![r[1]] = FinishedWith(r) \ Leaving(r)]
                    \/ \A p \in Partitions : completed'[p] = {}
<1>1. CASE Drain
  <2>1. /\ Head(completions).record \in Records /\ Unfinished(Head(completions).record)
        /\ 1 \in DOMAIN completions /\ Head(completions) = completions[1]
    BY <1>1, HeadIsUnfinished DEF Drain
  <2>2. CASE Head(completions).ok /\ Complete(Head(completions).record, main, Tail(completions))
    <3>1. PICK x \in Records : x = Head(completions).record
      BY <2>1
    <3>2. Done(x) /\ InProcess(x) /\ Unfinished(x)
      BY <2>1, <2>2, <3>1 DEF IInv, Finishes, InProcess, AtEnd
    <3>3. Done(x)'
      BY <3>2, InProcessIsLogged, DoneStays DEF IInv
    <3>4. GoesOn(x, main, Tail(completions)) \/ StopsAfter(x)
      BY <2>2, <3>1, <3>2, CompleteEnds DEF IInv
    <3>. QED
      BY <3>2, <3>3, <3>4 DEF GoesOn, StopsAfter, Stop
  <2>. QED
    BY <1>1, <2>2 DEF Drain, Stop
<1>2. CASE Quarantine
  <2>1. main.record \in Records /\ Unfinished(main.record) /\ InProcess(main.record)
    BY <1>2, MainIsUnfinished DEF Quarantine, InProcess, AtMain
  <2>2. PICK x \in Records : x = main.record /\ Unfinished(x) /\ InProcess(x)
    BY <2>1
  <2>3. Event(x) = Poison
    BY <1>2, <2>2 DEF Quarantine, IInv, Finishes, MainKind
  <2>4. x \in quarantined' /\ Complete(x, Idle, completions)
    BY <1>2, <2>2 DEF Quarantine
  <2>5. Event(x)' = Event(x)
    BY <2>2, InProcessIsLogged, DoneStays DEF IInv
  <2>6. Done(x)'
    BY <2>3, <2>4, <2>5 DEF Done
  <2>7. GoesOn(x, Idle, completions) \/ StopsAfter(x)
    BY <2>2, <2>4, CompleteEnds DEF IInv
  <2>. QED
    BY <2>2, <2>6, <2>7 DEF GoesOn, StopsAfter, Stop
<1>3. CASE Stop /\ committed' = committed
  BY <1>3 DEF Stop
<1>4. ASSUME NEW p \in Partitions, Poll(p)
      PROVE  (Stop /\ committed' = committed) \/ UNCHANGED <<committed, completed>>
  BY <1>4, PollEnds DEF Registers
<1>. QED
  BY <1>1, <1>2, <1>3, <1>4
     DEF Next, Publish, Apply, Delete, Drained, PollNothing, QuarantineFails, Submit, Start,
         StepStored, StepConfirmed, StepFails, Finished, Crash, Restart, Reassign, kafka,
         tracker, vars

(* What the tracker counts as finished, and what the commit has passed.    *)
LEMMA FinishedStep ==
    ASSUME IInv, [Next]_vars
    PROVE  /\ \A p \in Partitions : \A n \in completed'[p] : Done(<<p, n>>)'
           /\ NothingPassedOver'
<1>1. \A p \in Partitions : \A n \in DOMAIN log[p] : Done(<<p, n>>) => Done(<<p, n>>)'
  <2>. TAKE p \in Partitions
  <2>. TAKE n \in DOMAIN log[p]
  <2>1. <<p, n>> \in Records /\ <<p, n>>[1] = p /\ <<p, n>>[2] = n
    BY LoggedIsRecord
  <2>. QED
    BY <2>1, DoneStays DEF IInv
<1>2. \A p \in Partitions : /\ completed[p] \subseteq DOMAIN log[p] /\ completed[p] \subseteq Nat
                            /\ \A n \in completed[p] : Done(<<p, n>>)
  BY DEF IInv, Typed, TypeOK, Finishes
<1>3. \A p \in Partitions : \A n \in completed[p] : Done(<<p, n>>)'
  BY <1>1, <1>2
<1>4. ASSUME NEW p \in Partitions, NEW n \in DOMAIN log'[p], n < committed[p]
      PROVE  Done(<<p, n>>)'
  <2>1. /\ Len(log[p]) \in Nat /\ DOMAIN log[p] = 1 .. Len(log[p])
        /\ committed[p] \in 1 .. Len(log[p]) + 1
    BY DEF IInv, Typed, TypeOK
  <2>2. n \in Nat /\ n >= 1
    BY LogTyped DEF IInv
  <2>3. n \in DOMAIN log[p]
    BY <1>4, <2>1, <2>2
  <2>. QED
    BY <1>1, <1>4, <2>3 DEF IInv, NothingPassedOver
<1>5. ASSUME NEW r \in Records, Unfinished(r), Done(r)'
      PROVE  /\ r[1] \in Partitions
             /\ \A n \in FinishedWith(r) : Done(<<r[1], n>>)'
             /\ \A n \in Nat : n < NextCommit(r) => n < committed[r[1]] \/ n \in FinishedWith(r)
  <2>1. /\ r[1] \in Partitions /\ NextCommit(r) \in Nat
        /\ Leaving(r) = committed[r[1]] .. (NextCommit(r) - 1)
        /\ Leaving(r) \subseteq FinishedWith(r)
    BY <1>5, PassedIsPrefix DEF IInv
  <2>2. <<r[1], r[2]>> = r
    BY DEF Records
  <2>3. \A n \in FinishedWith(r) : Done(<<r[1], n>>)'
    BY <1>3, <1>5, <2>1, <2>2 DEF FinishedWith
  <2>4. committed[r[1]] \in Nat
    BY <2>1 DEF IInv, Typed
  <2>5. \A n \in Nat : n < NextCommit(r) => n < committed[r[1]] \/ n \in Leaving(r)
    BY <2>1, <2>4
  <2>. QED
    BY <2>1, <2>3, <2>5
<1>6. \A p \in Partitions : DOMAIN log'[p] \subseteq Nat
  BY LogTyped DEF IInv
<1>7. ASSUME committed' = committed
      PROVE  NothingPassedOver'
  <2>1. ASSUME NEW p \in Partitions, NEW n \in DOMAIN log'[p], n < committed'[p]
        PROVE  Done(<<p, n>>)'
    BY <1>4, <1>7, <2>1
  <2>. QED
    BY <2>1 DEF NothingPassedOver
<1>8. ASSUME NEW r \in Records, Unfinished(r), Done(r)',
             committed' = [committed EXCEPT ![r[1]] = NextCommit(r)]
      PROVE  NothingPassedOver'
  <2>1. ASSUME NEW p \in Partitions, NEW n \in DOMAIN log'[p], n < committed'[p]
        PROVE  Done(<<p, n>>)'
    <3>1. committed \in [Partitions -> Nat] /\ n \in Nat
      BY <1>6 DEF IInv, Typed
    <3>2. CASE p = r[1]
      <4>1. n < NextCommit(r)
        BY <1>5, <1>8, <2>1, <3>1, <3>2
      <4>. QED
        BY <1>4, <1>5, <1>8, <3>1, <3>2, <4>1
    <3>3. CASE p # r[1]
      <4>1. committed'[p] = committed[p]
        BY <1>8, <3>1, <3>3
      <4>. QED
        BY <1>4, <2>1, <4>1
    <3>. QED
      BY <3>2, <3>3
  <2>. QED
    BY <2>1 DEF NothingPassedOver
<1>9. ASSUME NEW r \in Records, Unfinished(r), Done(r)',
             completed' = [completed EXCEPT ![r[1]] = FinishedWith(r) \ Leaving(r)]
      PROVE  \A p \in Partitions : \A n \in completed'[p] : Done(<<p, n>>)'
  <2>1. ASSUME NEW p \in Partitions, NEW n \in completed'[p]
        PROVE  Done(<<p, n>>)'
    <3>1. completed \in [Partitions -> SUBSET Nat]
      BY DEF IInv, Typed
    <3>2. CASE p = r[1]
      <4>1. n \in FinishedWith(r)
        BY <1>9, <2>1, <3>1, <3>2
      <4>. QED
        BY <1>5, <1>9, <3>2, <4>1
    <3>3. CASE p # r[1]
      <4>1. n \in completed[p]
        BY <1>9, <2>1, <3>1, <3>3
      <4>. QED
        BY <1>3, <4>1
    <3>. QED
      BY <3>2, <3>3
  <2>. QED
    BY <2>1
<1>10. ASSUME completed' = completed \/ \A p \in Partitions : completed'[p] = {}
       PROVE  \A p \in Partitions : \A n \in completed'[p] : Done(<<p, n>>)'
  <2>1. ASSUME NEW p \in Partitions, NEW n \in completed'[p]
        PROVE  Done(<<p, n>>)'
    BY <1>3, <1>10, <2>1
  <2>. QED
    BY <2>1
<1>. QED
  BY <1>7, <1>8, <1>9, <1>10, CompletedIsDone

(* A step is published after the ones before it.                           *)
LEMMA NoGapStep ==
    ASSUME IInv, [Next]_vars
    PROVE  TelemetryHasNoGap'
<1>1. ASSUME NEW t \in running, StepStored(t)
      PROVE  TelemetryHasNoGap'
  <2>. DEFINE d == Event(t.record)
              i == t.next
  <2>1. /\ telemetry' = [telemetry EXCEPT ![d] = @ \cup {i}] /\ i \in Nat /\ d \in Deliveries
        /\ i <= Steps
        /\ telemetry \in [Deliveries -> SUBSET (1 .. Steps)]
        /\ \A s \in 1 .. Steps : s < i => s \in telemetry[d]
    BY <1>1, SimulatorAssumption DEF StepStored, IInv, Finishes, Typed, TypeOK
  <2>. HIDE DEF d, i
  <2>2. 1 .. i \subseteq telemetry[d] \cup {i}
    BY <2>1, SimulatorAssumption
  <2>3. \A c \in Deliveries : \A k \in telemetry[c] : 1 .. k \subseteq telemetry[c]
    BY DEF IInv, TelemetryHasNoGap
  <2>4. ASSUME NEW c \in Deliveries, NEW k \in telemetry'[c]
        PROVE  1 .. k \subseteq telemetry'[c]
    <3>1. CASE c = d
      BY <2>1, <2>2, <2>3, <2>4, <3>1
    <3>2. CASE c # d
      BY <2>1, <2>3, <2>4, <3>2
    <3>. QED
      BY <3>1, <3>2
  <2>. QED
    BY <2>4 DEF TelemetryHasNoGap
<1>2. CASE telemetry' = telemetry
  BY <1>2 DEF IInv, TelemetryHasNoGap
<1>. QED
  BY <1>1, <1>2
     DEF Next, Publish, Apply, Delete, Drain, Drained, PollNothing, Poll, Quarantine,
         QuarantineFails, Submit, Start, StepConfirmed, StepFails, Finished, Crash, Restart,
         Reassign, vars

(* The record in hand is an event of a delivery on its way to a worker, or *)
(* an invalid one on its way to the dead letter topic.                     *)
LEMMA MainStep ==
    ASSUME IInv, [Next]_vars
    PROVE  MainKind'
<1>0. /\ main.at = "submit" => Event(main.record) \in Deliveries
      /\ main.at = "quarantine" => Event(main.record) = Poison
  BY DEF IInv, Finishes, MainKind
<1>1. CASE main' = main
  <2>1. CASE main.at \in {"submit", "quarantine"}
    <3>1. main.record \in Records /\ InProcess(main.record)
      BY <2>1, MainIsUnfinished DEF InProcess, AtMain
    <3>2. PICK x \in Records : x = main.record /\ InProcess(x)
      BY <3>1
    <3>3. Event(x)' = Event(x)
      BY <3>2, InProcessIsLogged, DoneStays DEF IInv
    <3>4. Event(main.record)' = Event(main.record)
      BY <1>1, <3>2, <3>3 DEF Event
    <3>. QED
      BY <1>0, <1>1, <3>4 DEF MainKind
  <2>. QED
    BY <1>1, <2>1 DEF MainKind
<1>2. CASE main' = Idle
  BY <1>2 DEF Idle, MainKind
<1>3. CASE main'.at = "poll"
  BY <1>3 DEF MainKind
<1>4. ASSUME NEW p \in Partitions, Poll(p)
      PROVE  MainKind'
  <2>. DEFINE x == <<p, position[p]>>
  <2>1. /\ position[p] \in DOMAIN log[p] /\ log' = log
        /\ log[p][position[p]] \in Deliveries \cup {Poison}
    <3>1. position[p] \in Nat /\ position[p] >= 1 /\ DOMAIN log[p] = 1 .. Len(log[p])
      BY DEF IInv, Typed, TypeOK
    <3>2. position[p] <= Len(log[p]) /\ log' = log
      BY <1>4 DEF Poll, kafka
    <3>3. position[p] \in DOMAIN log[p]
      BY <3>1, <3>2
    <3>. QED
      BY <3>2, <3>3 DEF IInv, Typed, TypeOK
  <2>2. CASE main' = [at |-> IF log[p][position[p]] = Poison THEN "quarantine" ELSE "submit",
                      record |-> x]
    <3>1. Event(main.record)' = log[p][position[p]]
      BY <2>1, <2>2 DEF Event
    <3>2. CASE log[p][position[p]] = Poison
      BY <2>2, <3>1, <3>2 DEF MainKind
    <3>3. CASE log[p][position[p]] # Poison
      BY <2>1, <2>2, <3>1, <3>3 DEF MainKind
    <3>. QED
      BY <3>2, <3>3
  <2>3. \/ Stop
        \/ main' = [at |-> IF log[p][position[p]] = Poison THEN "quarantine" ELSE "submit",
                    record |-> x]
    BY <1>4, Zenon DEF Poll
  <2>4. CASE Stop
    BY <1>2, <2>4 DEF Stop
  <2>. QED
    BY <2>2, <2>3, <2>4, Zenon
<1>5. CASE Drain
  <2>1. Head(completions).record \in Records /\ Unfinished(Head(completions).record)
    BY <1>5, HeadIsUnfinished DEF Drain
  <2>2. main' = main \/ main' = Idle
    BY <1>5, <2>1, CompleteEnds DEF Drain, IInv, GoesOn, StopsAfter, Stop
  <2>. QED
    BY <1>1, <1>2, <2>2
<1>6. CASE Quarantine
  <2>1. main.record \in Records /\ Unfinished(main.record)
    BY <1>6, MainIsUnfinished DEF Quarantine
  <2>2. main' = Idle
    BY <1>6, <2>1, CompleteEnds DEF Quarantine, IInv, GoesOn, StopsAfter, Stop
  <2>. QED
    BY <1>2, <2>2
<1>7. CASE Drained
  BY <1>3, <1>7 DEF Drained, IInv, Typed
<1>8. \/ main' = main \/ main' = Idle \/ Drain \/ Quarantine \/ Drained
      \/ \E p \in Partitions : Poll(p)
  BY DEF Next, Publish, Apply, Delete, PollNothing, QuarantineFails, Submit, Start, StepStored,
         StepConfirmed, StepFails, Finished, Crash, Restart, Reassign, Stop, vars
<1>. QED
  BY <1>1, <1>2, <1>4, <1>5, <1>6, <1>7, <1>8

LEMMA BacklogStep ==
    ASSUME IInv, [Next]_vars
    PROVE  \A i \in DOMAIN backlog' : Event(backlog[i])' \in Deliveries
<1>1. ASSUME NEW x \in Records, InProcess(x), Event(x) \in Deliveries
      PROVE  Event(x)' \in Deliveries
  BY <1>1, InProcessIsLogged, DoneStays DEF IInv
<1>2. \A x \in Records : AtBacklog(x) => Event(x)' \in Deliveries
  BY <1>1 DEF AtBacklog, InProcess, IInv, Finishes
<1>3. \A i \in DOMAIN backlog' : backlog'[i] \in Records /\ AtBacklog(backlog[i])'
  <2>1. backlog' \in Seq(Records)
    BY WorkStep DEF WorkTyped
  <2>. QED
    BY <2>1, SeqElements DEF AtBacklog
<1>4. ASSUME NEW x \in Records, AtBacklog(x)'
      PROVE  Event(x)' \in Deliveries
  <2>1. CASE UNCHANGED backlog
    BY <1>2, <1>4, <2>1 DEF AtBacklog
  <2>2. CASE Stop
    BY <1>4, <2>2 DEF Stop, AtBacklog
  <2>3. CASE Start
    <3>1. AtBacklog(x)
      BY <1>4, <2>3, BacklogTaken DEF Start
    <3>. QED
      BY <1>2, <3>1
  <2>4. CASE Submit
    <3>1. main.record \in Records /\ AtMain(main.record) /\ backlog' = Append(backlog, main.record)
      BY <2>4, MainIsUnfinished DEF Submit, AtMain
    <3>2. ~AtBacklog(main.record)
      BY <3>1 DEF IInv, Placed, OnePlace
    <3>3. AtBacklog(x) \/ x = main.record
      BY <1>4, <3>1, <3>2, BacklogGrown
    <3>4. CASE x = main.record
      <4>1. Event(x) \in Deliveries
        BY <2>4, <3>4 DEF Submit, IInv, Finishes, MainKind
      <4>. QED
        BY <1>1, <3>1, <3>4, <4>1 DEF InProcess
    <3>. QED
      BY <1>2, <3>3, <3>4
  <2>5. CASE Drain
    <3>1. Head(completions).record \in Records /\ Unfinished(Head(completions).record)
      BY <2>5, HeadIsUnfinished DEF Drain
    <3>2. UNCHANGED backlog \/ Stop
      BY <2>5, <3>1, CompleteEnds DEF Drain, IInv, GoesOn, StopsAfter
    <3>. QED
      BY <2>1, <2>2, <3>2
  <2>6. CASE Quarantine
    <3>1. main.record \in Records /\ Unfinished(main.record)
      BY <2>6, MainIsUnfinished DEF Quarantine
    <3>2. UNCHANGED backlog \/ Stop
      BY <2>6, <3>1, CompleteEnds DEF Quarantine, IInv, GoesOn, StopsAfter
    <3>. QED
      BY <2>1, <2>2, <3>2
  <2>7. ASSUME NEW p \in Partitions, Poll(p)
        PROVE  UNCHANGED backlog \/ Stop
    BY <2>7 DEF Poll, workers
  <2>. QED
    BY <2>1, <2>2, <2>3, <2>4, <2>5, <2>6, <2>7
       DEF Next, Publish, Apply, Delete, Drained, PollNothing, QuarantineFails, StepStored,
           StepConfirmed, StepFails, Finished, Crash, Restart, Reassign, workers, vars
<1>5. ASSUME NEW i \in DOMAIN backlog'
      PROVE  Event(backlog[i])' \in Deliveries
  <2>1. PICK x \in Records : x = backlog'[i] /\ AtBacklog(x)'
    BY <1>3 DEF AtBacklog
  <2>2. Event(x)' \in Deliveries
    BY <1>4, <2>1
  <2>. QED
    BY <2>1, <2>2 DEF Event
<1>. QED
  BY <1>5

(* What a simulation has published; t is one in the state before or after. *)
Published(t) ==
    /\ Event(t.record) \in Deliveries
    /\ \A s \in 1 .. Steps : s < t.next => s \in telemetry[Event(t.record)]

LEMMA PublishedStays ==
    ASSUME IInv, [Next]_vars, NEW t, t.record \in Records, InProcess(t.record), Published(t)
    PROVE  Published(t)'
<1>1. t.record[2] \in DOMAIN log[t.record[1]]
  BY InProcessIsLogged
<1>2. Event(t.record)' = Event(t.record)
  BY <1>1, DoneStays DEF IInv
<1>. QED
  BY <1>2, TopicsGrow DEF IInv, Published

LEMMA RunningStep ==
    ASSUME IInv, [Next]_vars
    PROVE  \A t \in running' : Published(t)'
<1>0. \A t \in running : t.record \in Records /\ InProcess(t.record) /\ Published(t)
  BY DEF IInv, Typed, TypeOK, Finishes, InProcess, AtWorker, Published
<1>1. \A t \in running : Published(t)'
  BY <1>0, PublishedStays
<1>2. CASE running' \subseteq running
  BY <1>1, <1>2
<1>3. CASE Start
  <2>1. backlog # <<>> /\ backlog' = Tail(backlog) /\ UNCHANGED <<log, telemetry>>
    BY <1>3 DEF Start, kafka
  <2>2. PICK x \in Records : x = Head(backlog) /\ AtBacklog(x)
    BY <2>1, BacklogTaken
  <2>3. Event(x) \in Deliveries /\ Event(x)' = Event(x)
    BY <2>1, <2>2 DEF AtBacklog, IInv, Finishes, Event
  <2>4. \A s \in 1 .. Steps : s < FirstStep(Event(x)) => s \in telemetry[Event(x)]
    <3>1. progress[Event(x)] \in Nat
      BY <2>3, SimulatorAssumption DEF IInv, Typed, TypeOK
    <3>. QED
      BY <2>3, <3>1, SimulatorAssumption DEF FirstStep, IInv, Finishes
  <2>5. PICK n, u : n = FirstStep(Event(x)) /\ u = [record |-> x, next |-> n]
    OBVIOUS
  <2>6. running' = running \/ running' = running \cup {u}
    BY <1>3, <2>2, <2>5 DEF Start
  <2>7. u.record = x /\ u.next = n
    BY <2>5
  <2>8. Published(u)'
    BY <2>1, <2>3, <2>4, <2>5, <2>7 DEF Published
  <2>. QED
    BY <1>1, <2>6, <2>8
<1>4. ASSUME NEW t \in running, StepConfirmed(t)
      PROVE  \A u \in running' : Published(u)'
  <2>1. t \in [record : Records, next : 1 .. Steps + 1]
    BY DEF IInv, Typed, TypeOK
  <2>2. PICK u : u = [t EXCEPT !.next = @ + 1] /\ u.record = t.record /\ u.next = t.next + 1
    <3>. DEFINE w == [t EXCEPT !.next = @ + 1]
    <3>1. w.record = t.record /\ w.next = t.next + 1
      BY <2>1
    <3>. HIDE DEF w
    <3>2. \E u : u = w /\ u.record = t.record /\ u.next = t.next + 1
      BY <3>1
    <3>. QED
      BY <3>2 DEF w
  <2>3. /\ running' = (running \ {t}) \cup {u} /\ UNCHANGED <<log, telemetry>>
        /\ t.next \in telemetry[Event(t.record)] /\ t.next \in Nat
    BY <1>4, <2>1, <2>2, SimulatorAssumption DEF StepConfirmed, kafka
  <2>4. Event(t.record)' = Event(t.record)
    BY <2>3 DEF Event
  <2>5. Published(t)
    BY <1>0
  <2>6. Published(u)'
    BY <2>2, <2>3, <2>4, <2>5 DEF Published
  <2>. QED
    BY <1>1, <2>3, <2>6
<1>5. ASSUME NEW t \in running, StepFails(t) \/ Finished(t)
      PROVE  running' \subseteq running
  BY <1>5 DEF StepFails, Finished
<1>6. running' \subseteq running \/ Start \/ \E t \in running : StepConfirmed(t)
  <2>1. CASE Drain
    <3>1. Head(completions).record \in Records /\ Unfinished(Head(completions).record)
      BY <2>1, HeadIsUnfinished DEF Drain
    <3>. QED
      BY <2>1, <3>1, CompleteEnds DEF Drain, IInv, GoesOn, StopsAfter, Stop
  <2>2. CASE Quarantine
    <3>1. main.record \in Records /\ Unfinished(main.record)
      BY <2>2, MainIsUnfinished DEF Quarantine
    <3>. QED
      BY <2>2, <3>1, CompleteEnds DEF Quarantine, IInv, GoesOn, StopsAfter, Stop
  <2>3. ASSUME NEW p \in Partitions, Poll(p)
        PROVE  running' \subseteq running
    BY <2>3 DEF Poll, Stop, workers
  <2>. QED
    BY <1>5, <2>1, <2>2, <2>3
       DEF Next, Publish, Apply, Delete, Drained, PollNothing, QuarantineFails, Submit,
           StepStored, Crash, Restart, Reassign, Stop, workers, vars
<1>. QED
  BY <1>2, <1>3, <1>4, <1>6

(* A simulation is reported as successful when every step is published.    *)
LEMMA EndsStep ==
    ASSUME IInv, [Next]_vars
    PROVE  \A i \in DOMAIN completions' : completions'[i].ok => Done(completions[i].record)'
<1>0. completions \in Seq([record : Records, ok : BOOLEAN])
  BY DEF IInv, Typed
<1>1. ASSUME NEW x \in Records, InProcess(x), Done(x)
      PROVE  Done(x)'
  BY <1>1, InProcessIsLogged, DoneStays DEF IInv
<1>2. ASSUME NEW i \in DOMAIN completions, completions[i].ok
      PROVE  \E x \in Records : x = completions[i].record /\ Done(x)'
  <2>1. completions[i].record \in Records
    <3>1. completions[i] \in [record : Records, ok : BOOLEAN]
      BY <1>0, SeqElements
    <3>. QED
      BY <3>1
  <2>2. PICK x \in Records : x = completions[i].record
    BY <2>1
  <2>3. InProcess(x) /\ Done(x)
    BY <1>2, <2>2 DEF InProcess, AtEnd, IInv, Finishes
  <2>4. Done(x)'
    BY <1>1, <2>3
  <2>. QED
    BY <2>2, <2>4
<1>3. ASSUME NEW i \in DOMAIN completions', completions'[i].ok,
             \E x \in Records : x = completions'[i].record /\ Done(x)'
      PROVE  Done(completions[i].record)'
  BY <1>3 DEF Done, Event
<1>4. ASSUME completions' = completions
      PROVE  \A i \in DOMAIN completions' : completions'[i].ok =>
                \E x \in Records : x = completions'[i].record /\ Done(x)'
  BY <1>2, <1>4
<1>5. ASSUME completions # <<>>, completions' = Tail(completions)
      PROVE  \A i \in DOMAIN completions' : completions'[i].ok =>
                \E x \in Records : x = completions'[i].record /\ Done(x)'
  <2>1. \A i \in DOMAIN completions' : i + 1 \in DOMAIN completions
                                     /\ completions'[i] = completions[i + 1]
    BY <1>0, <1>5, TailElements
  <2>. QED
    BY <1>2, <2>1
<1>6. ASSUME NEW x \in Records, NEW ok \in BOOLEAN, Finish(x, ok), ok => Done(x)'
      PROVE  \A i \in DOMAIN completions' : completions'[i].ok =>
                \E y \in Records : y = completions'[i].record /\ Done(y)'
  <2>. DEFINE e == [record |-> x, ok |-> ok]
  <2>1. /\ e \in [record : Records, ok : BOOLEAN] /\ completions' = Append(completions, e)
        /\ e.record = x /\ e.ok = ok
    BY <1>6 DEF Finish
  <2>. HIDE DEF e
  <2>2. /\ DOMAIN completions' = DOMAIN completions \cup {Len(completions) + 1}
        /\ completions'[Len(completions) + 1] = e
        /\ \A i \in DOMAIN completions : completions'[i] = completions[i]
    BY <1>0, <2>1, AppendElements
  <2>. QED
    BY <1>2, <1>6, <2>1, <2>2
<1>. DEFINE Ends == \A i \in DOMAIN completions' : completions'[i].ok =>
                       \E x \in Records : x = completions'[i].record /\ Done(x)'
<1>7. ASSUME NEW t \in running, Finished(t)
      PROVE  Ends
  <2>1. /\ t.record \in Records /\ InProcess(t.record) /\ t.next \in 1 .. Steps + 1
        /\ Event(t.record) \in Deliveries
        /\ \A s \in 1 .. Steps : s < t.next => s \in telemetry[Event(t.record)]
        /\ telemetry \in [Deliveries -> SUBSET (1 .. Steps)]
    BY DEF IInv, Typed, TypeOK, InProcess, AtWorker, Finishes
  <2>2. t.next > Steps /\ Finish(t.record, TRUE)
    BY <1>7 DEF Finished
  <2>3. telemetry[Event(t.record)] = 1 .. Steps
    <3>1. \A s \in 1 .. Steps : s < t.next
      BY <2>1, <2>2, SimulatorAssumption
    <3>2. \A s \in 1 .. Steps : s \in telemetry[Event(t.record)]
      BY <2>1, <3>1
    <3>3. telemetry[Event(t.record)] \subseteq 1 .. Steps
      BY <2>1
    <3>. QED
      BY <3>2, <3>3
  <2>4. Done(t.record)
    BY <2>1, <2>3, SimulatorAssumption DEF Done
  <2>5. Done(t.record)'
    BY <1>1, <2>1, <2>4
  <2>. QED
    BY <1>6, <2>1, <2>2, <2>5
<1>8. ASSUME NEW t \in running, StepFails(t)
      PROVE  Ends
  <2>1. t.record \in Records /\ Finish(t.record, FALSE)
    BY <1>8 DEF StepFails, IInv, Typed, TypeOK
  <2>. QED
    BY <1>6, <2>1
<1>9. CASE Start
  <2>1. Head(backlog) \in Records
    BY <1>9, BacklogTaken DEF Start
  <2>2. completions' = completions \/ Finish(Head(backlog), FALSE)
    BY <1>9 DEF Start
  <2>3. Ends
    BY <1>4, <1>6, <2>1, <2>2
  <2>. QED
    BY <1>3, <2>3
<1>10. CASE Stop
  BY <1>10 DEF Stop
<1>11. CASE Drain
  <2>1. /\ Head(completions).record \in Records /\ Unfinished(Head(completions).record)
        /\ completions # <<>>
    BY <1>11, HeadIsUnfinished DEF Drain
  <2>2. Stop \/ completions' = Tail(completions)
    BY <1>11, <2>1, CompleteEnds DEF Drain, IInv, GoesOn, StopsAfter
  <2>. QED
    BY <1>3, <1>5, <1>10, <2>1, <2>2
<1>12. CASE Quarantine
  <2>1. main.record \in Records /\ Unfinished(main.record)
    BY <1>12, MainIsUnfinished DEF Quarantine
  <2>2. Stop \/ completions' = completions
    BY <1>12, <2>1, CompleteEnds DEF Quarantine, IInv, GoesOn, StopsAfter
  <2>. QED
    BY <1>3, <1>4, <1>10, <2>2
<1>13. ASSUME NEW p \in Partitions, Poll(p)
       PROVE  Stop \/ completions' = completions
  BY <1>13 DEF Poll, workers
<1>14. \/ completions' = completions \/ Stop \/ Drain \/ Quarantine \/ Start
       \/ \E t \in running : Finished(t) \/ StepFails(t)
  BY <1>13
     DEF Next, Publish, Apply, Delete, Drained, PollNothing, QuarantineFails, Submit,
         StepStored, StepConfirmed, Crash, Restart, Reassign, workers, vars
<1>. QED
  BY <1>3, <1>4, <1>7, <1>8, <1>9, <1>10, <1>11, <1>12, <1>14

(* The API is never ahead of the telemetry topic.                          *)
LEMMA AppliedStep ==
    ASSUME IInv, [Next]_vars
    PROVE  \A d \in Deliveries : \A s \in 1 .. Steps : s <= progress'[d] => s \in telemetry'[d]
<1>0. /\ \A d \in Deliveries : \A s \in 1 .. Steps : s <= progress[d] => s \in telemetry[d]
      /\ progress \in [Deliveries -> 0 .. Steps]
      /\ \A d \in Deliveries : telemetry[d] \subseteq telemetry'[d]
  BY TopicsGrow DEF IInv, Finishes, Typed, TypeOK
<1>1. ASSUME NEW d \in Deliveries, NEW i \in 1 .. Steps, Apply(d, i)
      PROVE  \A c \in Deliveries : \A s \in 1 .. Steps : s <= progress'[c] => s \in telemetry'[c]
  <2>1. progress' = [progress EXCEPT ![d] = i] /\ telemetry' = telemetry /\ i \in telemetry[d]
    BY <1>1 DEF Apply
  <2>2. 1 .. i \subseteq telemetry[d]
    BY <2>1 DEF IInv, TelemetryHasNoGap
  <2>3. \A s \in 1 .. Steps : s <= i => s \in telemetry[d]
    BY <2>2, SimulatorAssumption
  <2>. QED
    BY <1>0, <2>1, <2>3
<1>2. CASE progress' = progress
  BY <1>0, <1>2
<1>. QED
  BY <1>1, <1>2
     DEF Next, Publish, Delete, Drain, Drained, PollNothing, Poll, Quarantine, QuarantineFails,
         Submit, Start, StepStored, StepConfirmed, StepFails, Finished, Crash, Restart,
         Reassign, api, vars

LEMMA FinishesStep ==
    ASSUME IInv, [Next]_vars
    PROVE  Finishes'
<1>1. /\ MainKind'
      /\ \A i \in DOMAIN backlog' : Event(backlog[i])' \in Deliveries
      /\ \A t \in running' : Published(t)'
      /\ \A i \in DOMAIN completions' : completions'[i].ok => Done(completions[i].record)'
      /\ \A p \in Partitions : \A n \in completed'[p] : Done(<<p, n>>)'
      /\ \A d \in Deliveries : \A s \in 1 .. Steps : s <= progress'[d] => s \in telemetry'[d]
  BY MainStep, BacklogStep, RunningStep, EndsStep, FinishedStep, AppliedStep
<1>. QED
  BY <1>1 DEF Finishes, Published

-----------------------------------------------------------------------------
(* The theorems *)

LEMMA InitInv == Init => IInv
<1>. SUFFICES ASSUME Init
              PROVE  IInv
  OBVIOUS
<1>1. /\ \A p \in Partitions : /\ log[p] = <<>> /\ committed[p] = 1 /\ position[p] = 1
                              /\ pending[p] = {} /\ completed[p] = {} /\ lastSeen[p] = 0
                              /\ Len(log[p]) = 0
      /\ main = Idle /\ backlog = <<>> /\ running = {} /\ completions = <<>> /\ up
  BY DEF Init
<1>2. /\ log \in [Partitions -> Seq(Deliveries \cup {Poison})]
      /\ committed \in [Partitions -> Nat] /\ position \in [Partitions -> Nat]
      /\ pending \in [Partitions -> SUBSET Nat] /\ completed \in [Partitions -> SUBSET Nat]
      /\ lastSeen \in [Partitions -> Nat]
  BY DEF Init
<1>3. /\ main \in [at : {"drain", "poll", "submit", "quarantine"}, record : Records \cup {NoRecord}]
      /\ main.at = "drain" /\ main.record = NoRecord
  BY <1>1 DEF Idle
<1>4. backlog \in Seq(Records) /\ completions \in Seq([record : Records, ok : BOOLEAN])
  BY <1>1
<1>5. /\ telemetry \in [Deliveries -> SUBSET (1 .. Steps)] /\ progress \in [Deliveries -> 0 .. Steps]
      /\ \A d \in Deliveries : telemetry[d] = {} /\ progress[d] = 0
      /\ quarantined = {} /\ deleted = {} /\ faults \in 0 .. MaxFaults /\ up \in BOOLEAN
  BY SimulatorAssumption DEF Init
<1>6. TypeOK
  BY <1>1, <1>3, <1>5, SimulatorAssumption DEF TypeOK
<1>7. Typed
  BY <1>2, <1>3, <1>4, <1>6 DEF Typed
<1>8. Resting /\ Tracked
  BY <1>1, <1>3 DEF Resting, Tracked
<1>9. Placed
  <2>1. NoneTwice
    BY <1>1 DEF NoneTwice
  <2>2. ASSUME NEW r \in Records
        PROVE  OnePlace(r)
    <3>1. ~Unfinished(r)
      BY <1>1 DEF Unfinished, Records
    <3>2. ~AtMain(r) /\ ~AtBacklog(r) /\ ~AtWorker(r) /\ ~AtEnd(r)
      BY <1>1, <1>3, RecordsAreSome DEF AtMain, AtBacklog, AtWorker, AtEnd
    <3>. QED
      BY <3>1, <3>2 DEF OnePlace, InProcess
  <2>. QED
    BY <2>1, <2>2 DEF Placed
<1>10. Finishes
  BY <1>1, <1>3, <1>5, SimulatorAssumption DEF Finishes, MainKind
<1>11. TelemetryHasNoGap /\ NothingPassedOver
  BY <1>1, <1>5 DEF TelemetryHasNoGap, NothingPassedOver
<1>. QED
  BY <1>7, <1>8, <1>9, <1>10, <1>11 DEF IInv

LEMMA StepInv == IInv /\ [Next]_vars => IInv'
  BY TypedStep, RestingStep, PlacedStep, FinishesStep, NoGapStep, FinishedStep DEF IInv

(* The inductive invariant: the tracker holds what is between the commit   *)
(* and the last registered offset, every unfinished record of it is in one *)
(* place of the process, and what is finished is done.                     *)
THEOREM Invariant == Spec => []IInv
  BY InitInv, StepInv, PTL DEF Spec

(* The types, and that every offset the process knows lies within the log. *)
THEOREM TypeCorrect == Spec => []TypeOK
<1>1. IInv => TypeOK
  BY DEF IInv, Typed
<1>. QED
  BY <1>1, Invariant, PTL

(* The committed offset passes over nothing that is not done: with records *)
(* that finish in any order, failed commits that may have been stored,     *)
(* crashes and partitions that are taken away (ContiguousOffsetTracker).   *)
THEOREM NothingIsPassedOver == Spec => []NothingPassedOver
<1>1. IInv => NothingPassedOver
  BY DEF IInv
<1>. QED
  BY <1>1, Invariant, PTL

(* The telemetry of a delivery has no gap, although a simulation starts    *)
(* from the progress it reads from the API and another one of the same     *)
(* event may be ahead of it (load_delivery_state, simulate_delivery).      *)
THEOREM NoGapInTelemetry == Spec => []TelemetryHasNoGap
<1>1. IInv => TelemetryHasNoGap
  BY DEF IInv
<1>. QED
  BY <1>1, Invariant, PTL

(* The index sets a record is counted by have one element or none.         *)
LEMMA CountedOnce ==
    ASSUME NEW S, \A x, y \in S : x = y
    PROVE  Cardinality(S) = IF S = {} THEN 0 ELSE 1
<1>1. CASE S = {}
  BY <1>1, FS_EmptySet
<1>2. CASE S # {}
  <2>1. PICK x : S = {x}
    BY <1>2
  <2>2. Cardinality({x}) = 1
    BY FS_Singleton
  <2>. QED
    BY <1>2, <2>1, <2>2
<1>. QED
  BY <1>1, <1>2

LEMMA AccountFollows == IInv => OffsetsAccounted
<1>. SUFFICES ASSUME IInv
              PROVE  OffsetsAccounted
  OBVIOUS
<1>1. NoneTwice /\ \A r \in Records : OnePlace(r)
  BY DEF IInv, Placed
<1>2. ASSUME NEW p \in Partitions, NEW n \in DOMAIN log[p], NEW r, r = <<p, n>>
      PROVE  Cardinality(InBacklog(r)) + Cardinality(Runs(r)) + Cardinality(InCompletions(r))
               + Cardinality(InMain(r)) = IF n \in pending[p] \ completed[p] THEN 1 ELSE 0
  <2>1. r \in Records /\ (Unfinished(r) <=> n \in pending[p] \ completed[p])
    BY <1>2, LoggedIsRecord DEF Unfinished
  <2>2. Cardinality(InBacklog(r)) = IF AtBacklog(r) THEN 1 ELSE 0
    <3>1. \A x, y \in InBacklog(r) : x = y
      BY <1>1 DEF NoneTwice, InBacklog
    <3>2. InBacklog(r) = {} <=> ~AtBacklog(r)
      BY DEF InBacklog, AtBacklog
    <3>. QED
      BY <3>1, <3>2, CountedOnce
  <2>3. Cardinality(Runs(r)) = IF AtWorker(r) THEN 1 ELSE 0
    <3>1. \A x, y \in Runs(r) : x = y
      BY <1>1 DEF NoneTwice, Runs
    <3>2. Runs(r) = {} <=> ~AtWorker(r)
      BY DEF Runs, AtWorker
    <3>. QED
      BY <3>1, <3>2, CountedOnce
  <2>4. Cardinality(InCompletions(r)) = IF AtEnd(r) THEN 1 ELSE 0
    <3>1. \A x, y \in InCompletions(r) : x = y
      BY <1>1 DEF NoneTwice, InCompletions
    <3>2. InCompletions(r) = {} <=> ~AtEnd(r)
      BY DEF InCompletions, AtEnd
    <3>. QED
      BY <3>1, <3>2, CountedOnce
  <2>5. Cardinality(InMain(r)) = IF AtMain(r) THEN 1 ELSE 0
    <3>1. \A x, y \in InMain(r) : x = y
      BY DEF InMain
    <3>2. InMain(r) = {} <=> ~AtMain(r)
      BY DEF InMain, AtMain
    <3>. QED
      BY <3>1, <3>2, CountedOnce
  <2>6. OnePlace(r)
    BY <1>1, <2>1
  <2>. QED
    BY <2>1, <2>2, <2>3, <2>4, <2>5, <2>6 DEF OnePlace, InProcess
<1>3. EachRecordInOnePlace
  BY <1>2 DEF EachRecordInOnePlace
<1>4. TrackerStartsAtCommit
  BY DEF IInv, Tracked, TrackerStartsAtCommit
<1>. QED
  BY <1>3, <1>4 DEF OffsetsAccounted

(* Every registered offset that is not finished is in exactly one place,   *)
(* and the tracker begins at the commit with an unfinished one: no record  *)
(* leaks and no commit is late, whatever fails.                            *)
THEOREM NoOffsetLeaks == Spec => []OffsetsAccounted
  BY Invariant, AccountFollows, PTL
=============================================================================

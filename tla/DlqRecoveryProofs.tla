-------------------------- MODULE DlqRecoveryProofs --------------------------
(***************************************************************************)
(* Dead letters, for any payloads, operators, keys, plans and clients and  *)
(* any number of recoveries that are cut off.  A recovery under way has    *)
(* the lock of a pending entry (JobsHold); every copy of an entry, in a    *)
(* topic or still to be appended, is one of a replay that was cut off, or  *)
(* the one of the replay that succeeds (CopiesCounted); and what a running *)
(* plan has counted is recovered under its operator (RunsCount).           *)
(***************************************************************************)
EXTENDS DlqRecovery, FiniteSetTheorems, SequenceTheorems, TLAPS

Settled == {"REPLAYED", "DISCARDED"}

(* An entry is of a letter, and says who recovered it.                     *)
EntriesFormed ==
    /\ Len(letters) <= MaxLetters
    /\ \A n \in Positions :
          /\ entry[n].status = "NONE" <=> entry[n] = NoEntry
          /\ entry[n] # NoEntry => n \in DOMAIN letters /\ entry[n].topic \in Topics

(* A plan is of an operator.                                               *)
PlansFormed == \A p \in Plans : plan[p].status # "NONE" => plan[p].by \in Operators

(* Copies are of catalogued entries, and each recovery that was cut off    *)
(* left one at most.                                                       *)
CopiesKnown ==
    /\ \A t \in Sources : \A i \in DOMAIN topic[t] :
          topic[t][i].entry # 0 => entry[topic[t][i].entry] # NoEntry
    /\ \A l \in late : l.cut <= lost /\ entry[l.entry] # NoEntry

(* A recovery under way has a pending entry and a new key, and nobody else *)
(* has them.                                                               *)
JobsHold ==
    /\ \A c \in Clients : job[c] # NoJob =>
          /\ job[c].stage # "idle" /\ job[c].entry \in Positions /\ job[c].by \in Operators
          /\ entry[job[c].entry].status = "PENDING"
          /\ job[c].key # None => \A a \in audits : a.key # job[c].key
    /\ \A b, c \in Clients : b # c /\ job[b] # NoJob /\ job[c] # NoJob =>
          /\ job[b].entry # job[c].entry
          /\ job[b].key # None => job[b].key # job[c].key

(* The audit rows of an entry, one by one.                                 *)
AuditsMatch ==
    /\ \A n \in Positions : entry[n].status \notin Settled => \A a \in audits : a.entry # n
    /\ \A n \in Positions : entry[n].status \in Settled =>
          \E a \in audits :
              /\ a.entry = n /\ a.action = entry[n].status /\ a.by = entry[n].by
              /\ \A b \in audits : b.entry = n => b = a
    /\ \A a, b \in audits : a.key = b.key /\ a.key # None => a = b

CopyPlaces(s, n) == {i \in DOMAIN s : s[i].entry = n}

LateOf(late0, n) == {l \in late0 : l.entry = n}

(* The copy that a replay may have without having been cut off.            *)
Granted(n) ==
    IF \/ entry[n].status \in {"REPLAYED", "DELETED"}
       \/ \E c \in Clients : job[c].entry = n /\ job[c].stage = "sent"
    THEN 1 ELSE 0

Counted(n) ==
    Cardinality(CopyPlaces(topic["telemetry"], n)) + Cardinality(CopyPlaces(topic["created"], n))
        + Cardinality(LateOf(late, n)) <= lost + Granted(n)

CopiesCounted == \A n \in Positions : entry[n].topic \in Sources => Counted(n)

(* What was sent is in the topic.                                          *)
SentIsThere ==
    /\ \A n \in Positions : entry[n].status = "REPLAYED" /\ entry[n].topic \in Sources =>
          CopyPlaces(topic[entry[n].topic], n) # {}
    /\ \A c \in Clients : job[c].stage = "sent" /\ entry[job[c].entry].topic \in Sources =>
          CopyPlaces(topic[entry[job[c].entry].topic], job[c].entry) # {}

RecoveredBy(p, n) ==
    entry[n].status \in {plan[p].action, "DELETED"} /\ entry[n].by = plan[p].by

Recovered(c) ==
    {n \in plan[run[c].plan].entries \ run[c].todo : RecoveredBy(run[c].plan, n)}

(* A running plan is prepared and nobody else runs it; what it has counted *)
(* is recovered; the recovery it has under way is of an entry to do.       *)
RunsCount ==
    /\ \A c \in Clients : run[c] # NoRun =>
          /\ run[c].plan \in Plans
          /\ plan[run[c].plan].status = "PREPARED"
          /\ run[c].todo \subseteq plan[run[c].plan].entries
          /\ run[c].good <= Cardinality(Recovered(c))
          /\ job[c] # NoJob =>
                /\ job[c].entry \in run[c].todo
                /\ job[c].by = plan[run[c].plan].by
                /\ plan[run[c].plan].action = "REPLAYED"
    /\ \A b, c \in Clients : b # c /\ run[b] # NoRun => run[b].plan # run[c].plan

IInv ==
    /\ TypeOK
    /\ EntriesFormed
    /\ PlansFormed
    /\ CopiesKnown
    /\ JobsHold
    /\ AuditsMatch
    /\ CopiesCounted
    /\ SentIsThere
    /\ RunsCount
    /\ NothingUncatalogued
    /\ ExecutedMeansAll

-----------------------------------------------------------------------------
(* The state at first *)

LEMMA SetToSeqIs ==
    ASSUME NEW S, IsFiniteSet(S)
    PROVE  SetToSeq(S) \in Seq(S)
<1>1. ExistsBijection(1 .. Cardinality(S), S) /\ Cardinality(S) \in Nat
  BY FS_CardinalityType
<1>2. PICK f \in [1 .. Cardinality(S) -> S] : IsInjective(f)
  BY <1>1 DEF ExistsBijection, Bijection, Injection
<1>3. SetToSeq(S) \in [1 .. Cardinality(S) -> S]
  BY <1>2 DEF SetToSeq
<1>. QED
  BY <1>1, <1>3

CopyRecord == [payload : Payloads, entry : {0} \cup Positions]

LEMMA InitTopic ==
    ASSUME Init, NEW t \in Sources
    PROVE  topic[t] \in Seq(CopyRecord) /\ \A i \in DOMAIN topic[t] : topic[t][i].entry = 0
<1>. DEFINE P == {x \in Payloads : Home[x] = t}
            S == {[payload |-> m, entry |-> 0] : m \in P}
<1>1. IsFiniteSet(P)
  <2>1. P \in SUBSET Payloads
    OBVIOUS
  <2>. QED
    BY <2>1, FS_Subset, DlqRecoveryAssumption
<1>2. IsFiniteSet(S)
  <2>. DEFINE f == [m \in P |-> [payload |-> m, entry |-> 0]]
  <2>1. f \in Surjection(P, S)
    BY DEF Surjection
  <2>. HIDE DEF f, P, S
  <2>. QED
    BY <1>1, <2>1, FS_Surjection
<1>3. topic[t] = SetToSeq(S)
  BY DEF Init
<1>4. topic[t] \in Seq(S)
  BY <1>2, <1>3, SetToSeqIs
<1>5. S \subseteq CopyRecord /\ \A x \in S : x.entry = 0
  BY DEF CopyRecord
<1>. HIDE DEF S
<1>6. \A i \in DOMAIN topic[t] : topic[t][i] \in S
  BY <1>4
<1>7. topic[t] \in Seq(CopyRecord)
  BY <1>4, <1>5
<1>. QED
  BY <1>5, <1>6, <1>7

LEMMA InitTyped == Init => TypeOK
<1>. SUFFICES ASSUME Init PROVE TypeOK
  OBVIOUS
<1>1. topic \in [Sources -> Seq(CopyRecord)]
  <2>1. topic = [t \in Sources |-> topic[t]]
    BY DEF Init
  <2>2. \A t \in Sources : topic[t] \in Seq(CopyRecord)
    BY InitTopic
  <2>. QED
    BY <2>1, <2>2, Zenon
<1>2. NoEntry \in Entry /\ NoJob \in Job /\ NoRun \in Run
  BY DEF NoEntry, Entry, NoJob, Job, NoRun, Run
<1>3. NoPlan \in Plan
  BY DEF NoPlan, Plan
<1>4. /\ letters \in Seq(Letter) /\ offset \in 0..Len(letters)
      /\ audits \in SUBSET Audit
      /\ late \in SUBSET [cut : 1..MaxLost, entry : Positions]
      /\ lost \in 0..MaxLost
  BY DlqRecoveryAssumption DEF Init
<1>5. /\ entry \in [Positions -> Entry] /\ job \in [Clients -> Job]
      /\ plan \in [Plans -> Plan] /\ run \in [Clients -> Run]
  BY <1>2, <1>3 DEF Init
<1>. QED
  BY <1>1, <1>4, <1>5 DEF TypeOK, CopyRecord

LEMMA InitIInv == Init => IInv
<1>. SUFFICES ASSUME Init PROVE IInv
  OBVIOUS
<1>1. TypeOK
  BY InitTyped
<1>2. \A n \in Positions : entry[n] = NoEntry /\ entry[n].status = "NONE" /\ entry[n].topic = None
  BY DEF Init, NoEntry
<1>3. \A c \in Clients : job[c] = NoJob /\ job[c].stage = "idle"
  BY DEF Init, NoJob
<1>4. \A c \in Clients : run[c] = NoRun /\ run[c].plan = None
  BY DEF Init, NoRun
<1>5. \A p \in Plans : plan[p].status = "NONE"
  BY DEF Init, NoPlan
<1>6. \A t \in Sources : \A i \in DOMAIN topic[t] : topic[t][i].entry = 0
  BY InitTopic
<1>7. EntriesFormed /\ PlansFormed /\ CopiesKnown
  BY <1>2, <1>5, <1>6, DlqRecoveryAssumption DEF EntriesFormed, PlansFormed, CopiesKnown, Init
<1>8. JobsHold
  BY <1>3 DEF JobsHold
<1>9. AuditsMatch
  BY <1>2 DEF AuditsMatch, Settled, Init
<1>10. CopiesCounted
  <2>1. ASSUME NEW n \in Positions
        PROVE  Counted(n)
    <3>1. "telemetry" \in Sources /\ "created" \in Sources /\ 0 # n
      BY DlqRecoveryAssumption DEF Sources, Positions
    <3>2. CopyPlaces(topic["telemetry"], n) = {} /\ CopyPlaces(topic["created"], n) = {}
      BY <1>6, <3>1 DEF CopyPlaces
    <3>3. LateOf(late, n) = {} /\ lost = 0
      BY DEF Init, LateOf
    <3>4. Granted(n) \in {0, 1}
      BY DEF Granted
    <3>. QED
      BY <3>2, <3>3, <3>4, FS_EmptySet DEF Counted
  <2>. QED
    BY <2>1 DEF CopiesCounted
<1>11. SentIsThere
  BY <1>2, <1>3 DEF SentIsThere
<1>12. RunsCount
  BY <1>4 DEF RunsCount
<1>13. NothingUncatalogued /\ ExecutedMeansAll
  <2>1. 1 .. offset = {}
    BY DEF Init
  <2>. QED
    BY <1>5, <2>1 DEF NothingUncatalogued, ExecutedMeansAll
<1>. QED
  BY <1>1, <1>7, <1>8, <1>9, <1>10, <1>11, <1>12, <1>13 DEF IInv

-----------------------------------------------------------------------------
(* The forms of the steps *)

LettersGrow ==
    /\ letters' \in Seq(Letter) /\ Len(letters') <= MaxLetters
    /\ DOMAIN letters \subseteq DOMAIN letters'
    /\ \A n \in DOMAIN letters : letters'[n] = letters[n]

LEMMA AppendGrows ==
    ASSUME TypeOK, NEW x \in Letter, AppendLetter(x)
    PROVE  LettersGrow /\ Len(letters') = Len(letters) + 1 /\ letters'[Len(letters) + 1] = x
  BY DlqRecoveryAssumption DEF AppendLetter, LettersGrow, TypeOK

LEMMA CopyAdded ==
    ASSUME NEW s \in Seq(CopyRecord), NEW m \in Payloads, NEW x \in Positions
    PROVE  LET t == Append(s, [payload |-> m, entry |-> x])
           IN  /\ t \in Seq(CopyRecord)
               /\ DOMAIN t = DOMAIN s \cup {Len(s) + 1} /\ Len(s) + 1 \notin DOMAIN s
               /\ \A i \in DOMAIN s : t[i] = s[i]
               /\ t[Len(s) + 1].entry = x
  BY DEF CopyRecord

(* A publication adds a copy to a source topic, or a letter.               *)
LEMMA PublishSteps ==
    ASSUME TypeOK, EntriesFormed, NEW n \in Positions, entry[n] # NoEntry, Publish(n)
    PROVE  /\ LettersGrow
           /\ topic' \in [Sources -> Seq(CopyRecord)]
           /\ \/ /\ entry[n].topic \in Sources
                 /\ \E m \in Payloads :
                       topic' = [topic EXCEPT ![entry[n].topic] =
                                    Append(@, [payload |-> m, entry |-> n])]
              \/ entry[n].topic \notin Sources /\ UNCHANGED topic
<1>1. n \in DOMAIN letters /\ letters[n] \in Letter /\ letters[n].payload \in Payloads
  <2>1. n \in DOMAIN letters /\ letters \in Seq(Letter)
    BY DEF EntriesFormed, TypeOK
  <2>2. letters[n] \in Letter
    BY <2>1
  <2>. QED
    BY <2>1, <2>2 DEF Letter
<1>2. entry[n].topic \in Sources \/ entry[n].topic \in DeadTopics
  BY DEF EntriesFormed, Topics
<1>3. topic \in [Sources -> Seq(CopyRecord)]
  BY DEF TypeOK, CopyRecord
<1>4. CASE entry[n].topic \in Sources
  <2>1. topic' = [topic EXCEPT ![entry[n].topic] =
                     Append(@, [payload |-> letters[n].payload, entry |-> n])]
        /\ UNCHANGED letters
    BY <1>4 DEF Publish
  <2>2. topic' \in [Sources -> Seq(CopyRecord)]
    <3>1. Append(topic[entry[n].topic], [payload |-> letters[n].payload, entry |-> n])
             \in Seq(CopyRecord)
      BY <1>1, <1>3, <1>4, CopyAdded
    <3>. QED
      BY <1>3, <1>4, <2>1, <3>1, Zenon
  <2>. QED
    BY <1>1, <1>4, <2>1, <2>2 DEF LettersGrow, TypeOK, EntriesFormed
<1>5. CASE entry[n].topic \notin Sources
  <2>. DEFINE x == [on |-> entry[n].topic, payload |-> letters[n].payload,
                    from |-> None, pos |-> 0]
  <2>1. AppendLetter(x) /\ UNCHANGED topic
    BY <1>5 DEF Publish
  <2>2. x \in Letter
    BY <1>1, <1>2, <1>5 DEF Letter
  <2>3. LettersGrow
    BY <2>1, <2>2, AppendGrows
  <2>. QED
    BY <1>3, <1>5, <2>1, <2>3
<1>. QED
  BY <1>4, <1>5

(* An entry is what it was, or is new, or was recovered or deleted.        *)
Forward ==
    \A n \in Positions :
        /\ entry[n] # NoEntry => entry'[n] # NoEntry /\ entry'[n].topic = entry[n].topic
        /\ entry[n].status \in {"REPLAYED", "DISCARDED", "DELETED"} =>
              /\ entry'[n].status \in {entry[n].status, "DELETED"}
              /\ entry'[n].by = entry[n].by

LEMMA SettleMoves ==
    ASSUME TypeOK, NEW n \in Positions, entry[n].status = "PENDING",
           NEW action \in Settled, NEW op \in Operators, NEW k \in Keys \cup {None},
           Settle(n, action, op, k)
    PROVE  /\ entry' \in [Positions -> Entry]
           /\ audits' \in SUBSET Audit
           /\ entry'[n].status = action /\ entry'[n].by = op /\ entry'[n].topic = entry[n].topic
           /\ \A m \in Positions : m # n => entry'[m] = entry[m]
           /\ Forward
<1>1. entry' = [entry EXCEPT ![n] = [entry[n] EXCEPT !.status = action, !.by = op]]
  BY DEF Settle
<1>2. entry[n] \in Entry
  BY DEF TypeOK
<1>3. /\ entry'[n].status = action /\ entry'[n].by = op /\ entry'[n].topic = entry[n].topic
      /\ \A m \in Positions : m # n => entry'[m] = entry[m]
      /\ entry' \in [Positions -> Entry]
  BY <1>1, <1>2 DEF TypeOK, Entry, Settled
<1>4. audits' \in SUBSET Audit
  BY DEF Settle, TypeOK, Audit, Settled
<1>5. Forward
  BY <1>3 DEF Forward, Settled, NoEntry
<1>. QED
  BY <1>3, <1>4, <1>5

(* The recovery a client has under way.                                    *)
LEMMA JobIs ==
    ASSUME TypeOK, JobsHold, NEW c \in Clients, job[c] # NoJob
    PROVE  /\ job[c].entry \in Positions /\ job[c].by \in Operators
           /\ job[c].key \in Keys \cup {None} /\ entry[job[c].entry].status = "PENDING"
           /\ entry[job[c].entry] # NoEntry
           /\ job[c].stage \in {"sending", "sent"}
  BY DEF TypeOK, JobsHold, Job, NoEntry

LEMMA NoJobIs ==
    ASSUME NEW c \in Clients, job[c] = NoJob
    PROVE  job[c].stage = "idle" /\ job[c].entry = 0 /\ job[c].key = None
  BY DEF NoJob

LEMMA LockedBy ==
    ASSUME NEW n \in Positions
    PROVE  EntryLocked(n) <=> \E c \in Clients : job[c] # NoJob /\ job[c].entry = n
<1>1. n # 0
  BY DlqRecoveryAssumption DEF Positions
<1>. QED
  BY <1>1, NoJobIs DEF EntryLocked

(* What a step does to the entries and audits: nothing, or one entry is    *)
(* catalogued, recovered, or deleted with its audit.                       *)
LEMMA EntryCases ==
    ASSUME IInv, [Next]_vars
    PROVE  \/ UNCHANGED <<entry, audits>>
           \/ /\ \E n \in DOMAIN letters, t \in Topics :
                    /\ entry[n] = NoEntry
                    /\ entry' = [entry EXCEPT ![n] =
                                    [status |-> "PENDING", by |-> None, topic |-> t]]
              /\ UNCHANGED audits
           \/ \E n \in Positions, action \in Settled, op \in Operators, k \in Keys \cup {None} :
                 /\ entry[n].status = "PENDING"
                 /\ k # None => \A a \in audits : a.key # k
                 /\ Settle(n, action, op, k)
                 /\ action = "REPLAYED" => \E c \in Clients : CommitReplay(c) /\ n = job[c].entry
           \/ \E n \in Positions : Purge(n)
<1>. USE DEF IInv
<1>. DEFINE Recovery == \E n \in Positions, action \in Settled, op \in Operators,
                           k \in Keys \cup {None} :
               /\ entry[n].status = "PENDING"
               /\ k # None => \A a \in audits : a.key # k
               /\ Settle(n, action, op, k)
               /\ action = "REPLAYED" => \E c \in Clients : CommitReplay(c) /\ n = job[c].entry
<1>1. CASE Capture
  <2>1. offset + 1 \in DOMAIN letters /\ entry[offset + 1] = NoEntry /\ UNCHANGED audits
    BY <1>1 DEF Capture
  <2>2. letters[offset + 1] \in Letter
    BY <2>1 DEF TypeOK
  <2>3. (IF letters[offset + 1].from = None THEN "telemetry" ELSE letters[offset + 1].from) \in Topics
    BY <2>2 DEF Letter, Topics, Sources
  <2>. QED
    BY <1>1, <2>1, <2>3 DEF Capture
<1>2. ASSUME NEW c \in Clients, CommitReplay(c)
      PROVE  Recovery
  <2>1. job[c] # NoJob
    BY <1>2, NoJobIs DEF CommitReplay
  <2>2. Settle(job[c].entry, "REPLAYED", job[c].by, job[c].key)
    BY <1>2 DEF CommitReplay
  <2>3. job[c].key # None => \A a \in audits : a.key # job[c].key
    BY <2>1 DEF JobsHold
  <2>. QED
    BY <1>2, <2>1, <2>2, <2>3, JobIs DEF Settled
<1>3. ASSUME NEW c \in Clients, NEW n \in Positions, NEW op \in Operators, NEW k \in Keys,
             Discard(c, n, op, k)
      PROVE  Recovery
  <2>1. /\ entry[n].status = "PENDING" /\ "DISCARDED" \in Settled
        /\ k # None => \A a \in audits : a.key # k
        /\ Settle(n, "DISCARDED", op, k)
    BY <1>3 DEF Discard, NewKey, Settled
  <2>. QED
    BY <2>1
<1>4. ASSUME NEW c \in Clients, NEW n \in Positions, PlanDiscards(c, n)
      PROVE  Recovery
  <2>1. run[c] # NoRun
    BY <1>4 DEF PlanDiscards, NoRun
  <2>2. plan[run[c].plan].by \in Operators
    BY <2>1 DEF RunsCount, PlansFormed
  <2>3. /\ entry[n].status = "PENDING" /\ "DISCARDED" \in Settled
        /\ Settle(n, "DISCARDED", plan[run[c].plan].by, None)
    BY <1>4 DEF PlanDiscards, Settled
  <2>. QED
    BY <2>2, <2>3
<1>5. ASSUME NEW c \in Clients, Sent(c) \/ ReplayFails(c) \/ Complete(c) \/ CutOff(c)
      PROVE  UNCHANGED <<entry, audits>>
  BY <1>5 DEF Sent, ReplayFails, Complete, CutOff
<1>6. ASSUME NEW c \in Clients, NEW n \in Positions, PlanReplays(c, n) \/ PlanSkips(c, n)
      PROVE  UNCHANGED <<entry, audits>>
  BY <1>6 DEF PlanReplays, PlanSkips
<1>7. ASSUME NEW p \in Plans, NEW k \in Keys \cup {None}, Expire(p, k) \/ BindExecution(p, k)
      PROVE  UNCHANGED <<entry, audits>>
  BY <1>7 DEF Expire, BindExecution
<1>. HIDE DEF Recovery
<1>8. ASSUME Next
      PROVE  \/ UNCHANGED <<entry, audits>> \/ Capture \/ Recovery
             \/ \E n \in Positions : Purge(n)
  BY <1>2, <1>3, <1>4, <1>5, <1>6, <1>7, <1>8
  DEF Next, Quarantine, CommitOffset, CaptureFails, Replay, Prepare, Execute, AppendLate
<1>. QED
  BY <1>1, <1>8 DEF vars, Recovery

LEMMA PurgeMoves ==
    ASSUME TypeOK, NEW n \in Positions, Purge(n)
    PROVE  /\ entry' \in [Positions -> Entry]
           /\ entry[n].status \in Settled /\ entry'[n].status = "DELETED"
           /\ entry'[n].topic = entry[n].topic /\ entry'[n].by = entry[n].by
           /\ \A m \in Positions : m # n => entry'[m] = entry[m]
           /\ audits' = {a \in audits : a.entry # n}
<1>1. entry' = [entry EXCEPT ![n] = [entry[n] EXCEPT !.status = "DELETED"]]
      /\ entry[n].status \in Settled /\ audits' = {a \in audits : a.entry # n}
  BY DEF Purge, Settled
<1>2. entry[n] \in Entry /\ entry \in [Positions -> Entry]
  BY DEF TypeOK
<1>. DEFINE row == [entry[n] EXCEPT !.status = "DELETED"]
<1>3. /\ row \in Entry /\ row.status = "DELETED" /\ row.topic = entry[n].topic
      /\ row.by = entry[n].by
  BY <1>2 DEF Entry
<1>. HIDE DEF row
<1>4. entry' = [entry EXCEPT ![n] = row]
  BY <1>1 DEF row
<1>. QED
  BY <1>1, <1>2, <1>3, <1>4

LEMMA CaptureMoves ==
    ASSUME TypeOK, NEW n \in DOMAIN letters, NEW t \in Topics, entry[n] = NoEntry,
           entry' = [entry EXCEPT ![n] = [status |-> "PENDING", by |-> None, topic |-> t]]
    PROVE  /\ entry' \in [Positions -> Entry]
           /\ \A m \in Positions : m # n => entry'[m] = entry[m]
           /\ n \in Positions => entry'[n].status = "PENDING" /\ entry'[n].topic = t
<1>. DEFINE row == [status |-> "PENDING", by |-> None, topic |-> t]
<1>1. row \in Entry /\ row.status = "PENDING" /\ row.topic = t
  BY DEF Entry
<1>. HIDE DEF row
<1>2. entry' = [entry EXCEPT ![n] = row] /\ entry \in [Positions -> Entry]
  BY DEF row, TypeOK
<1>. QED
  BY <1>1, <1>2

LEMMA EntrySteps ==
    ASSUME IInv, [Next]_vars
    PROVE  entry' \in [Positions -> Entry] /\ Forward /\ audits' \in SUBSET Audit
<1>0. TypeOK /\ entry \in [Positions -> Entry] /\ audits \in SUBSET Audit
  BY DEF IInv, TypeOK
<1>1. CASE UNCHANGED <<entry, audits>>
  BY <1>0, <1>1 DEF Forward
<1>2. ASSUME NEW n \in DOMAIN letters, NEW t \in Topics, entry[n] = NoEntry, UNCHANGED audits,
             entry' = [entry EXCEPT ![n] = [status |-> "PENDING", by |-> None, topic |-> t]]
      PROVE  entry' \in [Positions -> Entry] /\ Forward /\ audits' \in SUBSET Audit
  <2>1. entry' \in [Positions -> Entry] /\ \A m \in Positions : entry'[m] = entry[m] \/ entry[m] = NoEntry
    BY <1>0, <1>2, CaptureMoves
  <2>. QED
    BY <1>0, <1>2, <2>1 DEF Forward, NoEntry
<1>3. ASSUME NEW n \in Positions, Purge(n)
      PROVE  entry' \in [Positions -> Entry] /\ Forward /\ audits' \in SUBSET Audit
  BY <1>0, <1>3, PurgeMoves DEF Forward, NoEntry, Settled
<1>. QED
  BY <1>0, <1>1, <1>2, <1>3, SettleMoves, EntryCases

(* What a step does to the topics and the letters: nothing, it adds a      *)
(* letter, or it publishes an entry.                                       *)
LEMMA TopicSteps ==
    ASSUME IInv, [Next]_vars
    PROVE  /\ topic' \in [Sources -> Seq(CopyRecord)]
           /\ LettersGrow
           /\ \/ UNCHANGED topic
              \/ \E c \in Clients : Sent(c)
              \/ \E l \in late : AppendLate(l)
<1>. USE DEF IInv
<1>0. topic \in [Sources -> Seq(CopyRecord)] /\ letters \in Seq(Letter)
  BY DEF TypeOK, CopyRecord
<1>1. UNCHANGED letters => LettersGrow
  BY <1>0 DEF LettersGrow, EntriesFormed
<1>2. ASSUME NEW t \in Sources, NEW n \in Positions, Quarantine(t, n)
      PROVE  LettersGrow /\ UNCHANGED topic
  <2>1. topic[t][n].payload \in Payloads
    <3>1. n \in DOMAIN topic[t] /\ topic[t] \in Seq(CopyRecord)
      BY <1>0, <1>2 DEF Quarantine
    <3>2. topic[t][n] \in CopyRecord
      BY <3>1
    <3>. QED
      BY <3>2 DEF CopyRecord
  <2>2. DeadOf[t] \in DeadTopics /\ t \in Topics /\ n \in Nat
    BY DlqRecoveryAssumption DEF DeadOf, DeadTopics, Sources, Topics, Positions
  <2>3. [on |-> DeadOf[t], payload |-> topic[t][n].payload, from |-> t, pos |-> n] \in Letter
    BY <2>1, <2>2 DEF Letter
  <2>. QED
    BY <1>2, <2>3, AppendGrows DEF Quarantine
<1>3. CASE CaptureFails
  <2>1. offset + 1 \in DOMAIN letters /\ letters[offset + 1] \in Letter
    BY <1>0, <1>3 DEF CaptureFails
  <2>. DEFINE x == [on |-> "telemetry.dlq", payload |-> letters[offset + 1].payload,
                    from |-> letters[offset + 1].on, pos |-> offset + 1]
  <2>2. x \in Letter
    BY <1>0, <2>1 DEF Letter, Topics, DeadTopics
  <2>3. AppendLetter(x) /\ UNCHANGED topic
    BY <1>3 DEF CaptureFails
  <2>. HIDE DEF x
  <2>. QED
    BY <2>2, <2>3, AppendGrows, <1>0
<1>4. ASSUME NEW c \in Clients, Sent(c)
      PROVE  LettersGrow /\ topic' \in [Sources -> Seq(CopyRecord)]
  <2>1. job[c] # NoJob
    BY <1>4, NoJobIs DEF Sent
  <2>. QED
    BY <1>4, <2>1, JobIs, PublishSteps DEF Sent
<1>5. ASSUME NEW l \in late, AppendLate(l)
      PROVE  LettersGrow /\ topic' \in [Sources -> Seq(CopyRecord)]
  <2>1. l.entry \in Positions /\ entry[l.entry] # NoEntry
    BY DEF CopiesKnown, TypeOK
  <2>. QED
    BY <1>5, <2>1, PublishSteps DEF AppendLate
<1>6. ASSUME NEW c \in Clients, CommitReplay(c) \/ ReplayFails(c) \/ Complete(c) \/ CutOff(c)
      PROVE  UNCHANGED <<topic, letters>>
  BY <1>6 DEF CommitReplay, ReplayFails, Complete, CutOff
<1>7. ASSUME NEW c \in Clients, NEW n \in Positions,
             PlanReplays(c, n) \/ PlanDiscards(c, n) \/ PlanSkips(c, n)
      PROVE  UNCHANGED <<topic, letters>>
  BY <1>7 DEF PlanReplays, PlanDiscards, PlanSkips
<1>8. ASSUME NEW p \in Plans, NEW k \in Keys \cup {None}, Expire(p, k) \/ BindExecution(p, k)
      PROVE  UNCHANGED <<topic, letters>>
  BY <1>8 DEF Expire, BindExecution
<1>9. CASE Next
  BY <1>0, <1>1, <1>2, <1>3, <1>4, <1>5, <1>6, <1>7, <1>8, <1>9
  DEF Next, Capture, CommitOffset, Replay, Discard, Prepare, Execute, Purge
<1>. QED
  BY <1>0, <1>1, <1>9 DEF vars

(* A recovery begins, sends, or ends.                                      *)
LEMMA JobSteps ==
    ASSUME IInv, [Next]_vars
    PROVE  \/ UNCHANGED job
           \/ /\ UNCHANGED <<entry, audits>>
              /\ \E c \in Clients, n \in Positions, op \in Operators, k \in Keys \cup {None} :
                    BeginReplay(c, n, op, k) /\ (run[c] = NoRun \/ PlanReplays(c, n))
           \/ \E c \in Clients : Sent(c)
           \/ \E c \in Clients : /\ CommitReplay(c) \/ ReplayFails(c) \/ CutOff(c)
                                 /\ job' = [job EXCEPT ![c] = NoJob]
<1>. DEFINE Begins == /\ UNCHANGED <<entry, audits>>
                      /\ \E c \in Clients, n \in Positions, op \in Operators,
                            k \in Keys \cup {None} :
                            BeginReplay(c, n, op, k) /\ (run[c] = NoRun \/ PlanReplays(c, n))
            Ends == \E c \in Clients : /\ CommitReplay(c) \/ ReplayFails(c) \/ CutOff(c)
                                       /\ job' = [job EXCEPT ![c] = NoJob]
<1>1. ASSUME NEW c \in Clients, NEW n \in Positions, PlanReplays(c, n)
      PROVE  Begins
  <2>1. run[c] # NoRun
    BY <1>1 DEF PlanReplays, NoRun
  <2>2. plan[run[c].plan].by \in Operators
    BY <2>1 DEF IInv, RunsCount, PlansFormed
  <2>. QED
    BY <1>1, <2>2 DEF PlanReplays
<1>2. ASSUME NEW c \in Clients, CommitReplay(c) \/ ReplayFails(c) \/ Complete(c) \/ CutOff(c)
      PROVE  UNCHANGED job \/ Ends
  BY <1>2 DEF CommitReplay, ReplayFails, Complete, CutOff
<1>3. ASSUME NEW c \in Clients, NEW n \in Positions, PlanDiscards(c, n) \/ PlanSkips(c, n)
      PROVE  UNCHANGED job
  BY <1>3 DEF PlanDiscards, PlanSkips
<1>4. ASSUME NEW p \in Plans, NEW k \in Keys \cup {None}, Expire(p, k) \/ BindExecution(p, k)
      PROVE  UNCHANGED job
  BY <1>4 DEF Expire, BindExecution
<1>5. ASSUME NEW c \in Clients, NEW n \in Positions, NEW op \in Operators, NEW k \in Keys,
             Replay(c, n, op, k)
      PROVE  Begins
  BY <1>5 DEF Replay
<1>. HIDE DEF Begins, Ends
<1>6. ASSUME Next
      PROVE  UNCHANGED job \/ Begins \/ (\E c \in Clients : Sent(c)) \/ Ends
  BY <1>1, <1>2, <1>3, <1>4, <1>5, <1>6
  DEF Next, Quarantine, Capture, CommitOffset, CaptureFails, Discard, Prepare, Execute, AppendLate, Purge
<1>. QED
  BY <1>6 DEF vars, Begins, Ends

LEMMA JobTyped == ASSUME IInv, [Next]_vars PROVE job' \in [Clients -> Job]
<1>0. job \in [Clients -> Job] /\ NoJob \in Job
  BY DEF IInv, TypeOK, Job, NoJob
<1>1. ASSUME NEW c \in Clients, NEW n \in Positions, NEW op \in Operators, NEW k \in Keys \cup {None},
             BeginReplay(c, n, op, k)
      PROVE  job' \in [Clients -> Job]
  BY <1>0, <1>1 DEF BeginReplay, Job
<1>2. ASSUME NEW c \in Clients, Sent(c)
      PROVE  job' \in [Clients -> Job]
  <2>1. [job[c] EXCEPT !.stage = "sent"] \in Job
    BY <1>0 DEF Job
  <2>2. job' = [job EXCEPT ![c] = [job[c] EXCEPT !.stage = "sent"]]
    BY <1>2 DEF Sent
  <2>. QED
    BY <1>0, <2>1, <2>2
<1>3. ASSUME NEW c \in Clients, job' = [job EXCEPT ![c] = NoJob]
      PROVE  job' \in [Clients -> Job]
  BY <1>0, <1>3
<1>. QED
  BY <1>0, <1>1, <1>2, <1>3, JobSteps

(* A job that is left alone, or begins, or has sent, or is over, one by    *)
(* one.                                                                    *)
JobAt(c, n, op, k, s) ==
    /\ job'[c] # NoJob /\ job'[c].entry = n /\ job'[c].by = op /\ job'[c].key = k
    /\ job'[c].stage = s
    /\ \A b \in Clients : b # c => job'[b] = job[b]

LEMMA BeginsAt ==
    ASSUME TypeOK, NEW c \in Clients, NEW n \in Positions, NEW op \in Operators,
           NEW k \in Keys \cup {None}, BeginReplay(c, n, op, k)
    PROVE  /\ JobAt(c, n, op, k, "sending") /\ entry[n].status = "PENDING"
           /\ \A b \in Clients : b # c => job[b].entry # n
           /\ k # None => /\ \A b \in Clients : job[b].key # k
                          /\ \A a \in audits : a.key # k
           /\ job[c] = NoJob
  BY DEF BeginReplay, JobAt, KeyLocked, NewKey, EntryLocked, TypeOK, NoJob

LEMMA SentAt ==
    ASSUME TypeOK, JobsHold, NEW c \in Clients, Sent(c)
    PROVE  /\ job[c] # NoJob /\ job[c].stage = "sending"
           /\ JobAt(c, job[c].entry, job[c].by, job[c].key, "sent")
           /\ UNCHANGED <<offset, entry, audits, plan, run, late, lost>>
<1>1. /\ job'[c] = [job[c] EXCEPT !.stage = "sent"] /\ job[c] \in Job
      /\ \A b \in Clients : b # c => job'[b] = job[b]
      /\ job[c].stage = "sending"
  BY DEF Sent, TypeOK
<1>2. job'[c].stage = "sent" /\ job'[c].entry = job[c].entry /\ job'[c].by = job[c].by
      /\ job'[c].key = job[c].key
  BY <1>1 DEF Job
<1>. QED
  BY <1>1, <1>2 DEF JobAt, NoJob, Sent

(* Plans and runs *)

LEMMA PlanTyped == ASSUME IInv, [Next]_vars PROVE plan' \in [Plans -> Plan] /\ PlansFormed'
<1>. USE DEF IInv
<1>0. plan \in [Plans -> Plan] /\ run \in [Clients -> Run]
  BY DEF TypeOK
<1>1. ASSUME UNCHANGED plan
      PROVE  plan' \in [Plans -> Plan] /\ PlansFormed'
  BY <1>0, <1>1 DEF PlansFormed
<1>2. ASSUME NEW p \in Plans, NEW action \in {"REPLAYED", "DISCARDED"}, NEW op \in Operators,
             NEW chosen \in SUBSET Positions, Prepare(p, action, op, chosen)
      PROVE  plan' \in [Plans -> Plan] /\ PlansFormed'
  <2>. DEFINE row == [NoPlan EXCEPT !.status = "PREPARED", !.action = action,
                                    !.by = op, !.entries = chosen]
  <2>1. row \in Plan /\ row.by \in Operators
    BY DEF Plan, NoPlan
  <2>2. plan' = [plan EXCEPT ![p] = row]
    BY <1>2 DEF Prepare
  <2>. HIDE DEF row
  <2>. QED
    BY <1>0, <2>1, <2>2 DEF PlansFormed
<1>3. ASSUME NEW p \in Plans, NEW k \in Keys \cup {None}, Expire(p, k) \/ BindExecution(p, k)
      PROVE  plan' \in [Plans -> Plan] /\ PlansFormed'
  <2>. DEFINE row == [plan[p] EXCEPT !.status = "EXPIRED", !.key = k]
              bound == [plan[p] EXCEPT !.key = k]
  <2>1. plan[p] \in Plan /\ plan[p].status # "NONE"
    BY <1>0, <1>3 DEF Expire, BindExecution
  <2>2. row \in Plan /\ row.by = plan[p].by /\ bound \in Plan /\ bound.by = plan[p].by
    BY <2>1 DEF Plan
  <2>3. plan' = [plan EXCEPT ![p] = row] \/ plan' = [plan EXCEPT ![p] = bound]
    BY <1>3 DEF Expire, BindExecution
  <2>. HIDE DEF row, bound
  <2>. QED
    BY <1>0, <2>1, <2>2, <2>3 DEF PlansFormed
<1>4. ASSUME NEW c \in Clients, Complete(c)
      PROVE  plan' \in [Plans -> Plan] /\ PlansFormed'
  <2>. DEFINE p == run[c].plan
              status == IF run[c].good = Cardinality(plan[p].entries) THEN "EXECUTED" ELSE "PARTIAL"
              row == [plan[p] EXCEPT !.good = run[c].good, !.key = run[c].key, !.status = status]
  <2>1. p \in Plans /\ plan[p] \in Plan /\ plan[p].status # "NONE"
    <3>1. run[c] # NoRun
      BY <1>4 DEF Complete, NoRun
    <3>. QED
      BY <1>0, <3>1 DEF RunsCount
  <2>2. run[c].good \in Nat /\ run[c].key \in Keys \cup {None} /\ status \in {"EXECUTED", "PARTIAL"}
    BY <1>0 DEF Run
  <2>3. plan' = [plan EXCEPT ![p] = row]
    BY <1>4 DEF Complete
  <2>. HIDE DEF p, status
  <2>4. row \in Plan /\ row.by = plan[p].by
    BY <2>1, <2>2 DEF Plan
  <2>. HIDE DEF row
  <2>. QED
    BY <1>0, <2>1, <2>3, <2>4 DEF PlansFormed
<1>5. ASSUME NEW c \in Clients, Sent(c) \/ CommitReplay(c) \/ ReplayFails(c) \/ CutOff(c)
      PROVE  UNCHANGED plan
  BY <1>5 DEF Sent, CommitReplay, ReplayFails, CutOff
<1>6. ASSUME NEW c \in Clients, NEW n \in Positions,
             PlanReplays(c, n) \/ PlanDiscards(c, n) \/ PlanSkips(c, n)
      PROVE  UNCHANGED plan
  BY <1>6 DEF PlanReplays, PlanDiscards, PlanSkips
<1>7. CASE Next
  BY <1>1, <1>2, <1>3, <1>4, <1>5, <1>6, <1>7
  DEF Next, Quarantine, Capture, CommitOffset, CaptureFails, Replay, Discard, Execute, AppendLate, Purge
<1>. QED
  BY <1>1, <1>7 DEF vars

(* A run is left alone, begins, goes on by one entry, or is over.          *)
LEMMA RunSteps ==
    ASSUME IInv, [Next]_vars
    PROVE  \/ UNCHANGED run
           \/ \E c \in Clients, p \in Plans, k \in Keys \cup {None} : Execute(c, p, k)
           \/ \E c \in Clients, n \in Positions :
                 \/ CommitReplay(c) /\ n = job[c].entry /\ run[c] # NoRun
                 \/ ReplayFails(c) /\ n = job[c].entry /\ run[c] # NoRun
                 \/ PlanDiscards(c, n)
                 \/ PlanSkips(c, n)
           \/ \E c \in Clients : Complete(c) \/ CutOff(c)
<1>1. ASSUME NEW c \in Clients, CommitReplay(c) \/ ReplayFails(c)
      PROVE  UNCHANGED run \/ (run[c] # NoRun /\ job[c].entry \in Positions)
  <2>1. job[c] # NoJob
    BY <1>1, NoJobIs DEF CommitReplay, ReplayFails
  <2>2. job[c].entry \in Positions
    BY <2>1, JobIs DEF IInv
  <2>. QED
    BY <1>1, <2>2 DEF CommitReplay, ReplayFails, Tick
<1>2. ASSUME NEW c \in Clients, Sent(c)
      PROVE  UNCHANGED run
  BY <1>2 DEF Sent
<1>3. ASSUME NEW p \in Plans, NEW k \in Keys \cup {None}, Expire(p, k) \/ BindExecution(p, k)
      PROVE  UNCHANGED run
  BY <1>3 DEF Expire, BindExecution
<1>4. CASE Next
  BY <1>1, <1>2, <1>3, <1>4
  DEF Next, Quarantine, Capture, CommitOffset, CaptureFails, Replay, Discard, Prepare, PlanReplays,
      AppendLate, Purge
<1>. QED
  BY <1>4 DEF vars

LEMMA TickMoves ==
    ASSUME TypeOK, NEW c \in Clients, run[c] # NoRun, NEW n \in Positions, NEW good \in {0, 1},
           Tick(c, n, good)
    PROVE  /\ run' \in [Clients -> Run]
           /\ run'[c].plan = run[c].plan /\ run'[c].key = run[c].key
           /\ run'[c].todo = run[c].todo \ {n} /\ run'[c].good = run[c].good + good
           /\ \A b \in Clients : b # c => run'[b] = run[b]
<1>. DEFINE row == [run[c] EXCEPT !.todo = run[c].todo \ {n}, !.good = run[c].good + good]
<1>0. run[c] \in Run /\ run \in [Clients -> Run]
  BY DEF TypeOK
<1>1. run' = [run EXCEPT ![c] = row]
  BY DEF Tick
<1>2. /\ row \in Run /\ row.plan = run[c].plan /\ row.key = run[c].key
      /\ row.todo = run[c].todo \ {n} /\ row.good = run[c].good + good
  <2>1. run[c].todo \ {n} \in SUBSET Positions /\ run[c].good + good \in Nat
    BY <1>0 DEF Run
  <2>. QED
    BY <1>0, <2>1 DEF Run
<1>. HIDE DEF row
<1>. QED
  BY <1>0, <1>1, <1>2

LEMMA BeginsRun ==
    ASSUME TypeOK, NEW c \in Clients, NEW p \in Plans, NEW k \in Keys \cup {None}, Execute(c, p, k)
    PROVE  /\ run' \in [Clients -> Run]
           /\ run'[c].plan = p /\ run'[c].todo = plan[p].entries /\ run'[c].good = 0
           /\ \A b \in Clients : b # c => run'[b] = run[b]
<1>. DEFINE row == [plan |-> p, key |-> k, todo |-> plan[p].entries, good |-> 0]
<1>1. run' = [run EXCEPT ![c] = row]
  BY DEF Execute
<1>2. plan[p].entries \in SUBSET Positions
  BY DEF TypeOK, Plan
<1>3. row \in Run /\ row.plan = p /\ row.todo = plan[p].entries /\ row.good = 0
  BY <1>2 DEF Run
<1>. HIDE DEF row
<1>. QED
  BY <1>1, <1>3 DEF TypeOK

(* The numbers of what a run goes on by.                                   *)
LEMMA RunTicks ==
    ASSUME IInv, NEW c \in Clients, NEW n \in Positions,
           \/ CommitReplay(c) /\ n = job[c].entry /\ run[c] # NoRun
           \/ ReplayFails(c) /\ n = job[c].entry /\ run[c] # NoRun
           \/ PlanDiscards(c, n)
           \/ PlanSkips(c, n)
    PROVE  /\ run[c] # NoRun /\ n \in run[c].todo
           /\ \E good \in {0, 1} :
                 /\ Tick(c, n, good)
                 /\ good = 1 => \/ CommitReplay(c) /\ n = job[c].entry
                                \/ PlanDiscards(c, n)
                                \/ PlanSkips(c, n) /\ Already(run[c].plan, n)
<1>1. CASE (CommitReplay(c) \/ ReplayFails(c)) /\ n = job[c].entry /\ run[c] # NoRun
  <2>1. job[c] # NoJob
    BY <1>1, NoJobIs DEF CommitReplay, ReplayFails
  <2>2. n \in run[c].todo
    BY <1>1, <2>1 DEF IInv, RunsCount
  <2>. QED
    BY <1>1, <2>2 DEF CommitReplay, ReplayFails
<1>2. CASE PlanDiscards(c, n)
  BY <1>2 DEF PlanDiscards, NoRun
<1>3. CASE PlanSkips(c, n)
  BY <1>3 DEF PlanSkips, NoRun
<1>. QED
  BY <1>1, <1>2, <1>3

LEMMA RunTyped == ASSUME IInv, [Next]_vars PROVE run' \in [Clients -> Run]
<1>0. TypeOK /\ run \in [Clients -> Run] /\ NoRun \in Run
  BY DEF IInv, TypeOK, Run, NoRun
<1>1. ASSUME NEW c \in Clients, Complete(c) \/ CutOff(c)
      PROVE  run' \in [Clients -> Run]
  BY <1>0, <1>1 DEF Complete, CutOff
<1>. QED
  BY <1>0, <1>1, RunSteps, RunTicks, TickMoves, BeginsRun

-----------------------------------------------------------------------------
(* The invariant, part by part *)

LEMMA SettleForms ==
    ASSUME TypeOK, EntriesFormed, LettersGrow, NEW n \in Positions, entry[n].status = "PENDING",
           NEW action \in Settled, NEW op \in Operators, NEW k \in Keys \cup {None},
           Settle(n, action, op, k)
    PROVE  EntriesFormed'
<1>1. /\ entry'[n].status = action /\ entry'[n].topic = entry[n].topic
      /\ \A m \in Positions : m # n => entry'[m] = entry[m]
  BY SettleMoves
<1>2. action # "NONE"
  BY DEF Settled
<1>. QED
  BY <1>1, <1>2 DEF EntriesFormed, LettersGrow, NoEntry

LEMMA FormedStays == ASSUME IInv, [Next]_vars PROVE EntriesFormed'
<1>0. LettersGrow /\ TypeOK /\ EntriesFormed
  BY TopicSteps DEF IInv
<1>1. CASE UNCHANGED <<entry, audits>>
  BY <1>0, <1>1 DEF EntriesFormed, LettersGrow
<1>2. ASSUME NEW n \in DOMAIN letters, NEW t \in Topics, entry[n] = NoEntry,
             entry' = [entry EXCEPT ![n] = [status |-> "PENDING", by |-> None, topic |-> t]]
      PROVE  EntriesFormed'
  BY <1>0, <1>2, CaptureMoves DEF EntriesFormed, LettersGrow, NoEntry
<1>3. ASSUME NEW n \in Positions, Purge(n)
      PROVE  EntriesFormed'
  BY <1>0, <1>3, PurgeMoves DEF EntriesFormed, LettersGrow, NoEntry, Settled
<1>. QED
  BY <1>0, <1>1, <1>2, <1>3, SettleForms, EntryCases

(* Nobody else touches the entry of a recovery under way, or uses its key. *)
LEMMA LockedStays ==
    ASSUME IInv, [Next]_vars, NEW b \in Clients, job[b] # NoJob, job'[b] = job[b]
    PROVE  /\ entry'[job[b].entry] = entry[job[b].entry]
           /\ job[b].key # None => \A a \in audits' : a.key # job[b].key
<1>. USE DEF IInv
<1>0. /\ job[b].entry \in Positions /\ entry[job[b].entry].status = "PENDING"
      /\ job[b].key # None => \A a \in audits : a.key # job[b].key
      /\ entry \in [Positions -> Entry]
  BY DEF JobsHold, TypeOK
<1>1. ASSUME UNCHANGED <<entry, audits>>
      PROVE  /\ entry'[job[b].entry] = entry[job[b].entry]
             /\ job[b].key # None => \A a \in audits' : a.key # job[b].key
  BY <1>0, <1>1
<1>s. ASSUME NEW n \in Positions, n # job[b].entry, NEW action \in Settled, NEW op \in Operators,
             NEW k \in Keys \cup {None}, k # job[b].key \/ k = None, Settle(n, action, op, k)
      PROVE  /\ entry'[job[b].entry] = entry[job[b].entry]
             /\ job[b].key # None => \A a \in audits' : a.key # job[b].key
  BY <1>0, <1>s DEF Settle
<1>2. CASE Capture
  <2>1. entry[offset + 1] = NoEntry /\ UNCHANGED audits
        /\ \A m \in Positions : m # offset + 1 => entry'[m] = entry[m]
    BY <1>0, <1>2 DEF Capture
  <2>. QED
    BY <1>0, <2>1 DEF NoEntry
<1>3. ASSUME NEW c \in Clients, CommitReplay(c)
      PROVE  /\ entry'[job[b].entry] = entry[job[b].entry]
             /\ job[b].key # None => \A a \in audits' : a.key # job[b].key
  <2>1. job[c] # NoJob
    BY <1>3, NoJobIs DEF CommitReplay
  <2>2. Settle(job[c].entry, "REPLAYED", job[c].by, job[c].key) /\ job'[c] = NoJob
    BY <1>3 DEF CommitReplay, TypeOK
  <2>3. b # c
    BY <2>1, <2>2
  <2>4. job[c].entry # job[b].entry /\ (job[b].key # None => job[b].key # job[c].key)
    BY <2>1, <2>3 DEF JobsHold
  <2>. QED
    BY <1>s, <2>1, <2>2, <2>4, JobIs DEF Settled
<1>4. ASSUME NEW c \in Clients, NEW n \in Positions, NEW op \in Operators, NEW k \in Keys,
             Discard(c, n, op, k)
      PROVE  /\ entry'[job[b].entry] = entry[job[b].entry]
             /\ job[b].key # None => \A a \in audits' : a.key # job[b].key
  <2>1. Settle(n, "DISCARDED", op, k) /\ n # job[b].entry /\ (k # job[b].key \/ k = None)
    BY <1>4 DEF Discard, EntryLocked, KeyLocked
  <2>. QED
    BY <1>s, <2>1 DEF Settled
<1>5. ASSUME NEW c \in Clients, NEW n \in Positions, PlanDiscards(c, n)
      PROVE  /\ entry'[job[b].entry] = entry[job[b].entry]
             /\ job[b].key # None => \A a \in audits' : a.key # job[b].key
  <2>1. run[c] # NoRun
    BY <1>5 DEF PlanDiscards, NoRun
  <2>2. plan[run[c].plan].by \in Operators
    BY <2>1 DEF RunsCount, PlansFormed
  <2>3. Settle(n, "DISCARDED", plan[run[c].plan].by, None) /\ n # job[b].entry
    BY <1>5 DEF PlanDiscards, EntryLocked
  <2>. QED
    BY <1>s, <2>2, <2>3 DEF Settled
<1>6. ASSUME NEW n \in Positions, Purge(n)
      PROVE  /\ entry'[job[b].entry] = entry[job[b].entry]
             /\ job[b].key # None => \A a \in audits' : a.key # job[b].key
  <2>1. n # job[b].entry /\ audits' \subseteq audits /\ entry' = [entry EXCEPT ![n].status = "DELETED"]
    BY <1>6 DEF Purge, EntryLocked
  <2>. QED
    BY <1>0, <2>1
<1>7. ASSUME NEW c \in Clients, Sent(c) \/ ReplayFails(c) \/ Complete(c) \/ CutOff(c)
      PROVE  UNCHANGED <<entry, audits>>
  BY <1>7 DEF Sent, ReplayFails, Complete, CutOff
<1>8. ASSUME NEW c \in Clients, NEW n \in Positions, PlanReplays(c, n) \/ PlanSkips(c, n)
      PROVE  UNCHANGED <<entry, audits>>
  BY <1>8 DEF PlanReplays, PlanSkips
<1>9. ASSUME NEW p \in Plans, NEW k \in Keys \cup {None}, Expire(p, k) \/ BindExecution(p, k)
      PROVE  UNCHANGED <<entry, audits>>
  BY <1>9 DEF Expire, BindExecution
<1>10. CASE Next
  BY <1>1, <1>2, <1>3, <1>4, <1>5, <1>6, <1>7, <1>8, <1>9, <1>10
  DEF Next, Quarantine, CommitOffset, CaptureFails, Replay, Prepare, Execute, AppendLate
<1>. QED
  BY <1>1, <1>10 DEF vars

(* JobsHold, of one recovery and of two.                                   *)
Holds(c) ==
    job[c] # NoJob =>
        /\ job[c].stage # "idle" /\ job[c].entry \in Positions /\ job[c].by \in Operators
        /\ entry[job[c].entry].status = "PENDING"
        /\ job[c].key # None => \A a \in audits : a.key # job[c].key

Apart(b, c) ==
    b # c /\ job[b] # NoJob /\ job[c] # NoJob =>
        /\ job[b].entry # job[c].entry
        /\ job[b].key # None => job[b].key # job[c].key

LEMMA JobsStay == ASSUME IInv, [Next]_vars PROVE JobsHold'
<1>. USE DEF IInv
<1>0. TypeOK /\ JobsHold
  OBVIOUS
<1>1. ASSUME NEW b \in Clients, job'[b] = job[b] PROVE Holds(b)'
  BY <1>0, <1>1, LockedStays DEF Holds, JobsHold
<1>2. ASSUME NEW b \in Clients, NEW c \in Clients, job'[b] = job[b], job'[c] = job[c]
      PROVE  Apart(b, c)'
  BY <1>0, <1>2 DEF Apart, JobsHold
<1>3. CASE UNCHANGED job
  BY <1>1, <1>2, <1>3 DEF JobsHold, Holds, Apart
<1>4. ASSUME NEW c \in Clients, NEW n \in Positions, NEW op \in Operators, NEW k \in Keys \cup {None},
             NEW s \in {"sending", "sent"}, JobAt(c, n, op, k, s), entry'[n].status = "PENDING",
             \A b \in Clients : b # c => job[b].entry # n,
             k # None => /\ \A b \in Clients : b # c => job[b].key # k
                         /\ \A a \in audits' : a.key # k
      PROVE  JobsHold'
  <2>1. \A b \in Clients : Holds(b)'
    BY <1>1, <1>4 DEF JobAt, Holds
  <2>2. \A a, b \in Clients : Apart(a, b)'
    BY <1>2, <1>4 DEF JobAt, Apart
  <2>. QED
    BY <2>1, <2>2 DEF JobsHold, Holds, Apart
<1>5. ASSUME NEW c \in Clients, NEW n \in Positions, NEW op \in Operators, NEW k \in Keys \cup {None},
             BeginReplay(c, n, op, k), UNCHANGED <<entry, audits>>
      PROVE  JobsHold'
  <2>1. /\ JobAt(c, n, op, k, "sending") /\ entry'[n].status = "PENDING"
        /\ \A b \in Clients : b # c => job[b].entry # n
        /\ k # None => /\ \A b \in Clients : b # c => job[b].key # k
                       /\ \A a \in audits' : a.key # k
    BY <1>5, BeginsAt
  <2>. QED
    BY <1>4, <2>1
<1>6. ASSUME NEW c \in Clients, Sent(c)
      PROVE  JobsHold'
  <2>1. /\ job[c] # NoJob /\ JobAt(c, job[c].entry, job[c].by, job[c].key, "sent")
        /\ UNCHANGED <<entry, audits>>
    BY <1>6, SentAt
  <2>2. ASSUME NEW b \in Clients, b # c
        PROVE  job[b].entry # job[c].entry /\ (job[c].key # None => job[b].key # job[c].key)
    <3>1. CASE job[b] = NoJob
      BY <2>1, <3>1, NoJobIs, JobIs, DlqRecoveryAssumption DEF Positions
    <3>2. CASE job[b] # NoJob
      BY <2>1, <2>2, <3>2 DEF JobsHold
    <3>. QED
      BY <3>1, <3>2
  <2>3. /\ job[c].entry \in Positions /\ job[c].by \in Operators /\ job[c].key \in Keys \cup {None}
        /\ entry[job[c].entry].status = "PENDING"
        /\ job[c].key # None => \A a \in audits : a.key # job[c].key
    BY <2>1, JobIs DEF JobsHold
  <2>. QED
    BY <1>4, <2>1, <2>2, <2>3
<1>7. ASSUME NEW c \in Clients, job' = [job EXCEPT ![c] = NoJob]
      PROVE  JobsHold'
  <2>1. job'[c] = NoJob /\ \A b \in Clients : b # c => job'[b] = job[b]
    BY <1>7 DEF TypeOK
  <2>2. \A b \in Clients : Holds(b)'
    BY <1>1, <2>1 DEF Holds
  <2>3. \A a, b \in Clients : Apart(a, b)'
    BY <1>2, <2>1 DEF Apart
  <2>. QED
    BY <2>2, <2>3 DEF JobsHold, Holds, Apart
<1>. QED
  BY <1>3, <1>5, <1>6, <1>7, JobSteps

(* The audits *)

LEMMA SettleAudits ==
    ASSUME TypeOK, AuditsMatch, NEW n \in Positions, entry[n].status = "PENDING",
           NEW action \in Settled, NEW op \in Operators, NEW k \in Keys \cup {None},
           k # None => \A a \in audits : a.key # k, Settle(n, action, op, k)
    PROVE  AuditsMatch'
<1>1. /\ entry'[n].status = action /\ entry'[n].by = op
      /\ \A m \in Positions : m # n => entry'[m] = entry[m]
  BY SettleMoves
<1>. DEFINE x == [entry |-> n, action |-> action, by |-> op, key |-> k]
<1>2. x.entry = n /\ x.action = action /\ x.by = op /\ x.key = k
  OBVIOUS
<1>. HIDE DEF x
<1>3. audits' = audits \cup {x}
  BY DEF Settle, x
<1>4. \A a \in audits : a.entry # n
  BY DEF AuditsMatch, Settled
<1>5. \A m \in Positions : entry'[m].status \notin Settled => \A a \in audits' : a.entry # m
  BY <1>1, <1>2, <1>3 DEF AuditsMatch
<1>6. ASSUME NEW m \in Positions, entry'[m].status \in Settled
      PROVE  \E a \in audits' :
                /\ a.entry = m /\ a.action = entry'[m].status /\ a.by = entry'[m].by
                /\ \A b \in audits' : b.entry = m => b = a
  <2>1. CASE m = n
    BY <1>1, <1>2, <1>3, <1>4, <2>1
  <2>2. CASE m # n
    <3>1. PICK a \in audits :
             /\ a.entry = m /\ a.action = entry[m].status /\ a.by = entry[m].by
             /\ \A b \in audits : b.entry = m => b = a
      BY <1>1, <1>6, <2>2 DEF AuditsMatch
    <3>. QED
      BY <1>1, <1>2, <1>3, <2>2, <3>1
  <2>. QED
    BY <2>1, <2>2
<1>7. \A a, b \in audits' : a.key = b.key /\ a.key # None => a = b
  BY <1>2, <1>3 DEF AuditsMatch
<1>. QED
  BY <1>5, <1>6, <1>7 DEF AuditsMatch

LEMMA AuditsStay == ASSUME IInv, [Next]_vars PROVE AuditsMatch'
<1>0. TypeOK /\ AuditsMatch
  BY DEF IInv
<1>1. CASE UNCHANGED <<entry, audits>>
  BY <1>0, <1>1 DEF AuditsMatch
<1>2. ASSUME NEW n \in DOMAIN letters, NEW t \in Topics, entry[n] = NoEntry, UNCHANGED audits,
             entry' = [entry EXCEPT ![n] = [status |-> "PENDING", by |-> None, topic |-> t]]
      PROVE  AuditsMatch'
  <2>1. \A m \in Positions : \/ entry'[m] = entry[m]
                             \/ entry[m].status \notin Settled /\ entry'[m].status \notin Settled
    BY <1>0, <1>2, CaptureMoves DEF NoEntry, Settled
  <2>. QED
    BY <1>0, <1>2, <2>1 DEF AuditsMatch
<1>3. ASSUME NEW n \in Positions, Purge(n)
      PROVE  AuditsMatch'
  <2>1. /\ entry'[n].status \notin Settled
        /\ \A m \in Positions : m # n => entry'[m] = entry[m]
        /\ audits' = {a \in audits : a.entry # n}
    BY <1>0, <1>3, PurgeMoves DEF Settled
  <2>2. \A m \in Positions : entry'[m].status \notin Settled => \A a \in audits' : a.entry # m
    BY <1>0, <2>1 DEF AuditsMatch
  <2>3. ASSUME NEW m \in Positions, entry'[m].status \in Settled
        PROVE  \E a \in audits' :
                  /\ a.entry = m /\ a.action = entry'[m].status /\ a.by = entry'[m].by
                  /\ \A b \in audits' : b.entry = m => b = a
    <3>1. PICK a \in audits :
             /\ a.entry = m /\ a.action = entry[m].status /\ a.by = entry[m].by
             /\ \A b \in audits : b.entry = m => b = a
      BY <1>0, <2>1, <2>3 DEF AuditsMatch
    <3>. QED
      BY <2>1, <2>3, <3>1
  <2>4. \A a, b \in audits' : a.key = b.key /\ a.key # None => a = b
    BY <1>0, <2>1 DEF AuditsMatch
  <2>. QED
    BY <2>2, <2>3, <2>4 DEF AuditsMatch
<1>. QED
  BY <1>0, <1>1, <1>2, <1>3, SettleAudits, EntryCases

(* The catalog *)

LEMMA OffsetSteps ==
    ASSUME IInv, [Next]_vars
    PROVE  UNCHANGED offset \/ CommitOffset \/ CaptureFails
<1>1. ASSUME NEW c \in Clients,
             Sent(c) \/ CommitReplay(c) \/ ReplayFails(c) \/ Complete(c) \/ CutOff(c)
      PROVE  UNCHANGED offset
  BY <1>1 DEF Sent, CommitReplay, ReplayFails, Complete, CutOff
<1>2. ASSUME NEW c \in Clients, NEW n \in Positions,
             PlanReplays(c, n) \/ PlanDiscards(c, n) \/ PlanSkips(c, n)
      PROVE  UNCHANGED offset
  BY <1>2 DEF PlanReplays, PlanDiscards, PlanSkips
<1>3. ASSUME NEW p \in Plans, NEW k \in Keys \cup {None}, Expire(p, k) \/ BindExecution(p, k)
      PROVE  UNCHANGED offset
  BY <1>3 DEF Expire, BindExecution
<1>4. CASE Next
  BY <1>1, <1>2, <1>3, <1>4
  DEF Next, Quarantine, Capture, Replay, Discard, Prepare, Execute, AppendLate, Purge
<1>. QED
  BY <1>4 DEF vars

(* A record that the catalog may pass over.                                *)
Catalogued(n) ==
    \/ entry[n] # NoEntry
    \/ \E m \in DOMAIN letters : /\ entry[m] # NoEntry
                                 /\ letters[m].from = letters[n].from
                                 /\ letters[m].pos = letters[n].pos
    \/ \E m \in DOMAIN letters : letters[m].from = letters[n].on /\ letters[m].pos = n

LEMMA OffsetTyped ==
    ASSUME IInv, [Next]_vars
    PROVE  offset' \in 0 .. Len(letters') /\ NothingUncatalogued'
<1>. USE DEF IInv
<1>0. /\ LettersGrow /\ Forward /\ letters \in Seq(Letter) /\ offset \in 0 .. Len(letters)
      /\ Len(letters) <= MaxLetters
  BY TopicSteps, EntrySteps DEF TypeOK, EntriesFormed
<1>1. /\ DOMAIN letters = 1 .. Len(letters) /\ Len(letters) \in Nat
      /\ DOMAIN letters' = 1 .. Len(letters') /\ Len(letters') \in Nat
  BY <1>0 DEF LettersGrow
<1>2. Len(letters) <= Len(letters')
  BY <1>0, <1>1 DEF LettersGrow
<1>3. DOMAIN letters \subseteq Positions /\ 1 .. offset \subseteq DOMAIN letters
  BY <1>0, <1>1, DlqRecoveryAssumption DEF Positions
<1>4. ASSUME NEW n \in DOMAIN letters, Catalogued(n)
      PROVE  Catalogued(n)'
  <2>1. n \in Positions /\ letters'[n] = letters[n]
    BY <1>0, <1>3 DEF LettersGrow
  <2>2. ASSUME NEW m \in DOMAIN letters
        PROVE  /\ m \in DOMAIN letters' /\ letters'[m] = letters[m]
               /\ entry[m] # NoEntry => entry'[m] # NoEntry
    BY <1>0, <1>3 DEF LettersGrow, Forward
  <2>. QED
    BY <1>4, <2>1, <2>2 DEF Catalogued
<1>5. \A n \in 1 .. offset : Catalogued(n)'
  BY <1>3, <1>4 DEF NothingUncatalogued, Catalogued
<1>6. CASE UNCHANGED offset
  BY <1>0, <1>1, <1>2, <1>5, <1>6 DEF NothingUncatalogued, Catalogued
<1>7. CASE CommitOffset
  <2>0. PICK n : n = offset + 1
    OBVIOUS
  <2>1. n \in DOMAIN letters /\ offset' = n /\ (entry[n] # NoEntry \/ SameOrigin(letters[n]) # {})
    BY <1>7, <2>0 DEF CommitOffset
  <2>2. Catalogued(n)
    BY <1>3, <2>1 DEF Catalogued, SameOrigin, NoEntry
  <2>3. Catalogued(n)'
    BY <1>4, <2>1, <2>2
  <2>4. offset' \in 0 .. Len(letters') /\ 1 .. offset' = (1 .. offset) \cup {n}
    BY <1>0, <1>1, <1>2, <2>0, <2>1
  <2>. QED
    BY <1>5, <2>3, <2>4 DEF NothingUncatalogued, Catalogued
<1>8. CASE CaptureFails
  <2>0. PICK n : n = offset + 1
    OBVIOUS
  <2>. DEFINE m == Len(letters) + 1
              x == [on |-> "telemetry.dlq", payload |-> letters[n].payload,
                    from |-> letters[n].on, pos |-> n]
  <2>1. n \in DOMAIN letters /\ offset' = n /\ letters' = Append(letters, x)
    BY <1>8, <2>0 DEF CaptureFails, AppendLetter
  <2>2. m \in DOMAIN letters' /\ letters'[m] = x
    BY <1>0, <2>1
  <2>3. letters'[n] = letters[n]
    BY <1>0, <2>1 DEF LettersGrow
  <2>4. letters'[m].from = letters'[n].on /\ letters'[m].pos = n
    BY <2>2, <2>3
  <2>5. offset' \in 0 .. Len(letters') /\ 1 .. offset' = (1 .. offset) \cup {n}
    BY <1>0, <1>1, <1>2, <2>0, <2>1
  <2>. HIDE DEF m, x
  <2>6. Catalogued(n)'
    BY <2>2, <2>4 DEF Catalogued
  <2>. QED
    BY <1>5, <2>5, <2>6 DEF NothingUncatalogued, Catalogued
<1>. QED
  BY <1>6, <1>7, <1>8, OffsetSteps

(* Copies *)

LEMMA CopyPlacesFinite ==
    ASSUME NEW s \in Seq(CopyRecord), NEW k
    PROVE  IsFiniteSet(CopyPlaces(s, k)) /\ Cardinality(CopyPlaces(s, k)) \in Nat
<1>1. DOMAIN s = 1 .. Len(s) /\ Len(s) \in Int /\ 1 \in Int
  OBVIOUS
<1>2. IsFiniteSet(1 .. Len(s))
  BY <1>1, FS_Interval
<1>3. CopyPlaces(s, k) \in SUBSET (1 .. Len(s))
  BY <1>1 DEF CopyPlaces
<1>4. IsFiniteSet(CopyPlaces(s, k))
  BY <1>2, <1>3, FS_Subset
<1>. QED
  BY <1>4, FS_CardinalityType

LEMMA CopyAppend ==
    ASSUME NEW s \in Seq(CopyRecord), NEW x \in CopyRecord, NEW n, x.entry = n, NEW k
    PROVE  LET t == Append(s, x) IN
           /\ n = k => /\ Cardinality(CopyPlaces(t, k)) = Cardinality(CopyPlaces(s, k)) + 1
                       /\ CopyPlaces(t, k) # {}
           /\ n # k => CopyPlaces(t, k) = CopyPlaces(s, k)
<1>. DEFINE z == Len(s) + 1
            t == Append(s, x)
<1>1. /\ DOMAIN t = (DOMAIN s) \cup {z} /\ z \notin DOMAIN s
      /\ \A i \in DOMAIN s : t[i] = s[i]
      /\ t[z].entry = n
  OBVIOUS
<1>. HIDE DEF z, t
<1>2. n # k => CopyPlaces(t, k) = CopyPlaces(s, k)
  BY <1>1 DEF CopyPlaces
<1>3. n = k => CopyPlaces(t, k) = CopyPlaces(s, k) \cup {z}
  BY <1>1 DEF CopyPlaces
<1>4. z \notin CopyPlaces(s, k)
  BY <1>1 DEF CopyPlaces
<1>5. Cardinality(CopyPlaces(s, k) \cup {z}) = Cardinality(CopyPlaces(s, k)) + 1
  BY <1>4, CopyPlacesFinite, FS_AddElement
<1>6. /\ n = k => /\ Cardinality(CopyPlaces(t, k)) = Cardinality(CopyPlaces(s, k)) + 1
                  /\ CopyPlaces(t, k) # {}
      /\ n # k => CopyPlaces(t, k) = CopyPlaces(s, k)
  BY <1>2, <1>3, <1>5
<1>. QED
  BY <1>6 DEF t

(* What a publication of entry n does to the copies of k in topic u.       *)
LEMMA PublishedPlaces ==
    ASSUME IInv, NEW n \in Positions, entry[n] # NoEntry, Publish(n),
           NEW u \in Sources, NEW k \in Positions
    PROVE  /\ n = k /\ u = entry[n].topic =>
                 /\ Cardinality(CopyPlaces(topic'[u], k)) = Cardinality(CopyPlaces(topic[u], k)) + 1
                 /\ CopyPlaces(topic'[u], k) # {}
           /\ n # k \/ u # entry[n].topic => CopyPlaces(topic'[u], k) = CopyPlaces(topic[u], k)
<1>1. topic \in [Sources -> Seq(CopyRecord)]
  BY DEF IInv, TypeOK, CopyRecord
<1>2. \/ UNCHANGED topic /\ entry[n].topic \notin Sources
      \/ /\ entry[n].topic \in Sources
         /\ \E m \in Payloads :
               topic' = [topic EXCEPT ![entry[n].topic] = Append(@, [payload |-> m, entry |-> n])]
  BY PublishSteps DEF IInv
<1>3. ASSUME NEW m \in Payloads, entry[n].topic \in Sources,
             topic' = [topic EXCEPT ![entry[n].topic] = Append(@, [payload |-> m, entry |-> n])]
      PROVE  /\ n = k /\ u = entry[n].topic =>
                   /\ Cardinality(CopyPlaces(topic'[u], k))
                         = Cardinality(CopyPlaces(topic[u], k)) + 1
                   /\ CopyPlaces(topic'[u], k) # {}
             /\ n # k \/ u # entry[n].topic => CopyPlaces(topic'[u], k) = CopyPlaces(topic[u], k)
  <2>1. CASE u = entry[n].topic
    <3>0. PICK s, t, x : s = topic[u] /\ t = topic'[u] /\ x = [payload |-> m, entry |-> n]
      OBVIOUS
    <3>1. s \in Seq(CopyRecord) /\ t = Append(s, x) /\ x \in CopyRecord /\ x.entry = n
      BY <1>1, <1>3, <2>1, <3>0 DEF CopyRecord
    <3>2. /\ n = k => /\ Cardinality(CopyPlaces(t, k)) = Cardinality(CopyPlaces(s, k)) + 1
                      /\ CopyPlaces(t, k) # {}
          /\ n # k => CopyPlaces(t, k) = CopyPlaces(s, k)
      BY <3>1, CopyAppend
    <3>. QED
      BY <2>1, <3>0, <3>2
  <2>2. CASE u # entry[n].topic
    <3>1. topic'[u] = topic[u]
      BY <1>1, <1>3, <2>2
    <3>. QED
      BY <2>2, <3>1
  <2>. QED
    BY <2>1, <2>2
<1>. QED
  BY <1>2, <1>3

(* Only a publication adds a copy, and nothing takes one away.             *)
LEMMA CopiesGrow ==
    ASSUME IInv, [Next]_vars, NEW u \in Sources, NEW k \in Positions, CopyPlaces(topic[u], k) # {}
    PROVE  CopyPlaces(topic'[u], k) # {}
<1>1. ASSUME NEW n \in Positions, entry[n] # NoEntry, Publish(n)
      PROVE  CopyPlaces(topic'[u], k) # {}
  BY <1>1, PublishedPlaces
<1>2. ASSUME NEW c \in Clients, Sent(c)
      PROVE  CopyPlaces(topic'[u], k) # {}
  <2>1. job[c] # NoJob /\ Publish(job[c].entry)
    BY <1>2, NoJobIs DEF Sent
  <2>. QED
    BY <1>1, <2>1, JobIs DEF IInv
<1>3. ASSUME NEW l \in late, AppendLate(l)
      PROVE  CopyPlaces(topic'[u], k) # {}
  BY <1>1, <1>3 DEF AppendLate, IInv, CopiesKnown, TypeOK
<1>. QED
  BY <1>2, <1>3, TopicSteps

LEMMA SentStays == ASSUME IInv, [Next]_vars PROVE SentIsThere'
<1>0. TypeOK /\ JobsHold /\ Forward /\ EntriesFormed /\ SentIsThere
  BY EntrySteps DEF IInv
<1>1. ASSUME NEW n \in Positions, entry'[n].status = "REPLAYED", entry'[n].topic \in Sources
      PROVE  CopyPlaces(topic'[entry'[n].topic], n) # {}
  <2>1. CASE entry[n].status = "REPLAYED"
    <3>1. entry'[n].topic = entry[n].topic
      BY <1>0, <2>1 DEF Forward, NoEntry
    <3>. QED
      BY <1>0, <1>1, <2>1, <3>1, CopiesGrow DEF SentIsThere
  <2>2. CASE entry[n].status # "REPLAYED"
    <3>1. entry'[n] # entry[n]
      BY <1>1, <2>2
    <3>2. PICK c \in Clients : CommitReplay(c) /\ n = job[c].entry
      <4>1. ASSUME NEW m \in DOMAIN letters, NEW t \in Topics, entry[m] = NoEntry,
                   entry' = [entry EXCEPT ![m] = [status |-> "PENDING", by |-> None, topic |-> t]]
            PROVE  FALSE
        BY <1>0, <1>1, <3>1, <4>1, CaptureMoves
      <4>2. ASSUME NEW m \in Positions, Purge(m) PROVE FALSE
        BY <1>0, <1>1, <3>1, <4>2, PurgeMoves
      <4>3. ASSUME NEW m \in Positions, NEW action \in Settled, NEW op \in Operators,
                   NEW k \in Keys \cup {None}, entry[m].status = "PENDING", Settle(m, action, op, k)
            PROVE  m = n /\ action = "REPLAYED"
        BY <1>0, <1>1, <3>1, <4>3, SettleMoves
      <4>. QED
        BY <3>1, <4>1, <4>2, <4>3, EntryCases
    <3>3. job[c].stage = "sent" /\ job[c] # NoJob /\ entry[n].status = "PENDING"
      BY <3>2, JobIs, NoJobIs, <1>0 DEF CommitReplay
    <3>4. entry'[n].topic = entry[n].topic
      BY <1>0, <3>3 DEF Forward, NoEntry
    <3>. QED
      BY <1>0, <1>1, <3>2, <3>3, <3>4, CopiesGrow DEF SentIsThere
  <2>. QED
    BY <2>1, <2>2
<1>2. ASSUME NEW c \in Clients, job'[c].stage = "sent", entry'[job'[c].entry].topic \in Sources
      PROVE  CopyPlaces(topic'[entry'[job'[c].entry].topic], job'[c].entry) # {}
  <2>1. CASE job'[c] = job[c]
    <3>1. job[c] # NoJob
      BY <1>2, <2>1, NoJobIs
    <3>2. job[c].entry \in Positions /\ entry'[job[c].entry] = entry[job[c].entry]
      BY <1>0, <2>1, <3>1, LockedStays, JobIs
    <3>. QED
      BY <1>0, <1>2, <2>1, <3>2, CopiesGrow DEF SentIsThere
  <2>2. CASE job'[c] # job[c]
    <3>1. Sent(c)
      <4>1. ASSUME NEW b \in Clients, NEW n \in Positions, NEW op \in Operators,
                   NEW k \in Keys \cup {None}, BeginReplay(b, n, op, k)
            PROVE  FALSE
        BY <1>0, <1>2, <2>2, <4>1, BeginsAt DEF JobAt
      <4>2. ASSUME NEW b \in Clients, Sent(b) PROVE b = c
        BY <1>0, <2>2, <4>2, SentAt DEF JobAt
      <4>3. ASSUME NEW b \in Clients, job' = [job EXCEPT ![b] = NoJob] PROVE FALSE
        BY <1>0, <1>2, <2>2, <4>3 DEF TypeOK, NoJob
      <4>. QED
        BY <2>2, <4>1, <4>2, <4>3, JobSteps
    <3>2. /\ job[c] # NoJob /\ job'[c].entry = job[c].entry /\ UNCHANGED entry
          /\ Publish(job[c].entry)
      BY <1>0, <3>1, SentAt DEF JobAt, Sent
    <3>3. job[c].entry \in Positions /\ entry[job[c].entry] # NoEntry
      BY <1>0, <3>2, JobIs
    <3>. QED
      BY <1>2, <3>2, <3>3, PublishedPlaces
  <2>. QED
    BY <2>1, <2>2
<1>. QED
  BY <1>1, <1>2 DEF SentIsThere

(* Replays that are cut off *)

(* A replay or a plan of c is cut off.                                     *)
Breaks(c) ==
    /\ lost < MaxLost /\ lost' = lost + 1
    /\ LeaveBehind(c)
    /\ job' = [job EXCEPT ![c] = NoJob]
    /\ UNCHANGED <<topic, entry>>

LEMMA LateSteps ==
    ASSUME IInv, [Next]_vars
    PROVE  \/ UNCHANGED <<late, lost>>
           \/ \E l \in late : AppendLate(l)
           \/ \E c \in Clients : Breaks(c)
<1>1. ASSUME NEW c \in Clients, ReplayFails(c) \/ CutOff(c)
      PROVE  Breaks(c)
  BY <1>1 DEF ReplayFails, CutOff, Breaks
<1>2. ASSUME NEW c \in Clients, Sent(c) \/ CommitReplay(c) \/ Complete(c)
      PROVE  UNCHANGED <<late, lost>>
  BY <1>2 DEF Sent, CommitReplay, Complete
<1>3. ASSUME NEW c \in Clients, NEW n \in Positions,
             PlanReplays(c, n) \/ PlanDiscards(c, n) \/ PlanSkips(c, n)
      PROVE  UNCHANGED <<late, lost>>
  BY <1>3 DEF PlanReplays, PlanDiscards, PlanSkips
<1>4. ASSUME NEW p \in Plans, NEW k \in Keys \cup {None}, Expire(p, k) \/ BindExecution(p, k)
      PROVE  UNCHANGED <<late, lost>>
  BY <1>4 DEF Expire, BindExecution
<1>5. CASE Next
  BY <1>1, <1>2, <1>3, <1>4, <1>5
  DEF Next, Quarantine, Capture, CommitOffset, CaptureFails, Replay, Discard, Prepare, Execute, Purge
<1>. QED
  BY <1>5 DEF vars

LateRecord == [cut : 1 .. MaxLost, entry : Positions]

LEMMA LateTyped ==
    ASSUME IInv, [Next]_vars
    PROVE  /\ late' \in SUBSET LateRecord /\ lost' \in 0 .. MaxLost
           /\ \A l \in late' : l.cut <= lost' /\ entry'[l.entry] # NoEntry
<1>. USE DEF IInv
<1>0. /\ TypeOK /\ JobsHold /\ Forward /\ late \in SUBSET LateRecord /\ lost \in 0 .. MaxLost
      /\ \A l \in late : l.cut <= lost /\ entry[l.entry] # NoEntry
      /\ \A l \in LateRecord : l.cut \in Nat /\ l.entry \in Positions
  <2>1. late \in SUBSET LateRecord /\ lost \in 0 .. MaxLost
    BY DEF TypeOK, LateRecord
  <2>2. \A l \in LateRecord : l.cut \in Nat /\ l.entry \in Positions
    BY DlqRecoveryAssumption DEF LateRecord
  <2>3. \A l \in late : l.cut <= lost /\ entry[l.entry] # NoEntry
    BY DEF CopiesKnown
  <2>. QED
    BY <2>1, <2>2, <2>3, EntrySteps
<1>1. CASE UNCHANGED <<late, lost>>
  BY <1>0, <1>1 DEF Forward
<1>2. ASSUME NEW l \in late, AppendLate(l)
      PROVE  /\ late' \in SUBSET LateRecord /\ lost' \in 0 .. MaxLost
             /\ \A x \in late' : x.cut <= lost' /\ entry'[x.entry] # NoEntry
  <2>1. late' = late \ {l} /\ lost' = lost
    BY <1>2 DEF AppendLate
  <2>. QED
    BY <1>0, <2>1 DEF Forward
<1>3. ASSUME NEW c \in Clients, Breaks(c)
      PROVE  /\ late' \in SUBSET LateRecord /\ lost' \in 0 .. MaxLost
             /\ \A x \in late' : x.cut <= lost' /\ entry'[x.entry] # NoEntry
  <2>1. lost' = lost + 1 /\ lost' \in 1 .. MaxLost /\ lost' \in 0 .. MaxLost /\ entry' = entry
    BY <1>0, <1>3, DlqRecoveryAssumption DEF Breaks
  <2>2. CASE late' = late
    BY <1>0, <2>1, <2>2
  <2>3. CASE job[c].stage = "sending" /\ late' = late \cup {[cut |-> lost + 1, entry |-> job[c].entry]}
    <3>. DEFINE x == [cut |-> lost + 1, entry |-> job[c].entry]
    <3>1. job[c] # NoJob
      BY <2>3, NoJobIs
    <3>2. job[c].entry \in Positions /\ entry[job[c].entry] # NoEntry
      BY <1>0, <3>1, JobIs
    <3>3. x \in LateRecord /\ x.cut = lost' /\ x.entry = job[c].entry
      BY <2>1, <3>2 DEF LateRecord
    <3>4. late' = late \cup {x}
      BY <2>3
    <3>. HIDE DEF x
    <3>. QED
      BY <1>0, <2>1, <3>2, <3>3, <3>4
  <2>. QED
    BY <1>3, <2>2, <2>3 DEF Breaks, LeaveBehind
<1>. QED
  BY <1>0, <1>1, <1>2, <1>3, LateSteps

(* A copy was there, or is the one that is published.                      *)
LEMMA PublishedCopies ==
    ASSUME IInv, NEW n \in Positions, entry[n] # NoEntry, Publish(n),
           NEW t \in Sources, NEW i \in DOMAIN topic'[t]
    PROVE  topic'[t][i].entry = n \/ (i \in DOMAIN topic[t] /\ topic'[t][i] = topic[t][i])
<1>1. topic \in [Sources -> Seq(CopyRecord)]
  BY DEF IInv, TypeOK, CopyRecord
<1>2. \/ UNCHANGED topic
      \/ /\ entry[n].topic \in Sources
         /\ \E m \in Payloads :
               topic' = [topic EXCEPT ![entry[n].topic] = Append(@, [payload |-> m, entry |-> n])]
  BY PublishSteps DEF IInv
<1>3. ASSUME NEW m \in Payloads, entry[n].topic \in Sources,
             topic' = [topic EXCEPT ![entry[n].topic] = Append(@, [payload |-> m, entry |-> n])]
      PROVE  topic'[t][i].entry = n \/ (i \in DOMAIN topic[t] /\ topic'[t][i] = topic[t][i])
  <2>0. PICK s, x : s = topic[t] /\ x = [payload |-> m, entry |-> n]
    OBVIOUS
  <2>1. s \in Seq(CopyRecord) /\ x \in CopyRecord /\ x.entry = n
    BY <1>1, <2>0 DEF CopyRecord
  <2>2. topic'[t] = s \/ topic'[t] = Append(s, x)
    BY <1>1, <1>3, <2>0
  <2>. QED
    BY <2>0, <2>1, <2>2
<1>. QED
  BY <1>2, <1>3

LEMMA CopiesStay == ASSUME IInv, [Next]_vars PROVE CopiesKnown'
<1>. USE DEF IInv
<1>0. TypeOK /\ JobsHold /\ Forward /\ CopiesKnown /\ topic \in [Sources -> Seq(CopyRecord)]
  BY EntrySteps DEF TypeOK, CopyRecord
<1>1. ASSUME NEW t \in Sources, NEW i \in DOMAIN topic[t], topic[t][i].entry # 0
      PROVE  entry'[topic[t][i].entry] # NoEntry
  <2>1. topic[t][i] \in CopyRecord
    <3>1. topic[t] \in Seq(CopyRecord)
      BY <1>0
    <3>. QED
      BY <3>1
  <2>2. topic[t][i].entry \in Positions
    BY <1>1, <2>1 DEF CopyRecord
  <2>. QED
    BY <1>0, <1>1, <2>2 DEF CopiesKnown, Forward
<1>2. ASSUME NEW n \in Positions, entry[n] # NoEntry, Publish(n),
             NEW t \in Sources, NEW i \in DOMAIN topic'[t], topic'[t][i].entry # 0
      PROVE  entry'[topic'[t][i].entry] # NoEntry
  <2>1. CASE topic'[t][i].entry = n
    BY <1>0, <1>2, <2>1 DEF Forward
  <2>2. CASE i \in DOMAIN topic[t] /\ topic'[t][i] = topic[t][i]
    BY <1>1, <1>2, <2>2
  <2>. QED
    BY <1>2, <2>1, <2>2, PublishedCopies
<1>3. ASSUME NEW c \in Clients, Sent(c)
      PROVE  \E n \in Positions : entry[n] # NoEntry /\ Publish(n)
  <2>1. job[c] # NoJob /\ Publish(job[c].entry)
    BY <1>3, NoJobIs DEF Sent
  <2>. QED
    BY <1>0, <2>1, JobIs
<1>4. ASSUME NEW l \in late, AppendLate(l)
      PROVE  \E n \in Positions : entry[n] # NoEntry /\ Publish(n)
  BY <1>0, <1>4 DEF AppendLate, CopiesKnown, TypeOK
<1>5. \A t \in Sources : \A i \in DOMAIN topic'[t] :
          topic'[t][i].entry # 0 => entry'[topic'[t][i].entry] # NoEntry
  BY <1>1, <1>2, <1>3, <1>4, TopicSteps
<1>. QED
  BY <1>5, LateTyped DEF CopiesKnown

(* The count of the copies *)

LEMMA LateFinite ==
    ASSUME NEW S \in SUBSET LateRecord
    PROVE  IsFiniteSet(S) /\ Cardinality(S) \in Nat
<1>1. IsFiniteSet(1 .. MaxLost) /\ IsFiniteSet(Positions)
  <2>1. MaxLost \in Int /\ MaxLetters \in Int /\ 1 \in Int
    BY DlqRecoveryAssumption
  <2>. QED
    BY <2>1, FS_Interval DEF Positions
<1>2. IsFiniteSet((1 .. MaxLost) \X Positions)
  BY <1>1, FS_Product
<1>. DEFINE f == [q \in (1 .. MaxLost) \X Positions |-> [cut |-> q[1], entry |-> q[2]]]
<1>3. f \in Surjection((1 .. MaxLost) \X Positions, LateRecord)
  <2>1. \A q \in (1 .. MaxLost) \X Positions : f[q] \in LateRecord
    BY DEF LateRecord
  <2>2. \A x \in LateRecord : \E q \in (1 .. MaxLost) \X Positions : f[q] = x
    <3>. TAKE x \in LateRecord
    <3>1. x.cut \in 1 .. MaxLost /\ x.entry \in Positions /\ x = [cut |-> x.cut, entry |-> x.entry]
      BY DEF LateRecord
    <3>2. <<x.cut, x.entry>> \in (1 .. MaxLost) \X Positions /\ f[<<x.cut, x.entry>>] = x
      BY <3>1
    <3>. QED
      BY <3>2
  <2>. QED
    BY <2>1, <2>2 DEF Surjection
<1>. HIDE DEF f
<1>4. IsFiniteSet(LateRecord)
  BY <1>2, <1>3, FS_Surjection
<1>. QED
  BY <1>4, FS_Subset, FS_CardinalityType

LEMMA LateOfMoves ==
    ASSUME NEW S \in SUBSET LateRecord, NEW x \in LateRecord, NEW k
    PROVE  /\ x.entry # k => LateOf(S \cup {x}, k) = LateOf(S, k) /\ LateOf(S \ {x}, k) = LateOf(S, k)
           /\ Cardinality(LateOf(S \cup {x}, k)) <= Cardinality(LateOf(S, k)) + 1
           /\ x \in S /\ x.entry = k =>
                 Cardinality(LateOf(S \ {x}, k)) = Cardinality(LateOf(S, k)) - 1
<1>1. x.entry # k => LateOf(S \cup {x}, k) = LateOf(S, k) /\ LateOf(S \ {x}, k) = LateOf(S, k)
  BY DEF LateOf
<1>2. IsFiniteSet(LateOf(S, k)) /\ Cardinality(LateOf(S, k)) \in Nat
  BY LateFinite DEF LateOf
<1>3. LateOf(S \cup {x}, k) = LateOf(S, k) \/ LateOf(S \cup {x}, k) = LateOf(S, k) \cup {x}
  BY DEF LateOf
<1>4. Cardinality(LateOf(S, k) \cup {x}) <= Cardinality(LateOf(S, k)) + 1
  <2>. DEFINE L == LateOf(S, k)
  <2>0. IsFiniteSet(L) /\ Cardinality(L) \in Nat
    BY <1>2
  <2>. HIDE DEF L
  <2>1. Cardinality(L \cup {x}) = Cardinality(L) \/ Cardinality(L \cup {x}) = Cardinality(L) + 1
    BY <2>0, FS_AddElement
  <2>2. Cardinality(L \cup {x}) <= Cardinality(L) + 1
    BY <2>0, <2>1
  <2>. QED
    BY <2>2 DEF L
<1>5. x \in S /\ x.entry = k => x \in LateOf(S, k) /\ LateOf(S \ {x}, k) = LateOf(S, k) \ {x}
  BY DEF LateOf
<1>6. x \in LateOf(S, k) => Cardinality(LateOf(S, k) \ {x}) = Cardinality(LateOf(S, k)) - 1
  BY <1>2, FS_RemoveElement
<1>7. Cardinality(LateOf(S \cup {x}, k)) <= Cardinality(LateOf(S, k)) + 1
  <2>1. CASE LateOf(S \cup {x}, k) = LateOf(S, k)
    <3>1. Cardinality(LateOf(S, k)) <= Cardinality(LateOf(S, k)) + 1
      BY <1>2
    <3>. QED
      BY <2>1, <3>1, Zenon
  <2>2. CASE LateOf(S \cup {x}, k) = LateOf(S, k) \cup {x}
    BY <1>4, <2>2, Zenon
  <2>. QED
    BY <1>3, <2>1, <2>2
<1>8. x \in S /\ x.entry = k => Cardinality(LateOf(S \ {x}, k)) = Cardinality(LateOf(S, k)) - 1
  BY <1>5, <1>6
<1>. QED
  BY <1>1, <1>7, <1>8

(* What was granted is granted still, unless its replay is cut off.        *)
LEMMA GrantedStays ==
    ASSUME IInv, [Next]_vars, NEW k \in Positions, entry[k] # NoEntry, lost' = lost
    PROVE  Granted(k) <= Granted(k)'
<1>0. TypeOK /\ JobsHold /\ Forward /\ lost \in Nat
  <2>1. lost \in Nat
    BY DlqRecoveryAssumption DEF IInv, TypeOK
  <2>. QED
    BY <2>1, EntrySteps DEF IInv
<1>1. CASE entry[k].status \in {"REPLAYED", "DELETED"}
  <2>1. entry'[k].status \in {"REPLAYED", "DELETED"}
    BY <1>0, <1>1 DEF Forward
  <2>. QED
    BY <2>1 DEF Granted
<1>2. ASSUME NEW c \in Clients, job[c].entry = k, job[c].stage = "sent"
      PROVE  Granted(k)' = 1
  <2>0. job[c] # NoJob
    BY <1>2, NoJobIs
  <2>1. CASE job'[c] = job[c]
    BY <1>2, <2>1 DEF Granted
  <2>2. CASE job'[c] # job[c]
    <3>1. ASSUME NEW b \in Clients, NEW n \in Positions, NEW op \in Operators,
                 NEW q \in Keys \cup {None}, BeginReplay(b, n, op, q)
          PROVE  FALSE
      BY <1>0, <2>0, <2>2, <3>1, BeginsAt DEF JobAt
    <3>2. ASSUME NEW b \in Clients, Sent(b) PROVE FALSE
      BY <1>0, <1>2, <2>2, <3>2, SentAt DEF JobAt
    <3>3. ASSUME NEW b \in Clients, job' = [job EXCEPT ![b] = NoJob],
                 CommitReplay(b) \/ ReplayFails(b) \/ CutOff(b)
          PROVE  CommitReplay(c)
      BY <1>0, <2>2, <3>3 DEF ReplayFails, CutOff, TypeOK
    <3>4. CommitReplay(c)
      BY <2>2, <3>1, <3>2, <3>3, JobSteps
    <3>5. Settle(k, "REPLAYED", job[c].by, job[c].key)
      BY <1>2, <3>4 DEF CommitReplay
    <3>6. entry'[k].status = "REPLAYED"
      BY <1>0, <1>2, <2>0, <3>5, JobIs, SettleMoves DEF Settled
    <3>. QED
      BY <3>6 DEF Granted
  <2>. QED
    BY <2>1, <2>2
<1>3. Granted(k) \in {0, 1} /\ Granted(k)' \in {0, 1}
  BY DEF Granted
<1>4. Granted(k) = 1 => \/ entry[k].status \in {"REPLAYED", "DELETED"}
                        \/ \E c \in Clients : job[c].entry = k /\ job[c].stage = "sent"
  BY DEF Granted
<1>. QED
  BY <1>1, <1>2, <1>3, <1>4

(* A recovery that has not been sent has no copy granted.                  *)
LEMMA NotYetGranted ==
    ASSUME TypeOK, JobsHold, NEW c \in Clients, job[c].stage = "sending"
    PROVE  Granted(job[c].entry) = 0
<1>1. job[c] # NoJob
  BY NoJobIs
<1>2. entry[job[c].entry].status = "PENDING" /\ job[c].entry \in Positions
  BY <1>1, JobIs
<1>3. \A b \in Clients : ~(job[b].entry = job[c].entry /\ job[b].stage = "sent")
  BY <1>1, NoJobIs DEF JobsHold
<1>. QED
  BY <1>2, <1>3 DEF Granted

Copies(n) ==
    Cardinality(CopyPlaces(topic["telemetry"], n)) + Cardinality(CopyPlaces(topic["created"], n))

LEMMA CopiesNat ==
    ASSUME topic \in [Sources -> Seq(CopyRecord)], NEW k
    PROVE  /\ Copies(k) \in Nat
           /\ \A u \in Sources : Cardinality(CopyPlaces(topic[u], k)) \in Nat
<1>1. topic["telemetry"] \in Seq(CopyRecord) /\ topic["created"] \in Seq(CopyRecord)
  BY DEF Sources
<1>2. /\ Cardinality(CopyPlaces(topic["telemetry"], k)) \in Nat
      /\ Cardinality(CopyPlaces(topic["created"], k)) \in Nat
  BY <1>1, CopyPlacesFinite
<1>. QED
  BY <1>2 DEF Copies, Sources

(* A publication adds one copy, of its entry only.                         *)
LEMMA PublishedCount ==
    ASSUME IInv, NEW n \in Positions, entry[n] # NoEntry, Publish(n), NEW k \in Positions
    PROVE  /\ n # k => Copies(k)' = Copies(k)
           /\ n = k /\ entry[n].topic \in Sources => Copies(k)' = Copies(k) + 1
<1>1. topic \in [Sources -> Seq(CopyRecord)]
  BY DEF IInv, TypeOK, CopyRecord
<1>2. /\ Cardinality(CopyPlaces(topic["telemetry"], k)) \in Nat
      /\ Cardinality(CopyPlaces(topic["created"], k)) \in Nat
      /\ "telemetry" \in Sources /\ "created" \in Sources /\ "telemetry" # "created"
  BY <1>1, CopiesNat DEF Sources
<1>3. CASE n # k
  <2>1. /\ CopyPlaces(topic'["telemetry"], k) = CopyPlaces(topic["telemetry"], k)
        /\ CopyPlaces(topic'["created"], k) = CopyPlaces(topic["created"], k)
    BY <1>2, <1>3, PublishedPlaces
  <2>. QED
    BY <1>3, <2>1 DEF Copies
<1>4. CASE n = k /\ entry[n].topic = "telemetry"
  <2>1. /\ Cardinality(CopyPlaces(topic'["telemetry"], k))
              = Cardinality(CopyPlaces(topic["telemetry"], k)) + 1
        /\ CopyPlaces(topic'["created"], k) = CopyPlaces(topic["created"], k)
    BY <1>2, <1>4, PublishedPlaces
  <2>. QED
    BY <1>2, <1>4, <2>1 DEF Copies
<1>5. CASE n = k /\ entry[n].topic = "created"
  <2>1. /\ Cardinality(CopyPlaces(topic'["created"], k))
              = Cardinality(CopyPlaces(topic["created"], k)) + 1
        /\ CopyPlaces(topic'["telemetry"], k) = CopyPlaces(topic["telemetry"], k)
    BY <1>2, <1>5, PublishedPlaces
  <2>. QED
    BY <1>2, <1>5, <2>1 DEF Copies
<1>. QED
  BY <1>3, <1>4, <1>5 DEF Sources

Count(n) == Copies(n) + Cardinality(LateOf(late, n))

LEMMA CountStays ==
    ASSUME IInv, [Next]_vars, NEW k \in Positions, entry[k] # NoEntry, entry[k].topic \in Sources
    PROVE  Count(k)' <= lost' + Granted(k)'
<1>. USE DEF IInv
<1>0. TypeOK /\ JobsHold /\ topic \in [Sources -> Seq(CopyRecord)] /\ late \in SUBSET LateRecord
  BY DEF TypeOK, CopyRecord, LateRecord
<1>1. Copies(k) \in Nat /\ Cardinality(LateOf(late, k)) \in Nat /\ lost \in Nat
  <2>1. lost \in Nat
    BY DlqRecoveryAssumption DEF TypeOK
  <2>2. LateOf(late, k) \in SUBSET LateRecord
    BY <1>0 DEF LateOf
  <2>. QED
    BY <1>0, <2>1, <2>2, CopiesNat, LateFinite
<1>2. Count(k) <= lost + Granted(k)
  BY DEF CopiesCounted, Counted, Count, Copies
<1>3. Granted(k) \in {0, 1} /\ Granted(k)' \in {0, 1}
  BY DEF Granted
<1>4. CASE UNCHANGED <<topic, late, lost>>
  <2>1. Granted(k) <= Granted(k)'
    BY <1>4, GrantedStays
  <2>2. Count(k)' = Count(k) /\ lost' = lost
    BY <1>4 DEF Count, Copies
  <2>3. Count(k) \in Nat
    BY <1>1 DEF Count
  <2>. QED
    BY <1>1, <1>2, <1>3, <2>1, <2>2, <2>3
<1>5. ASSUME NEW c \in Clients, Sent(c)
      PROVE  Count(k)' <= lost' + Granted(k)'
  <2>1. /\ job[c] # NoJob /\ Publish(job[c].entry) /\ job[c].stage = "sending"
        /\ UNCHANGED <<late, lost, entry>>
    BY <1>5, NoJobIs DEF Sent
  <2>2. job[c].entry \in Positions /\ entry[job[c].entry] # NoEntry
    BY <1>0, <2>1, JobIs
  <2>3. CASE job[c].entry = k
    <3>1. Granted(k) = 0
      BY <1>0, <2>1, <2>3, NotYetGranted
    <3>2. Granted(k)' = 1
      BY <1>0, <1>5, <2>3, SentAt DEF JobAt, Granted
    <3>3. Copies(k)' = Copies(k) + 1
      BY <2>1, <2>2, <2>3, PublishedCount
    <3>. QED
      BY <1>1, <1>2, <2>1, <3>1, <3>2, <3>3 DEF Count
  <2>4. CASE job[c].entry # k
    <3>1. Copies(k)' = Copies(k)
      BY <2>1, <2>2, <2>4, PublishedCount
    <3>2. Granted(k) <= Granted(k)'
      BY <2>1, GrantedStays
    <3>. QED
      BY <1>1, <1>2, <1>3, <2>1, <3>1, <3>2 DEF Count
  <2>. QED
    BY <2>3, <2>4
<1>6. ASSUME NEW l \in late, AppendLate(l)
      PROVE  Count(k)' <= lost' + Granted(k)'
  <2>1. Publish(l.entry) /\ late' = late \ {l} /\ lost' = lost
    BY <1>6 DEF AppendLate
  <2>2. l \in LateRecord /\ l.entry \in Positions /\ entry[l.entry] # NoEntry
    BY <1>0 DEF CopiesKnown, LateRecord
  <2>3. Granted(k) <= Granted(k)'
    BY <2>1, GrantedStays
  <2>4. CASE l.entry = k
    <3>1. Copies(k)' = Copies(k) + 1
      BY <2>1, <2>2, <2>4, PublishedCount
    <3>2. Cardinality(LateOf(late, k))' = Cardinality(LateOf(late, k)) - 1
      BY <1>0, <2>1, <2>2, <2>4, LateOfMoves
    <3>. QED
      BY <1>1, <1>2, <1>3, <2>1, <2>3, <3>1, <3>2 DEF Count
  <2>5. CASE l.entry # k
    <3>1. Copies(k)' = Copies(k)
      BY <2>1, <2>2, <2>5, PublishedCount
    <3>2. LateOf(late, k)' = LateOf(late, k)
      BY <1>0, <2>1, <2>2, <2>5, LateOfMoves
    <3>. QED
      BY <1>1, <1>2, <1>3, <2>1, <2>3, <3>1, <3>2 DEF Count
  <2>. QED
    BY <2>4, <2>5
<1>7. ASSUME NEW c \in Clients, Breaks(c)
      PROVE  Count(k)' <= lost' + Granted(k)'
  <2>1. /\ lost' = lost + 1 /\ UNCHANGED <<topic, entry>> /\ LeaveBehind(c)
        /\ \A b \in Clients : b # c => job'[b] = job[b]
    BY <1>0, <1>7 DEF Breaks, TypeOK
  <2>2. Copies(k)' = Copies(k)
    BY <2>1 DEF Copies
  <2>3. CASE late' = late
    <3>1. Cardinality(LateOf(late, k))' = Cardinality(LateOf(late, k))
      BY <2>3
    <3>. QED
      BY <1>1, <1>2, <1>3, <2>1, <2>2, <3>1 DEF Count
  <2>4. CASE job[c].stage = "sending" /\ late' = late \cup {[cut |-> lost + 1, entry |-> job[c].entry]}
    <3>. DEFINE x == [cut |-> lost + 1, entry |-> job[c].entry]
    <3>0. job[c] # NoJob
      BY <2>4, NoJobIs
    <3>1. x \in LateRecord /\ x.entry = job[c].entry
      <4>1. job[c].entry \in Positions /\ lost + 1 \in 1 .. MaxLost
        BY <1>0, <1>1, <1>7, <3>0, JobIs, DlqRecoveryAssumption DEF Breaks
      <4>. QED
        BY <4>1 DEF LateRecord
    <3>2. late' = late \cup {x}
      BY <2>4
    <3>. HIDE DEF x
    <3>3. CASE job[c].entry = k
      <4>1. Granted(k) = 0
        BY <1>0, <2>4, <3>3, NotYetGranted
      <4>2. Cardinality(LateOf(late, k))' <= Cardinality(LateOf(late, k)) + 1
        BY <1>0, <3>1, <3>2, LateOfMoves
      <4>3. Cardinality(LateOf(late, k))' \in Nat
        <5>1. LateOf(late', k) \in SUBSET LateRecord
          BY <1>0, <3>1, <3>2 DEF LateOf
        <5>. QED
          BY <5>1, LateFinite
      <4>. QED
        BY <1>1, <1>2, <1>3, <2>1, <2>2, <4>1, <4>2, <4>3 DEF Count
    <3>4. CASE job[c].entry # k
      <4>1. LateOf(late, k)' = LateOf(late, k)
        BY <1>0, <3>1, <3>2, <3>4, LateOfMoves
      <4>. QED
        BY <1>1, <1>2, <1>3, <2>1, <2>2, <4>1 DEF Count
    <3>. QED
      BY <3>3, <3>4
  <2>. QED
    BY <2>1, <2>3, <2>4 DEF LeaveBehind
<1>. QED
  <2>1. \/ UNCHANGED topic \/ (\E c \in Clients : Sent(c)) \/ \E l \in late : AppendLate(l)
    BY TopicSteps
  <2>. QED
    BY <1>4, <1>5, <1>6, <1>7, <2>1, LateSteps

LEMMA CountsStay == ASSUME IInv, [Next]_vars PROVE CopiesCounted'
<1>. USE DEF IInv
<1>0. /\ TypeOK /\ Forward /\ CopiesKnown' /\ topic' \in [Sources -> Seq(CopyRecord)]
      /\ late' \in SUBSET LateRecord /\ lost' \in Nat
  <2>1. lost' \in 0 .. MaxLost
    BY LateTyped
  <2>2. lost' \in Nat
    BY <2>1, DlqRecoveryAssumption
  <2>. QED
    BY <2>2, EntrySteps, CopiesStay, TopicSteps, LateTyped
<1>1. ASSUME NEW k \in Positions, entry'[k].topic \in Sources, entry[k] # NoEntry
      PROVE  Count(k)' <= lost' + Granted(k)'
  BY <1>0, <1>1, CountStays DEF Forward
<1>3. ASSUME NEW k \in Positions, entry[k] = NoEntry
      PROVE  Count(k)' <= lost' + Granted(k)'
  <2>1. k # 0
    BY DlqRecoveryAssumption DEF Positions
  <2>2. "telemetry" \in Sources /\ "created" \in Sources
    BY DEF Sources
  <2>3. Copies(k) = 0 /\ LateOf(late, k) = {}
    <3>1. CopyPlaces(topic["telemetry"], k) = {} /\ CopyPlaces(topic["created"], k) = {}
      BY <1>3, <2>1, <2>2 DEF CopiesKnown, CopyPlaces
    <3>2. LateOf(late, k) = {}
      BY <1>3 DEF CopiesKnown, LateOf
    <3>. QED
      BY <3>1, <3>2, FS_EmptySet DEF Copies
  <2>4. Copies(k)' = 0
    <3>1. ASSUME NEW n \in Positions, entry[n] # NoEntry, Publish(n)
          PROVE  Copies(k)' = 0
      BY <1>3, <2>3, <3>1, PublishedCount
    <3>2. ASSUME NEW c \in Clients, Sent(c)
          PROVE  Copies(k)' = 0
      <4>1. job[c] # NoJob /\ Publish(job[c].entry)
        BY <3>2, NoJobIs DEF Sent
      <4>. QED
        BY <1>0, <3>1, <4>1, JobIs
    <3>3. ASSUME NEW l \in late, AppendLate(l)
          PROVE  Copies(k)' = 0
      BY <3>1, <3>3 DEF AppendLate, CopiesKnown, TypeOK
    <3>4. UNCHANGED topic => Copies(k)' = 0
      BY <2>3 DEF Copies
    <3>. QED
      BY <3>2, <3>3, <3>4, TopicSteps
  <2>5. LateOf(late', k) = {}
    <3>1. ASSUME NEW l \in late, AppendLate(l)
          PROVE  LateOf(late', k) = {}
      BY <2>3, <3>1 DEF AppendLate, LateOf
    <3>2. ASSUME NEW c \in Clients, Breaks(c)
          PROVE  LateOf(late', k) = {}
      <4>1. CASE late' = late
        BY <2>3, <4>1
      <4>2. CASE job[c].stage = "sending" /\ late' = late \cup {[cut |-> lost + 1, entry |-> job[c].entry]}
        <5>1. job[c] # NoJob
          BY <4>2, NoJobIs
        <5>2. job[c].entry # k
          BY <1>0, <1>3, <5>1, JobIs
        <5>. QED
          BY <2>3, <4>2, <5>2 DEF LateOf
      <4>. QED
        BY <3>2, <4>1, <4>2 DEF Breaks, LeaveBehind
    <3>. QED
      BY <2>3, <3>1, <3>2, LateSteps
  <2>6. Count(k)' = 0
    BY <2>4, <2>5, FS_EmptySet DEF Count
  <2>7. Granted(k)' \in {0, 1}
    BY DEF Granted
  <2>. QED
    BY <1>0, <2>6, <2>7
<1>4. \A k \in Positions : entry'[k].topic \in Sources => Count(k)' <= lost' + Granted(k)'
  BY <1>1, <1>3
<1>. QED
  BY <1>4 DEF CopiesCounted, Counted, Count, Copies

(* Plans and their runs *)

LEMMA PlanSteps ==
    ASSUME IInv, [Next]_vars
    PROVE  \/ UNCHANGED plan
           \/ \E p \in Plans, action \in {"REPLAYED", "DISCARDED"}, op \in Operators,
                 chosen \in SUBSET Positions : Prepare(p, action, op, chosen)
           \/ \E p \in Plans, k \in Keys \cup {None} : Expire(p, k) \/ BindExecution(p, k)
           \/ \E c \in Clients : Complete(c)
<1>1. ASSUME NEW c \in Clients, Sent(c) \/ CommitReplay(c) \/ ReplayFails(c) \/ CutOff(c)
      PROVE  UNCHANGED plan
  BY <1>1 DEF Sent, CommitReplay, ReplayFails, CutOff
<1>2. ASSUME NEW c \in Clients, NEW n \in Positions,
             PlanReplays(c, n) \/ PlanDiscards(c, n) \/ PlanSkips(c, n)
      PROVE  UNCHANGED plan
  BY <1>2 DEF PlanReplays, PlanDiscards, PlanSkips
<1>3. CASE Next
  BY <1>1, <1>2, <1>3
  DEF Next, Quarantine, Capture, CommitOffset, CaptureFails, Replay, Discard, Execute, AppendLate, Purge
<1>. QED
  BY <1>3 DEF vars

(* The row of a plan that runs on is what it was.                          *)
LEMMA PlanKept ==
    ASSUME IInv, [Next]_vars, NEW c \in Clients, run[c] # NoRun, run'[c] # NoRun
    PROVE  plan'[run[c].plan] = plan[run[c].plan]
<1>. USE DEF IInv
<1>0. /\ TypeOK /\ plan \in [Plans -> Plan] /\ plan[run[c].plan].status = "PREPARED"
      /\ \A b \in Clients : b # c => run[b].plan # run[c].plan
  BY DEF TypeOK, RunsCount
<1>1. ASSUME NEW p \in Plans, NEW action \in {"REPLAYED", "DISCARDED"}, NEW op \in Operators,
             NEW chosen \in SUBSET Positions, Prepare(p, action, op, chosen)
      PROVE  plan'[run[c].plan] = plan[run[c].plan]
  BY <1>0, <1>1 DEF Prepare, NoPlan
<1>2. ASSUME NEW p \in Plans, NEW k \in Keys \cup {None}, Expire(p, k) \/ BindExecution(p, k)
      PROVE  plan'[run[c].plan] = plan[run[c].plan]
  <2>1. run[c].plan # p
    BY <1>2 DEF Expire, BindExecution, PlanLocked
  <2>2. \A q \in Plans : q # p => plan'[q] = plan[q]
    BY <1>0, <1>2 DEF Expire, BindExecution
  <2>. QED
    BY <1>0, <2>1, <2>2 DEF RunsCount
<1>3. ASSUME NEW b \in Clients, Complete(b)
      PROVE  plan'[run[c].plan] = plan[run[c].plan]
  <2>1. b # c
    BY <1>0, <1>3 DEF Complete, TypeOK
  <2>. QED
    BY <1>0, <1>3, <2>1 DEF Complete
<1>. QED
  BY <1>1, <1>2, <1>3, PlanSteps

(* What a plan has recovered stays recovered under its operator.           *)
LEMMA RecoveredStays ==
    ASSUME IInv, [Next]_vars, NEW p \in Plans, NEW n \in Positions, RecoveredBy(p, n),
           plan'[p].action = plan[p].action, plan'[p].by = plan[p].by
    PROVE  RecoveredBy(p, n)'
<1>1. Forward /\ plan[p].action \in {"REPLAYED", "DISCARDED"}
  <2>1. plan[p] \in Plan
    BY DEF IInv, TypeOK
  <2>. QED
    BY <2>1, EntrySteps DEF Plan
<1>. QED
  BY <1>1 DEF RecoveredBy, Forward

(* The recovery a running plan has under way.                              *)
LEMMA RunsJob ==
    ASSUME IInv, [Next]_vars, NEW c \in Clients, run[c] # NoRun, job'[c] # NoJob
    PROVE  /\ job'[c].entry \in run[c].todo
           /\ job'[c].by = plan[run[c].plan].by
           /\ plan[run[c].plan].action = "REPLAYED"
<1>. USE DEF IInv
<1>0. /\ TypeOK /\ JobsHold
      /\ job[c] # NoJob => /\ job[c].entry \in run[c].todo
                           /\ job[c].by = plan[run[c].plan].by
                           /\ plan[run[c].plan].action = "REPLAYED"
  BY DEF RunsCount
<1>1. CASE job'[c] = job[c]
  BY <1>0, <1>1
<1>2. ASSUME job'[c] # job[c], NEW b \in Clients, NEW n \in Positions, NEW op \in Operators,
             NEW k \in Keys \cup {None}, BeginReplay(b, n, op, k),
             run[b] = NoRun \/ PlanReplays(b, n)
      PROVE  c = b /\ PlanReplays(c, n)
  BY <1>0, <1>2, BeginsAt DEF JobAt
<1>3. ASSUME NEW n \in Positions, PlanReplays(c, n)
      PROVE  /\ job'[c].entry = n /\ n \in run[c].todo
             /\ job'[c].by = plan[run[c].plan].by
             /\ plan[run[c].plan].action = "REPLAYED"
  <2>. DEFINE row == [stage |-> "sending", entry |-> n, by |-> plan[run[c].plan].by, key |-> None]
  <2>1. job'[c] = row
    BY <1>0, <1>3 DEF PlanReplays, BeginReplay, TypeOK
  <2>2. row.entry = n /\ row.by = plan[run[c].plan].by
    OBVIOUS
  <2>. HIDE DEF row
  <2>. QED
    BY <1>3, <2>1, <2>2 DEF PlanReplays
<1>4. ASSUME job'[c] # job[c], NEW b \in Clients, Sent(b)
      PROVE  job[c] # NoJob /\ job'[c].entry = job[c].entry /\ job'[c].by = job[c].by
  BY <1>0, <1>4, SentAt DEF JobAt
<1>5. ASSUME job'[c] # job[c], NEW b \in Clients, job' = [job EXCEPT ![b] = NoJob]
      PROVE  FALSE
  BY <1>0, <1>5 DEF TypeOK
<1>. QED
  BY <1>0, <1>1, <1>2, <1>3, <1>4, <1>5, JobSteps

(* A run goes on as it was, or by one entry, or begins, or is over.        *)
LEMMA RunMoves ==
    ASSUME IInv, [Next]_vars, NEW c \in Clients
    PROVE  \/ run'[c] = run[c]
           \/ \E n \in Positions :
                 \/ CommitReplay(c) /\ n = job[c].entry /\ run[c] # NoRun
                 \/ ReplayFails(c) /\ n = job[c].entry /\ run[c] # NoRun
                 \/ PlanDiscards(c, n)
                 \/ PlanSkips(c, n)
           \/ \E p \in Plans, k \in Keys \cup {None} : Execute(c, p, k)
           \/ run'[c] = NoRun
<1>. DEFINE Ticks(b, n) == \/ CommitReplay(b) /\ n = job[b].entry /\ run[b] # NoRun
                           \/ ReplayFails(b) /\ n = job[b].entry /\ run[b] # NoRun
                           \/ PlanDiscards(b, n)
                           \/ PlanSkips(b, n)
<1>0. TypeOK
  BY DEF IInv
<1>1. ASSUME NEW b \in Clients, b # c, NEW n \in Positions, Ticks(b, n)
      PROVE  run'[c] = run[c]
  BY <1>0, <1>1, RunTicks, TickMoves
<1>2. ASSUME NEW b \in Clients, b # c, NEW p \in Plans, NEW k \in Keys \cup {None}, Execute(b, p, k)
      PROVE  run'[c] = run[c]
  BY <1>0, <1>2, BeginsRun
<1>3. ASSUME NEW b \in Clients, Complete(b) \/ CutOff(b)
      PROVE  run'[c] = run[c] \/ run'[c] = NoRun
  BY <1>0, <1>3 DEF Complete, CutOff, TypeOK
<1>4. \/ UNCHANGED run
      \/ \E b \in Clients, p \in Plans, k \in Keys \cup {None} : Execute(b, p, k)
      \/ \E b \in Clients, n \in Positions : Ticks(b, n)
      \/ \E b \in Clients : Complete(b) \/ CutOff(b)
  BY RunSteps
<1>. HIDE DEF Ticks
<1>5. \/ run'[c] = run[c]
      \/ \E n \in Positions : Ticks(c, n)
      \/ \E p \in Plans, k \in Keys \cup {None} : Execute(c, p, k)
      \/ run'[c] = NoRun
  BY <1>1, <1>2, <1>3, <1>4
<1>. QED
  BY <1>5 DEF Ticks

(* RunsCount, of one run.                                                  *)
RunCounts(c) ==
    run[c] # NoRun =>
        /\ run[c].plan \in Plans
        /\ plan[run[c].plan].status = "PREPARED"
        /\ run[c].todo \subseteq plan[run[c].plan].entries
        /\ run[c].good <= Cardinality(Recovered(c))
        /\ job[c] # NoJob =>
              /\ job[c].entry \in run[c].todo
              /\ job[c].by = plan[run[c].plan].by
              /\ plan[run[c].plan].action = "REPLAYED"

LEMMA EntriesFinite ==
    ASSUME NEW S \in SUBSET Positions
    PROVE  IsFiniteSet(S) /\ Cardinality(S) \in Nat
<1>1. IsFiniteSet(Positions)
  BY FS_Interval, DlqRecoveryAssumption DEF Positions
<1>. QED
  BY <1>1, FS_Subset, FS_CardinalityType

LEMMA MoreRecovered ==
    ASSUME NEW S \in SUBSET Positions, NEW T \in SUBSET Positions, S \subseteq T
    PROVE  /\ Cardinality(S) \in Nat /\ Cardinality(T) \in Nat
           /\ Cardinality(S) <= Cardinality(T)
           /\ \A x \in T \ S : Cardinality(S) + 1 <= Cardinality(T)
<1>1. /\ IsFiniteSet(S) /\ IsFiniteSet(T) /\ Cardinality(S) \in Nat /\ Cardinality(T) \in Nat
  BY EntriesFinite
<1>2. Cardinality(S) <= Cardinality(T)
  BY <1>1, FS_Subset
<1>3. ASSUME NEW x \in T \ S PROVE Cardinality(S) + 1 <= Cardinality(T)
  <2>. DEFINE U == S \cup {x}
  <2>1. U \in SUBSET T /\ Cardinality(U) = Cardinality(S) + 1
    BY <1>1, <1>3, FS_AddElement
  <2>. HIDE DEF U
  <2>2. Cardinality(U) <= Cardinality(T)
    BY <1>1, <2>1, FS_Subset
  <2>. QED
    BY <2>1, <2>2
<1>. QED
  BY <1>1, <1>2, <1>3

LEMMA RunGoesOn ==
    ASSUME IInv, [Next]_vars, NEW c \in Clients, run[c] # NoRun, run'[c] # NoRun,
           run'[c].plan = run[c].plan, NEW n, NEW good \in {0, 1},
           \/ run'[c].todo = run[c].todo /\ run'[c].good = run[c].good
           \/ /\ run'[c].todo = run[c].todo \ {n} /\ n \in run[c].todo
              /\ run'[c].good = run[c].good + good
              /\ good = 1 => RecoveredBy(run[c].plan, n)'
              /\ job'[c] # NoJob => job'[c].entry # n
    PROVE  RunCounts(c)'
<1>. USE DEF IInv
<1>. DEFINE p == run[c].plan
<1>0. /\ p \in Plans /\ plan[p].status = "PREPARED" /\ plan'[p] = plan[p]
      /\ run[c].todo \subseteq plan[p].entries /\ plan[p].entries \in SUBSET Positions
      /\ run[c].good <= Cardinality(Recovered(c)) /\ run[c].good \in Nat
  <2>1. run[c] \in Run
    BY DEF TypeOK
  <2>2. p \in Plans
    BY DEF RunsCount
  <2>3. plan[p] \in Plan
    BY <2>2 DEF TypeOK
  <2>. QED
    BY <2>1, <2>2, <2>3, PlanKept DEF RunsCount, Run, Plan
<1>1. job'[c] # NoJob => /\ job'[c].entry \in run[c].todo /\ job'[c].by = plan[p].by
                         /\ plan[p].action = "REPLAYED"
  BY RunsJob
<1>2. PICK S, T : S = Recovered(c) /\ T = Recovered(c)'
  OBVIOUS
<1>3. S = {m \in plan[p].entries \ run[c].todo : RecoveredBy(p, m)}
  BY <1>2 DEF Recovered
<1>4. T = {m \in plan[p].entries \ run'[c].todo : RecoveredBy(p, m)'}
  BY <1>0, <1>2 DEF Recovered, RecoveredBy
<1>5. \A m \in plan[p].entries : RecoveredBy(p, m) => RecoveredBy(p, m)'
  BY <1>0, RecoveredStays
<1>6. S \in SUBSET Positions /\ T \in SUBSET Positions /\ S \subseteq T
  BY <1>0, <1>3, <1>4, <1>5
<1>7. run'[c].good <= Cardinality(T)
  <2>1. CASE run'[c].good = run[c].good
    BY <1>0, <1>2, <1>6, <2>1, MoreRecovered
  <2>2. CASE run'[c].todo = run[c].todo \ {n} /\ n \in run[c].todo /\ run'[c].good = run[c].good + 1
             /\ RecoveredBy(p, n)'
    <3>1. n \in T \ S
      BY <1>0, <1>3, <1>4, <2>2
    <3>. QED
      BY <1>0, <1>2, <1>6, <2>2, <3>1, MoreRecovered
  <2>. QED
    BY <1>0, <2>1, <2>2
<1>. QED
  BY <1>0, <1>1, <1>2, <1>7 DEF RunCounts

(* An entry that a running plan counts is recovered under its operator.    *)
LEMMA TickRecovers ==
    ASSUME IInv, [Next]_vars, NEW c \in Clients, run[c] # NoRun, NEW n \in Positions,
           run'[c].plan = run[c].plan, plan'[run[c].plan] = plan[run[c].plan],
           \/ CommitReplay(c) /\ n = job[c].entry
           \/ PlanDiscards(c, n)
           \/ PlanSkips(c, n) /\ Already(run[c].plan, n)
    PROVE  RecoveredBy(run[c].plan, n)'
<1>. USE DEF IInv
<1>0. TypeOK /\ JobsHold
  OBVIOUS
<1>1. CASE CommitReplay(c) /\ n = job[c].entry
  <2>1. job[c] # NoJob /\ Settle(n, "REPLAYED", job[c].by, job[c].key)
    BY <1>1, NoJobIs DEF CommitReplay
  <2>2. job[c].by = plan[run[c].plan].by /\ plan[run[c].plan].action = "REPLAYED"
    BY <2>1 DEF RunsCount
  <2>3. entry'[n].status = "REPLAYED" /\ entry'[n].by = job[c].by
    BY <1>0, <1>1, <2>1, JobIs, SettleMoves DEF Settled
  <2>. QED
    BY <2>2, <2>3 DEF RecoveredBy
<1>2. CASE PlanDiscards(c, n)
  <2>1. /\ Settle(n, "DISCARDED", plan[run[c].plan].by, None) /\ entry[n].status = "PENDING"
        /\ plan[run[c].plan].action = "DISCARDED" /\ plan[run[c].plan].by \in Operators
    BY <1>2 DEF PlanDiscards, RunsCount, PlansFormed
  <2>2. entry'[n].status = "DISCARDED" /\ entry'[n].by = plan[run[c].plan].by
    BY <1>0, <2>1, SettleMoves DEF Settled
  <2>. QED
    BY <2>1, <2>2 DEF RecoveredBy
<1>3. CASE PlanSkips(c, n) /\ Already(run[c].plan, n)
  BY <1>3 DEF PlanSkips, Already, RecoveredBy
<1>. QED
  BY <1>1, <1>2, <1>3

LEMMA RunCountsOn == ASSUME IInv, [Next]_vars, NEW c \in Clients PROVE RunCounts(c)'
<1>. USE DEF IInv
<1>0. TypeOK /\ JobsHold /\ run' \in [Clients -> Run]
  BY RunTyped
<1>1. CASE run'[c] = run[c] /\ run[c] # NoRun
  BY <1>1, RunGoesOn
<1>2. ASSUME NEW n \in Positions,
             \/ CommitReplay(c) /\ n = job[c].entry /\ run[c] # NoRun
             \/ ReplayFails(c) /\ n = job[c].entry /\ run[c] # NoRun
             \/ PlanDiscards(c, n)
             \/ PlanSkips(c, n)
      PROVE  RunCounts(c)'
  <2>1. run[c] # NoRun /\ n \in run[c].todo
    BY <1>2, RunTicks
  <2>2. PICK good \in {0, 1} :
           /\ Tick(c, n, good)
           /\ good = 1 => \/ CommitReplay(c) /\ n = job[c].entry
                          \/ PlanDiscards(c, n)
                          \/ PlanSkips(c, n) /\ Already(run[c].plan, n)
    BY <1>2, RunTicks
  <2>3. /\ run'[c].plan = run[c].plan
        /\ run'[c].todo = run[c].todo \ {n} /\ run'[c].good = run[c].good + good
    BY <1>0, <2>1, <2>2, TickMoves
  <2>4. run[c].plan \in Plans /\ run'[c] # NoRun
    <3>1. run[c].plan \in Plans
      BY <2>1 DEF RunsCount
    <3>. QED
      BY <2>3, <3>1, DlqRecoveryAssumption DEF NoRun
  <2>5. plan'[run[c].plan] = plan[run[c].plan]
    BY <2>1, <2>4, PlanKept
  <2>6. good = 1 => RecoveredBy(run[c].plan, n)'
    BY <2>1, <2>2, <2>3, <2>5, TickRecovers
  <2>7. job'[c] # NoJob => job'[c].entry # n
    <3>1. CASE CommitReplay(c) \/ ReplayFails(c)
      BY <1>0, <3>1 DEF CommitReplay, ReplayFails, TypeOK
    <3>2. CASE PlanDiscards(c, n) \/ PlanSkips(c, n)
      BY <3>2 DEF PlanDiscards, PlanSkips, EntryLocked
    <3>. QED
      BY <1>2, <3>1, <3>2
  <2>. QED
    BY <2>1, <2>3, <2>4, <2>6, <2>7, RunGoesOn
<1>3. ASSUME NEW p \in Plans, NEW k \in Keys \cup {None}, Execute(c, p, k)
      PROVE  RunCounts(c)'
  <2>1. /\ run'[c].plan = p /\ run'[c].todo = plan[p].entries /\ run'[c].good = 0
        /\ plan[p].status = "PREPARED" /\ plan' = plan /\ job'[c] = NoJob
    BY <1>0, <1>3, BeginsRun DEF Execute
  <2>2. Cardinality(Recovered(c)') \in Nat
    <3>1. Recovered(c)' \in SUBSET Positions
      BY <2>1 DEF Recovered, TypeOK, Plan
    <3>. QED
      BY <3>1, EntriesFinite
  <2>. QED
    BY <2>1, <2>2 DEF RunCounts
<1>4. CASE run'[c] = NoRun
  BY <1>4 DEF RunCounts
<1>. QED
  BY <1>1, <1>2, <1>3, <1>4, RunMoves

LEMMA RunsStay == ASSUME IInv, [Next]_vars PROVE RunsCount'
<1>. USE DEF IInv
<1>1. \A c \in Clients : RunCounts(c)'
  BY RunCountsOn
<1>2. ASSUME NEW b \in Clients, NEW c \in Clients, b # c, run'[b] # NoRun
      PROVE  run'[b].plan # run'[c].plan
  <2>0. TypeOK /\ NoRun.plan = None /\ None \notin Plans
    BY DlqRecoveryAssumption DEF NoRun
  <2>1. run'[b].plan \in Plans
    BY <1>1, <1>2 DEF RunCounts
  <2>2. ASSUME NEW a \in Clients, run'[a].plan \in Plans
        PROVE  \/ run[a] # NoRun /\ run'[a].plan = run[a].plan
               \/ \E p \in Plans, k \in Keys \cup {None} : Execute(a, p, k) /\ run'[a].plan = p
    <3>1. ASSUME NEW n \in Positions,
                 \/ CommitReplay(a) /\ n = job[a].entry /\ run[a] # NoRun
                 \/ ReplayFails(a) /\ n = job[a].entry /\ run[a] # NoRun
                 \/ PlanDiscards(a, n)
                 \/ PlanSkips(a, n)
          PROVE  run[a] # NoRun /\ run'[a].plan = run[a].plan
      BY <2>0, <3>1, RunTicks, TickMoves
    <3>2. ASSUME NEW p \in Plans, NEW k \in Keys \cup {None}, Execute(a, p, k)
          PROVE  run'[a].plan = p
      BY <2>0, <3>2, BeginsRun
    <3>3. run[a] = NoRun => run'[a] # run[a]
      BY <2>0, <2>2
    <3>. QED
      BY <2>0, <2>2, <3>1, <3>2, <3>3, RunMoves
  <2>3. ASSUME NEW x \in Clients, NEW y \in Clients, x # y, NEW p \in Plans,
               NEW k \in Keys \cup {None}, Execute(x, p, k)
        PROVE  run[y].plan # p /\ run'[y] = run[y]
    BY <2>0, <2>3, BeginsRun DEF Execute, PlanLocked
  <2>4. CASE run'[c].plan \notin Plans
    BY <2>1, <2>4
  <2>5. CASE run'[c].plan \in Plans
    <3>1. CASE \E p \in Plans, k \in Keys \cup {None} : Execute(b, p, k) /\ run'[b].plan = p
      BY <1>2, <2>3, <3>1
    <3>2. CASE \E p \in Plans, k \in Keys \cup {None} : Execute(c, p, k) /\ run'[c].plan = p
      BY <1>2, <2>3, <3>2
    <3>3. CASE /\ run[b] # NoRun /\ run'[b].plan = run[b].plan
               /\ run[c] # NoRun /\ run'[c].plan = run[c].plan
      BY <1>2, <3>3 DEF RunsCount
    <3>. QED
      BY <2>1, <2>2, <2>5, <3>1, <3>2, <3>3
  <2>. QED
    BY <2>4, <2>5
<1>. QED
  BY <1>1, <1>2 DEF RunsCount, RunCounts

(* Executed plans *)

LEMMA ExecutedStays == ASSUME IInv, [Next]_vars PROVE ExecutedMeansAll'
<1>. USE DEF IInv
<1>0. /\ TypeOK /\ plan \in [Plans -> Plan]
      /\ \A p \in Plans : plan[p].entries \in SUBSET Positions
  <2>1. \A p \in Plans : plan[p] \in Plan
    BY DEF TypeOK
  <2>. QED
    BY <2>1 DEF TypeOK, Plan
<1>. DEFINE Done(p) == plan[p].status = "EXECUTED" => \A n \in plan[p].entries : RecoveredBy(p, n)
<1>1. ASSUME NEW p \in Plans, plan[p].status = "EXECUTED",
             plan'[p].entries = plan[p].entries, plan'[p].action = plan[p].action,
             plan'[p].by = plan[p].by
      PROVE  Done(p)'
  <2>1. \A n \in plan[p].entries : RecoveredBy(p, n)
    BY <1>1 DEF ExecutedMeansAll, RecoveredBy
  <2>. QED
    BY <1>0, <1>1, <2>1, RecoveredStays
<1>2. ASSUME NEW p \in Plans, plan'[p] = plan[p]
      PROVE  Done(p)'
  BY <1>1, <1>2
<1>3. ASSUME NEW q \in Plans, NEW action \in {"REPLAYED", "DISCARDED"}, NEW op \in Operators,
             NEW chosen \in SUBSET Positions, Prepare(q, action, op, chosen)
      PROVE  \A p \in Plans : Done(p)'
  <2>1. plan'[q].status = "PREPARED" /\ \A p \in Plans : p # q => plan'[p] = plan[p]
    BY <1>0, <1>3 DEF Prepare, NoPlan
  <2>. QED
    BY <1>2, <2>1
<1>4. ASSUME NEW q \in Plans, NEW k \in Keys \cup {None}, Expire(q, k)
      PROVE  \A p \in Plans : Done(p)'
  <2>1. plan'[q].status = "EXPIRED" /\ \A p \in Plans : p # q => plan'[p] = plan[p]
    <3>1. plan' = [plan EXCEPT ![q] = [plan[q] EXCEPT !.status = "EXPIRED", !.key = k]]
      BY <1>4 DEF Expire
    <3>2. plan[q] \in Plan
      BY <1>0
    <3>. QED
      BY <1>0, <3>1, <3>2 DEF Plan
  <2>. QED
    BY <1>2, <2>1
<1>5. ASSUME NEW q \in Plans, NEW k \in Keys \cup {None}, BindExecution(q, k)
      PROVE  \A p \in Plans : Done(p)'
  <2>1. /\ plan'[q].status = plan[q].status /\ plan'[q].entries = plan[q].entries
        /\ plan'[q].action = plan[q].action /\ plan'[q].by = plan[q].by
        /\ \A p \in Plans : p # q => plan'[p] = plan[p]
    <3>1. plan' = [plan EXCEPT ![q] = [plan[q] EXCEPT !.key = k]]
      BY <1>5 DEF BindExecution
    <3>2. plan[q] \in Plan
      BY <1>0
    <3>. QED
      BY <1>0, <3>1, <3>2 DEF Plan
  <2>. QED
    BY <1>1, <1>2, <2>1
<1>6. ASSUME NEW c \in Clients, Complete(c)
      PROVE  \A p \in Plans : Done(p)'
  <2>0. PICK q : q = run[c].plan
    OBVIOUS
  <2>1. /\ q \in Plans /\ run[c].todo = {} /\ UNCHANGED entry /\ run[c].good \in Nat
        /\ run[c].good <= Cardinality(Recovered(c))
    <3>1. run[c] # NoRun
      BY <1>6 DEF Complete, NoRun
    <3>2. run[c] \in Run
      BY <1>0 DEF TypeOK
    <3>. QED
      BY <1>6, <2>0, <3>1, <3>2 DEF RunsCount, Complete, Run
  <2>2. /\ plan'[q].status = IF run[c].good = Cardinality(plan[q].entries)
                             THEN "EXECUTED" ELSE "PARTIAL"
        /\ plan'[q].entries = plan[q].entries
        /\ plan'[q].action = plan[q].action /\ plan'[q].by = plan[q].by
        /\ \A p \in Plans : p # q => plan'[p] = plan[p]
    <3>. DEFINE s == IF run[c].good = Cardinality(plan[q].entries) THEN "EXECUTED" ELSE "PARTIAL"
    <3>1. plan' = [plan EXCEPT ![q] = [plan[q] EXCEPT !.good = run[c].good, !.key = run[c].key,
                                                      !.status = s]]
      BY <1>6, <2>0 DEF Complete
    <3>2. plan[q] \in Plan
      BY <1>0, <2>1
    <3>. HIDE DEF s
    <3>3. /\ plan'[q].status = s
          /\ plan'[q].entries = plan[q].entries
          /\ plan'[q].action = plan[q].action /\ plan'[q].by = plan[q].by
          /\ \A p \in Plans : p # q => plan'[p] = plan[p]
      BY <1>0, <2>1, <3>1, <3>2 DEF Plan
    <3>. QED
      BY <3>3 DEF s
  <2>3. Done(q)'
    <3>1. SUFFICES ASSUME plan'[q].status = "EXECUTED" PROVE \A n \in plan[q].entries : RecoveredBy(q, n)'
      BY <2>2
    <3>2. run[c].good = Cardinality(plan[q].entries)
      BY <2>2, <3>1
    <3>3. PICK S, T : S = Recovered(c) /\ T = plan[q].entries
      OBVIOUS
    <3>4. S = {n \in T : RecoveredBy(q, n)}
      BY <2>0, <2>1, <3>3 DEF Recovered
    <3>5. S \in SUBSET T /\ T \in SUBSET Positions /\ S \in SUBSET Positions
      BY <1>0, <2>1, <3>3, <3>4
    <3>6. /\ IsFiniteSet(T) /\ Cardinality(T) \in Nat /\ Cardinality(S) \in Nat
      BY <3>5, EntriesFinite
    <3>7. Cardinality(S) <= Cardinality(T)
      BY <3>5, <3>6, FS_Subset
    <3>8. Cardinality(T) = Cardinality(S)
      BY <2>1, <3>2, <3>3, <3>6, <3>7
    <3>9. T = S
      BY <3>5, <3>6, <3>8, FS_Subset
    <3>. QED
      BY <2>1, <2>2, <3>3, <3>4, <3>9 DEF RecoveredBy
  <2>. QED
    BY <1>2, <2>2, <2>3
<1>7. \A p \in Plans : Done(p)'
  BY <1>2, <1>3, <1>4, <1>5, <1>6, PlanSteps
<1>. QED
  BY <1>7 DEF ExecutedMeansAll, RecoveredBy

-----------------------------------------------------------------------------
(* The theorems *)

LEMMA NextIInv == IInv /\ [Next]_vars => IInv'
<1>. SUFFICES ASSUME IInv, [Next]_vars PROVE IInv'
  OBVIOUS
<1>1. TypeOK'
  <2>1. /\ topic' \in [Sources -> Seq([payload : Payloads, entry : {0} \cup Positions])]
        /\ letters' \in Seq(Letter)
    BY TopicSteps DEF CopyRecord, LettersGrow
  <2>2. late' \in SUBSET [cut : 1 .. MaxLost, entry : Positions] /\ lost' \in 0 .. MaxLost
    BY LateTyped DEF LateRecord
  <2>. QED
    BY <2>1, <2>2, EntrySteps, JobTyped, PlanTyped, RunTyped, OffsetTyped DEF TypeOK
<1>. QED
  BY <1>1, FormedStays, PlanTyped, CopiesStay, JobsStay, AuditsStay, CountsStay, SentStays,
     RunsStay, OffsetTyped, ExecutedStays DEF IInv

(* Whoever recovers, is cut off and races for an entry, the locks, audits, *)
(* copies and counts stay in step.                                         *)
THEOREM Invariant == Spec => []IInv
<1>. QED
  BY InitIInv, NextIInv, PTL DEF Spec

(* Every variable keeps its type.                                          *)
THEOREM TypeCorrect == Spec => []TypeOK
<1>1. IInv => TypeOK
  BY DEF IInv
<1>. QED
  BY <1>1, Invariant, PTL

(* A recovered entry is never recovered again.                             *)
THEOREM OutcomesAreFinal == Spec => OutcomeIsFinal
<1>1. ASSUME IInv, [Next]_vars
      PROVE  [\A n \in Positions : entry[n].status \in {"REPLAYED", "DISCARDED", "DELETED"} =>
                 /\ entry'[n].status \in {entry[n].status, "DELETED"}
                 /\ entry'[n].by = entry[n].by]_vars
  BY <1>1, EntrySteps DEF Forward
<1>. QED
  BY <1>1, Invariant, PTL DEF Spec, OutcomeIsFinal

(* The audits of an entry are one row, with its outcome, once recovered.   *)
LEMMA AuditedOnce == ASSUME IInv PROVE RecoveredOnce
<1>. DEFINE rows(n) == {a \in audits : a.entry = n}
<1>1. ASSUME NEW n \in Positions, entry[n].status \notin Settled
      PROVE  rows(n) = {}
  BY <1>1 DEF IInv, AuditsMatch
<1>2. ASSUME NEW n \in Positions, entry[n].status \in Settled
      PROVE  /\ rows(n) = {a \in rows(n) : a.action = entry[n].status /\ a.by = entry[n].by}
             /\ Cardinality(rows(n)) = 1
  <2>1. PICK a \in audits :
           /\ a.entry = n /\ a.action = entry[n].status /\ a.by = entry[n].by
           /\ \A b \in audits : b.entry = n => b = a
    BY <1>2 DEF IInv, AuditsMatch
  <2>2. rows(n) = {a}
    BY <2>1
  <2>3. Cardinality({a}) = 1
    BY FS_Singleton
  <2>. QED
    BY <2>1, <2>2, <2>3
<1>3. \A a, b \in audits : a.key = b.key /\ a.key # None => a = b
  BY DEF IInv, AuditsMatch
<1>. QED
  BY <1>1, <1>2, <1>3 DEF RecoveredOnce, Settled

LEMMA CopiesAccounted == ASSUME IInv PROVE ReplaysAccounted
<1>. USE DEF IInv
<1>0. /\ topic \in [Sources -> Seq(CopyRecord)] /\ late \in SUBSET LateRecord
      /\ "telemetry" \in Sources /\ "created" \in Sources
  BY DEF TypeOK, CopyRecord, LateRecord, Sources
<1>1. ASSUME NEW n \in Positions
      PROVE  Replays(n) = Copies(n) /\ Copies(n) \in Nat
  BY <1>0, CopiesNat DEF Replays, Copies, CopyPlaces
<1>2. ASSUME NEW n \in Positions, entry[n].topic \in Sources, entry[n].status = "REPLAYED"
      PROVE  Replays(n) >= 1
  <2>1. PICK u \in Sources : u = entry[n].topic
    BY <1>2
  <2>2. CopyPlaces(topic[u], n) # {}
    BY <1>2, <2>1 DEF SentIsThere
  <2>3. IsFiniteSet(CopyPlaces(topic[u], n)) /\ Cardinality(CopyPlaces(topic[u], n)) \in Nat
    BY <1>0, CopyPlacesFinite
  <2>4. Cardinality(CopyPlaces(topic[u], n)) # 0
    BY <2>2, <2>3, FS_EmptySet
  <2>5. /\ Cardinality(CopyPlaces(topic["telemetry"], n)) \in Nat
        /\ Cardinality(CopyPlaces(topic["created"], n)) \in Nat
    BY <1>0, CopiesNat
  <2>6. Copies(n) >= 1
    <3>1. CASE u = "telemetry"
      BY <2>4, <2>5, <3>1 DEF Copies
    <3>2. CASE u = "created"
      BY <2>4, <2>5, <3>2 DEF Copies
    <3>. QED
      BY <3>1, <3>2 DEF Sources
  <2>. QED
    BY <1>1, <2>6
<1>3. ASSUME NEW n \in Positions, entry[n].topic \in Sources
      PROVE  Replays(n) <= lost + (IF \/ entry[n].status \in {"REPLAYED", "DELETED"}
                                      \/ \E c \in Clients : job[c].entry = n
                                   THEN 1 ELSE 0)
  <2>1. Copies(n) + Cardinality(LateOf(late, n)) <= lost + Granted(n)
    BY <1>3 DEF CopiesCounted, Counted, Copies
  <2>2. Cardinality(LateOf(late, n)) \in Nat /\ lost \in Nat
    <3>1. LateOf(late, n) \in SUBSET LateRecord
      BY <1>0 DEF LateOf
    <3>2. lost \in Nat
      BY DlqRecoveryAssumption DEF TypeOK
    <3>. QED
      BY <3>1, <3>2, LateFinite
  <2>3. Granted(n) <= IF \/ entry[n].status \in {"REPLAYED", "DELETED"}
                         \/ \E c \in Clients : job[c].entry = n
                      THEN 1 ELSE 0
    BY DEF Granted
  <2>4. Granted(n) \in {0, 1}
    BY DEF Granted
  <2>. QED
    BY <1>1, <2>1, <2>2, <2>3, <2>4
<1>. QED
  BY <1>2, <1>3 DEF ReplaysAccounted

(* Of all who race for a dead letter one recovers it, and every copy of it *)
(* is that of its recovery or of a replay that was cut off.                *)
THEOREM RecoveredByOne == Spec => []OneRecovery
<1>1. IInv => OneRecovery
  BY AuditedOnce, CopiesAccounted DEF OneRecovery
<1>. QED
  BY <1>1, Invariant, PTL

(* The catalog's consumer never passes over a dead letter.                 *)
THEOREM NothingPassesTheCatalog == Spec => []NothingUncatalogued
<1>1. IInv => NothingUncatalogued
  BY DEF IInv
<1>. QED
  BY <1>1, Invariant, PTL

(* An executed plan recovered every one of its entries, also when it was   *)
(* cut off in between and executed again.                                  *)
THEOREM ExecutedPlansAreDone == Spec => []ExecutedMeansAll
<1>1. IInv => ExecutedMeansAll
  BY DEF IInv
<1>. QED
  BY <1>1, Invariant, PTL
=============================================================================

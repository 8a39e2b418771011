------------------------------ MODULE DlqRecovery ------------------------------
(***************************************************************************)
(* Dead letters from quarantine to recovery: the catalog of the dead       *)
(* letter topics (DeadLetterCatalog), its consumer's error handler         *)
(* (KafkaConfig), the operators' single replays and discards               *)
(* (ReplayService), and batches run as a plan (ReplayPlanService,          *)
(* DiscardPlanService), whose recoveries commit one by one in transactions *)
(* of their own while the plan's transaction is open.                      *)
(*                                                                         *)
(* A catalog entry is named by the position of its dead letter.  Both dead *)
(* letter topics are one sequence of records here.  An operator stands for *)
(* an X-Operator value and, in a discard, for the reason given with it.    *)
(***************************************************************************)
EXTENDS Naturals, Sequences, SequencesExt, FiniteSets

CONSTANTS
    Payloads,
    Home,       \* Home[m]: "telemetry" or "created", the topic m was published to
    Operators,
    Keys,       \* Idempotency-Key values
    Clients,    \* recovery requests that run at the same time
    Plans,      \* plans, named by the request key that created them
    MaxLetters, \* bound: records in the dead letter topics
    MaxLost,    \* bound: replays and plans that are cut off
    None

ASSUME DlqRecoveryAssumption ==
    /\ MaxLetters \in Nat /\ MaxLost \in Nat
    /\ IsFiniteSet(Payloads)
    /\ Home \in [Payloads -> {"telemetry", "created"}]
    /\ None \notin Operators \cup Keys \cup Plans

VARIABLES
    topic,      \* topic[t]: records of a source topic [payload, entry]; entry 0: not replayed
    letters,    \* records of the dead letter topics: [on, payload, from, pos]
    offset,     \* committed offset of the catalog consumer
    entry,      \* entry[n]: catalog row of letters[n]: [status, topic, by]
    audits,     \* replay_audits: [entry, action, by, key]
    job,        \* job[c]: the recovery client c has open
    plan,       \* plan[p]: row of replay_plans or discard_plans
    run,        \* run[c]: the plan client c is executing
    late,       \* replays whose caller stopped waiting, not yet appended
    lost        \* replays and plans cut off so far

vars == <<topic, letters, offset, entry, audits, job, plan, run, late, lost>>

Sources == {"telemetry", "created"}

DeadOf == [telemetry |-> "telemetry.dlq", created |-> "created.dlq"]

DeadTopics == {"telemetry.dlq", "created.dlq"}

Topics == Sources \cup DeadTopics

Positions == 1..MaxLetters

\* from and pos: the original-topic, -partition and -offset headers, or None and 0
Letter == [on : DeadTopics, payload : Payloads, from : Topics \cup {None}, pos : Nat]

Entry == [status : {"NONE", "PENDING", "REPLAYED", "DISCARDED", "DELETED"},
          topic : Topics \cup {None}, by : Operators \cup {None}]

NoEntry == [status |-> "NONE", topic |-> None, by |-> None]

Audit == [entry : Positions, action : {"REPLAYED", "DISCARDED"}, by : Operators,
          key : Keys \cup {None}]

Job == [stage : {"idle", "sending", "sent"}, entry : {0} \cup Positions,
        by : Operators \cup {None}, key : Keys \cup {None}]

NoJob == [stage |-> "idle", entry |-> 0, by |-> None, key |-> None]

Plan == [status : {"NONE", "PREPARED", "EXECUTED", "PARTIAL", "EXPIRED"},
         action : {"REPLAYED", "DISCARDED"}, by : Operators \cup {None},
         entries : SUBSET Positions, key : Keys \cup {None}, good : Nat]

NoPlan == [status |-> "NONE", action |-> "REPLAYED", by |-> None, entries |-> {},
           key |-> None, good |-> 0]

Run == [plan : Plans \cup {None}, key : Keys \cup {None}, todo : SUBSET Positions, good : Nat]

NoRun == [plan |-> None, key |-> None, todo |-> {}, good |-> 0]

TypeOK ==
    /\ topic \in [Sources -> Seq([payload : Payloads, entry : {0} \cup Positions])]
    /\ letters \in Seq(Letter)
    /\ offset \in 0..Len(letters)
    /\ entry \in [Positions -> Entry]
    /\ audits \in SUBSET Audit
    /\ job \in [Clients -> Job]
    /\ plan \in [Plans -> Plan]
    /\ run \in [Clients -> Run]
    /\ late \in SUBSET [cut : 1..MaxLost, entry : Positions]
    /\ lost \in 0..MaxLost

Init ==
    /\ topic = [t \in Sources |->
          SetToSeq({[payload |-> m, entry |-> 0] : m \in {x \in Payloads : Home[x] = t}})]
    /\ letters = <<>>
    /\ offset = 0
    /\ entry = [n \in Positions |-> NoEntry]
    /\ audits = {}
    /\ job = [c \in Clients |-> NoJob]
    /\ plan = [p \in Plans |-> NoPlan]
    /\ run = [c \in Clients |-> NoRun]
    /\ late = {}
    /\ lost = 0

-----------------------------------------------------------------------------
\* Quarantine and catalog

AppendLetter(letter) ==
    /\ Len(letters) < MaxLetters
    /\ letters' = Append(letters, letter)

\* The consumer of a source topic gives a record up.  After a restart it may give
\* up the same record again.
Quarantine(t, n) ==
    /\ n \in DOMAIN topic[t]
    /\ AppendLetter([on |-> DeadOf[t], payload |-> topic[t][n].payload, from |-> t, pos |-> n])
    /\ UNCHANGED <<topic, offset, entry, audits, job, plan, run, late, lost>>

\* Catalog rows with the same original position, when the letter names one.
SameOrigin(x) ==
    {n \in DOMAIN letters : /\ entry[n].status \notin {"NONE", "DELETED"}
                            /\ x.from # None
                            /\ letters[n].from = x.from /\ letters[n].pos = x.pos}

\* DeadLetterCatalog.capture; a record without headers is taken for telemetry.
Capture ==
    LET n == offset + 1
    IN  /\ n \in DOMAIN letters
        /\ entry[n] = NoEntry
        /\ SameOrigin(letters[n]) = {}
        /\ entry' = [entry EXCEPT ![n] =
              [status |-> "PENDING", by |-> None,
               topic |-> IF letters[n].from = None THEN "telemetry" ELSE letters[n].from]]
        /\ UNCHANGED <<topic, letters, offset, audits, job, plan, run, late, lost>>

\* The offset is committed once the record is in the catalog; until then it may
\* be delivered again, and is found there.
CommitOffset ==
    LET n == offset + 1
    IN  /\ n \in DOMAIN letters
        /\ entry[n] # NoEntry \/ SameOrigin(letters[n]) # {}
        /\ offset' = n
        /\ UNCHANGED <<topic, letters, entry, audits, job, plan, run, late, lost>>

\* Fault: the recoverer only logs the record.
CaptureFailsSilently ==
    LET n == offset + 1
    IN  /\ n \in DOMAIN letters
        /\ entry[n] = NoEntry
        /\ offset' = n
        /\ UNCHANGED <<topic, letters, entry, audits, job, plan, run, late, lost>>

\* The catalog cannot store the record for 8 seconds: its listener has the error
\* handler of the telemetry consumer, which publishes to the telemetry dead
\* letter topic with the dead letter's own position as the original one.
CaptureFails ==
    LET n == offset + 1
    IN  /\ n \in DOMAIN letters
        /\ entry[n] = NoEntry
        /\ AppendLetter([on |-> "telemetry.dlq", payload |-> letters[n].payload,
                         from |-> letters[n].on, pos |-> n])
        /\ offset' = n
        /\ UNCHANGED <<topic, entry, audits, job, plan, run, late, lost>>

-----------------------------------------------------------------------------
\* Single recovery

EntryLocked(n) == \E c \in Clients : job[c].entry = n

KeyLocked(k) == k # None /\ \E c \in Clients : job[c].key = k

\* A replay sends key and payload to the topic of the entry, without headers.
Publish(n) ==
    LET t == entry[n].topic
        m == letters[n].payload
    IN  IF t \in Sources
        THEN /\ topic' = [topic EXCEPT ![t] = Append(@, [payload |-> m, entry |-> n])]
             /\ UNCHANGED letters
        ELSE /\ AppendLetter([on |-> t, payload |-> m, from |-> None, pos |-> 0])
             /\ UNCHANGED topic

\* Fault: the key of a recovery is not looked up.
NewKeyAny(k) == TRUE

\* A key is new until an audit row has it; a known one is answered or refused.
NewKey(k) == k = None \/ \A a \in audits : a.key # k

\* Fault: the row is not locked while it is published.
BeginReplayUnlocked(c, n, op, k) ==
    /\ job[c] = NoJob
    /\ ~KeyLocked(k) /\ NewKey(k)
    /\ entry[n].status = "PENDING"
    /\ job' = [job EXCEPT ![c] = [stage |-> "sending", entry |-> n, by |-> op, key |-> k]]

\* ReplayService.replay as far as kafka.send: lock and look up the key, lock the
\* row, find it pending.
BeginReplay(c, n, op, k) ==
    /\ job[c] = NoJob
    /\ ~KeyLocked(k) /\ NewKey(k)
    /\ ~EntryLocked(n)
    /\ entry[n].status = "PENDING"
    /\ job' = [job EXCEPT ![c] = [stage |-> "sending", entry |-> n, by |-> op, key |-> k]]

\* POST /operations/dlq/{id}/replay.
Replay(c, n, op, k) ==
    /\ run[c] = NoRun
    /\ BeginReplay(c, n, op, k)
    /\ UNCHANGED <<topic, letters, offset, entry, audits, plan, run, late, lost>>

\* The broker has the record and says so in time.
Sent(c) ==
    /\ job[c].stage = "sending"
    /\ Publish(job[c].entry)
    /\ job' = [job EXCEPT ![c].stage = "sent"]
    /\ UNCHANGED <<offset, entry, audits, plan, run, late, lost>>

Settle(n, action, op, k) ==
    /\ entry' = [entry EXCEPT ![n] = [@ EXCEPT !.status = action, !.by = op]]
    /\ audits' = audits \cup {[entry |-> n, action |-> action, by |-> op, key |-> k]}

Tick(c, n, good) == run' = IF run[c] = NoRun THEN run
                          ELSE [run EXCEPT ![c].todo = @ \ {n}, ![c].good = @ + good]

\* markReplayed and its audit row are committed.
CommitReplay(c) ==
    /\ job[c].stage = "sent"
    /\ Settle(job[c].entry, "REPLAYED", job[c].by, job[c].key)
    /\ job' = [job EXCEPT ![c] = NoJob]
    /\ Tick(c, job[c].entry, 1)
    /\ UNCHANGED <<topic, letters, offset, plan, late, lost>>

\* A record that was handed to the producer is lost with it, or appended later.
LeaveBehind(c) ==
    \/ /\ job[c].stage = "sending"
       /\ late' = late \cup {[cut |-> lost + 1, entry |-> job[c].entry]}
    \/ UNCHANGED late

\* The send fails or takes longer than 5 seconds, or the commit fails: rolled
\* back.
ReplayFails(c) ==
    /\ job[c] # NoJob
    /\ lost < MaxLost
    /\ lost' = lost + 1
    /\ LeaveBehind(c)
    /\ job' = [job EXCEPT ![c] = NoJob]
    /\ Tick(c, job[c].entry, 0)
    /\ UNCHANGED <<topic, letters, offset, entry, audits, plan>>

AppendLate(l) ==
    /\ Publish(l.entry)
    /\ late' = late \ {l}
    /\ UNCHANGED <<offset, entry, audits, job, plan, run, lost>>

\* POST /operations/dlq/{id}/discard, one transaction.
Discard(c, n, op, k) ==
    /\ run[c] = NoRun /\ job[c] = NoJob
    /\ ~KeyLocked(k) /\ NewKey(k)
    /\ ~EntryLocked(n)
    /\ entry[n].status = "PENDING"
    /\ Settle(n, "DISCARDED", op, k)
    /\ UNCHANGED <<topic, letters, offset, job, plan, run, late, lost>>

-----------------------------------------------------------------------------
\* Plans

\* prepare: a set of entries that are pending now.
Prepare(p, action, op, chosen) ==
    /\ plan[p] = NoPlan
    /\ chosen # {}
    /\ \A n \in chosen : entry[n].status = "PENDING"
    /\ plan' = [plan EXCEPT ![p] = [NoPlan EXCEPT !.status = "PREPARED", !.action = action,
                                                  !.by = op, !.entries = chosen]]
    /\ UNCHANGED <<topic, letters, offset, entry, audits, job, run, late, lost>>

PlanLocked(p) == \E c \in Clients : run[c].plan = p

ExecutionKeyFree(k) ==
    k # None => /\ \A c \in Clients : run[c].key # k
                /\ \A p \in Plans : plan[p].key # k

\* execute: lock and look up the execution key, lock the plan's row, begin.
Execute(c, p, k) ==
    /\ run[c] = NoRun /\ job[c] = NoJob
    /\ ExecutionKeyFree(k) /\ ~PlanLocked(p)
    /\ plan[p].status = "PREPARED"
    /\ run' = [run EXCEPT ![c] = [plan |-> p, key |-> k, todo |-> plan[p].entries, good |-> 0]]
    /\ UNCHANGED <<topic, letters, offset, entry, audits, job, plan, late, lost>>

\* The plan's ten minutes are over.
Expire(p, k) ==
    /\ ExecutionKeyFree(k) /\ ~PlanLocked(p)
    /\ plan[p].status = "PREPARED"
    /\ plan' = [plan EXCEPT ![p] = [@ EXCEPT !.status = "EXPIRED", !.key = k]]
    /\ UNCHANGED <<topic, letters, offset, entry, audits, job, run, late, lost>>

\* A plan that ended without an execution key takes the first one it is asked for.
BindExecution(p, k) ==
    /\ k # None
    /\ ExecutionKeyFree(k) /\ ~PlanLocked(p)
    /\ plan[p].status \in {"EXECUTED", "PARTIAL", "EXPIRED"}
    /\ plan[p].key = None
    /\ plan' = [plan EXCEPT ![p].key = k]
    /\ UNCHANGED <<topic, letters, offset, entry, audits, job, run, late, lost>>

\* Fault: an entry that somebody recovered counts as recovered by the plan.
AlreadyByAnyone(p, n) == entry[n].status \in {"REPLAYED", "DISCARDED"}

\* Without a request key a repeated recovery of the same operator is a success.
Already(p, n) == entry[n].status = plan[p].action /\ entry[n].by = plan[p].by

\* One entry of a running plan, in a transaction of its own.
PlanReplays(c, n) ==
    /\ n \in run[c].todo
    /\ plan[run[c].plan].action = "REPLAYED"
    /\ BeginReplay(c, n, plan[run[c].plan].by, None)
    /\ UNCHANGED <<topic, letters, offset, entry, audits, plan, run, late, lost>>

PlanDiscards(c, n) ==
    /\ n \in run[c].todo
    /\ plan[run[c].plan].action = "DISCARDED"
    /\ ~EntryLocked(n)
    /\ entry[n].status = "PENDING"
    /\ Settle(n, "DISCARDED", plan[run[c].plan].by, None)
    /\ Tick(c, n, 1)
    /\ UNCHANGED <<topic, letters, offset, job, plan, late, lost>>

\* The entry is no longer pending: recovered already, or a failure.
PlanSkips(c, n) ==
    /\ n \in run[c].todo
    /\ ~EntryLocked(n)
    /\ entry[n].status # "PENDING"
    /\ Tick(c, n, IF Already(run[c].plan, n) THEN 1 ELSE 0)
    /\ UNCHANGED <<topic, letters, offset, entry, audits, job, plan, late, lost>>

\* complete: the counts and the outcome are committed.
Complete(c) ==
    LET p == run[c].plan
    IN  /\ p # None
        /\ run[c].todo = {} /\ job[c] = NoJob
        /\ plan' = [plan EXCEPT ![p] = [@ EXCEPT !.good = run[c].good, !.key = run[c].key,
                       !.status = IF run[c].good = Cardinality(plan[p].entries)
                                  THEN "EXECUTED" ELSE "PARTIAL"]]
        /\ run' = [run EXCEPT ![c] = NoRun]
        /\ UNCHANGED <<topic, letters, offset, entry, audits, job, late, lost>>

\* The instance stops in the middle of a plan, or the request is interrupted: the
\* plan is prepared as before, what it recovered stays recovered.
CutOff(c) ==
    /\ run[c] # NoRun
    /\ lost < MaxLost
    /\ lost' = lost + 1
    /\ run' = [run EXCEPT ![c] = NoRun]
    /\ job' = [job EXCEPT ![c] = NoJob]
    /\ LeaveBehind(c)
    /\ UNCHANGED <<topic, letters, offset, entry, audits, plan>>

-----------------------------------------------------------------------------
\* Retention deletes a recovered entry after 90 days, with its audit (V26).
Purge(n) ==
    /\ n <= offset
    /\ entry[n].status \in {"REPLAYED", "DISCARDED"}
    /\ ~EntryLocked(n)
    /\ entry' = [entry EXCEPT ![n].status = "DELETED"]
    /\ audits' = {a \in audits : a.entry # n}
    /\ UNCHANGED <<topic, letters, offset, job, plan, run, late, lost>>

Next ==
    \/ \E t \in Sources, n \in Positions : Quarantine(t, n)
    \/ Capture \/ CommitOffset \/ CaptureFails
    \/ \E c \in Clients, n \in Positions, op \in Operators, k \in Keys :
          Replay(c, n, op, k) \/ Discard(c, n, op, k)
    \/ \E c \in Clients : Sent(c) \/ CommitReplay(c) \/ ReplayFails(c) \/ Complete(c) \/ CutOff(c)
    \/ \E p \in Plans, action \in {"REPLAYED", "DISCARDED"}, op \in Operators,
          chosen \in SUBSET Positions : Prepare(p, action, op, chosen)
    \/ \E c \in Clients, p \in Plans, k \in Keys \cup {None} : Execute(c, p, k)
    \/ \E p \in Plans, k \in Keys \cup {None} : Expire(p, k) \/ BindExecution(p, k)
    \/ \E c \in Clients, n \in Positions : PlanReplays(c, n) \/ PlanDiscards(c, n) \/ PlanSkips(c, n)
    \/ \E l \in late : AppendLate(l)
    \/ \E n \in Positions : Purge(n)

Spec == Init /\ [][Next]_vars

-----------------------------------------------------------------------------
\* Whoever races for an entry, by hand or by a plan, one of them recovers it: a
\* recovered entry has one audit row, with its outcome and operator, a pending
\* one has none, and every key was used for one recovery.
RecoveredOnce ==
    /\ \A n \in Positions :
          LET rows == {a \in audits : a.entry = n}
          IN  rows = IF entry[n].status \in {"REPLAYED", "DISCARDED"}
                     THEN {a \in rows : a.action = entry[n].status /\ a.by = entry[n].by}
                     ELSE {}
    /\ \A n \in Positions : entry[n].status \in {"REPLAYED", "DISCARDED"} =>
          Cardinality({a \in audits : a.entry = n}) = 1
    /\ \A a, b \in audits : a.key = b.key /\ a.key # None => a = b

Replays(n) ==
    LET inTopic(t) == {i \in DOMAIN topic[t] : topic[t][i].entry = n}
    IN  Cardinality(inTopic("telemetry")) + Cardinality(inTopic("created"))

\* A replayed entry was published, and again only if a replay was cut off; one
\* that was discarded was published only by a replay that was cut off before.
ReplaysAccounted ==
    \A n \in Positions : entry[n].topic \in Sources =>
        /\ entry[n].status = "REPLAYED" => Replays(n) >= 1
        /\ Replays(n) <= lost + (IF \/ entry[n].status \in {"REPLAYED", "DELETED"}
                                    \/ \E c \in Clients : job[c].entry = n
                                 THEN 1 ELSE 0)

\* Every entry is recovered once, by one of those who race for it, and every copy
\* of its payload in a topic is explained by that recovery or by a replay that was
\* cut off.
OneRecovery == RecoveredOnce /\ ReplaysAccounted

\* The catalog never passes over a dead letter: it has the record, or another one
\* of the same original position, or the record was dead-lettered again.
NothingUncatalogued ==
    \A n \in 1..offset :
        \/ entry[n] # NoEntry
        \/ \E m \in DOMAIN letters : /\ entry[m] # NoEntry
                                     /\ letters[m].from = letters[n].from
                                     /\ letters[m].pos = letters[n].pos
        \/ \E m \in DOMAIN letters : letters[m].from = letters[n].on /\ letters[m].pos = n

\* An executed plan recovered every one of its entries under its operator, also
\* when it was cut off and executed again; entries that others recovered, or that
\* failed, leave it partial.
ExecutedMeansAll ==
    \A p \in Plans : plan[p].status = "EXECUTED" =>
        \A n \in plan[p].entries :
            /\ entry[n].status \in {plan[p].action, "DELETED"}
            /\ entry[n].by = plan[p].by

\* A recovered entry is never recovered again: its outcome and operator stay.
OutcomeIsFinal ==
    [][\A n \in Positions : entry[n].status \in {"REPLAYED", "DISCARDED", "DELETED"} =>
          /\ entry'[n].status \in {entry[n].status, "DELETED"}
          /\ entry'[n].by = entry[n].by]_vars

\* docs/architecture.md: the operations API replays a dead letter to its original
\* topic.
ReplayGoesHome ==
    /\ \A t \in Sources : \A n \in DOMAIN topic[t] : Home[topic[t][n].payload] = t
    /\ \A n \in DOMAIN letters : letters[n].from # None
=============================================================================

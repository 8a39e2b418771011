---------------------------- MODULE SimulatorOffsets ----------------------------
(***************************************************************************)
(* The GPS simulator (logitrack_sim/main.py): one process of the consumer  *)
(* group reads delivery.created.v1, drives one simulation per record on a  *)
(* pool of workers, and commits by hand the offsets whose predecessors are *)
(* all finished (ContiguousOffsetTracker).  Every error stops the process, *)
(* which is restarted and reads again from the committed offsets.          *)
(*                                                                         *)
(* A record is a pair <<partition, offset>>, offsets count from 1; a       *)
(* committed offset is the next one to read, as in Kafka.  An event is     *)
(* named by its delivery; the same event may lie in the log twice, because *)
(* the outbox repeats it.  Poison stands for an event that breaks the      *)
(* contract of decode_delivery_event.  The API's side is external: it      *)
(* applies telemetry that was published, and may delete a delivered demo   *)
(* delivery.                                                               *)
(***************************************************************************)
EXTENDS Naturals, Sequences, FiniteSets, FiniteSetsExt

CONSTANTS
    Partitions,    \* partitions of delivery.created.v1
    Deliveries,    \* delivery ids
    HomeOf,        \* HomeOf[d]: the partition of the delivery's key
    Poison,        \* an invalid event
    Steps,         \* SIMULATION_STEPS
    Workers,       \* SIMULATION_MAX_WORKERS
    Resume,        \* SIMULATION_RESUME_FROM_API
    MaxRecords,    \* bound: records per partition
    MaxFaults,     \* bound: broker and API errors, crashes, reassignments
    MaxDeleted     \* bound: deliveries deleted

ASSUME SimulatorAssumption ==
    /\ HomeOf \in [Deliveries -> Partitions]
    /\ Poison \notin Deliveries
    /\ Steps \in Nat \ {0}
    /\ Workers \in Nat \ {0}
    /\ Resume \in BOOLEAN
    /\ MaxRecords \in Nat
    /\ MaxFaults \in Nat
    /\ MaxDeleted \in Nat

VARIABLES
    log,          \* log[p]: the events of the partition
    committed,    \* committed[p]: the group's offset, the next to read after a restart
    quarantined,  \* records that have a copy in delivery.created.dlq.v1
    telemetry,    \* telemetry[d]: step indexes in vehicle.telemetry.v1
    progress,     \* progress[d]: the step the API has applied last
    deleted,      \* deliveries the API has deleted
    up,           \* the process runs
    position,     \* position[p]: the next offset the client fetches
    pending,      \* tracker: registered offsets not yet passed (the deque, always ascending)
    completed,    \* tracker: finished offsets that wait for a predecessor
    lastSeen,     \* tracker: highest offset registered, 0 for none
    main,         \* where the main loop is: [at, record]
    backlog,      \* records submitted to the executor and not started
    running,      \* running simulations: [record, next], the next step to publish
    completions,  \* finished simulations the main loop has not looked at: [record, ok]
    faults        \* faults so far

tracker == <<pending, completed, lastSeen>>
workers == <<backlog, running, completions>>
kafka == <<log, committed>>
api == <<progress, deleted>>
vars == <<kafka, quarantined, telemetry, api, up, position, tracker, main, workers, faults>>

Offsets == 1..MaxRecords
Records == Partitions \X Offsets
NoRecord == <<>>
Event(r) == log[r[1]][r[2]]
Idle == [at |-> "drain", record |-> NoRecord]

Init ==
    /\ log = [p \in Partitions |-> <<>>]
    /\ committed = [p \in Partitions |-> 1]
    /\ quarantined = {}
    /\ telemetry = [d \in Deliveries |-> {}]
    /\ progress = [d \in Deliveries |-> 0]
    /\ deleted = {}
    /\ up = TRUE
    /\ position = [p \in Partitions |-> 1]
    /\ pending = [p \in Partitions |-> {}]
    /\ completed = [p \in Partitions |-> {}]
    /\ lastSeen = [p \in Partitions |-> 0]
    /\ main = Idle
    /\ backlog = <<>>
    /\ running = {}
    /\ completions = <<>>
    /\ faults = 0

-----------------------------------------------------------------------------
\* The process ends (os._exit) or is killed: all it knew is gone.
Stop ==
    /\ up' = FALSE
    /\ position' = [p \in Partitions |-> 1]
    /\ pending' = [p \in Partitions |-> {}]
    /\ completed' = [p \in Partitions |-> {}]
    /\ lastSeen' = [p \in Partitions |-> 0]
    /\ main' = Idle
    /\ backlog' = <<>>
    /\ running' = {}
    /\ completions' = <<>>

Fault == faults < MaxFaults /\ faults' = faults + 1

\* Fault: offsets behind a gap are passed too.
PassedWithGaps(p, done) == {n \in pending[p] : n \in done}

\* The finished offsets at the front of the deque.
Passed(p, done) == {n \in pending[p] : \A m \in pending[p] : m <= n => m \in done}

\* ContiguousOffsetTracker.complete and the synchronous commit of the offset
\* after the finished prefix, if there is one; then the loop goes on.  A commit
\* that is answered with an error may have been stored; the error stops the
\* process.
Complete(r, mainNext, completionsNext) ==
    LET p == r[1]
        done == completed[p] \cup {r[2]}
        passed == Passed(p, done)
        commit == IF passed = {} THEN committed ELSE [committed EXCEPT ![p] = Max(passed) + 1]
    IN  \/ /\ pending' = [pending EXCEPT ![p] = @ \ passed]
           /\ completed' = [completed EXCEPT ![p] = done \ passed]
           /\ committed' = commit
           /\ main' = mainNext
           /\ completions' = completionsNext
           /\ UNCHANGED <<up, position, lastSeen, backlog, running, faults>>
        \/ /\ passed # {}
           /\ Fault
           /\ committed' \in {committed, commit}
           /\ Stop

-----------------------------------------------------------------------------
\* The outbox publishes an event, or somebody else an invalid one.
Publish(p, e) ==
    /\ Len(log[p]) < MaxRecords
    /\ e \in Deliveries => HomeOf[e] = p
    /\ log' = [log EXCEPT ![p] = Append(@, e)]
    /\ UNCHANGED <<committed, quarantined, telemetry, api, up, position, tracker, main,
                   workers, faults>>

\* TelemetryConsumer applies a published position that is ahead of the delivery.
Apply(d, i) ==
    /\ d \notin deleted
    /\ i \in telemetry[d]
    /\ i > progress[d]
    /\ progress' = [progress EXCEPT ![d] = i]
    /\ UNCHANGED <<kafka, quarantined, telemetry, deleted, up, position, tracker, main,
                   workers, faults>>

\* DemoDeliverySeeder.replenish deletes a delivered delivery.
Delete(d) ==
    /\ progress[d] = Steps
    /\ d \notin deleted
    /\ Cardinality(deleted) < MaxDeleted
    /\ deleted' = deleted \cup {d}
    /\ UNCHANGED <<kafka, quarantined, telemetry, progress, up, position, tracker, main,
                   workers, faults>>

-----------------------------------------------------------------------------
\* drain_completions, before every poll and while the loop waits for a slot: the
\* first failed simulation stops the process.
Drain ==
    /\ up
    /\ main.at \in {"drain", "submit"}
    /\ completions # <<>>
    /\ LET c == Head(completions)
       IN  \/ /\ c.ok
              /\ Complete(c.record, main, Tail(completions))
           \/ /\ ~c.ok
              /\ Stop
              /\ UNCHANGED <<committed, faults>>
    /\ UNCHANGED <<log, quarantined, telemetry, api>>

Drained ==
    /\ up
    /\ main.at = "drain"
    /\ completions = <<>>
    /\ main' = [main EXCEPT !.at = "poll"]
    /\ UNCHANGED <<kafka, quarantined, telemetry, api, up, position, tracker, workers, faults>>

\* The poll returns nothing, or an error.
PollNothing ==
    /\ up
    /\ main.at = "poll"
    /\ main' = Idle
    /\ UNCHANGED <<kafka, quarantined, telemetry, api, up, position, tracker, workers, faults>>

\* Fault: a record that was registered before is registered again.
PollAgain(p) ==
    /\ up
    /\ main.at = "poll"
    /\ position[p] <= Len(log[p])
    /\ pending' = [pending EXCEPT ![p] = @ \cup {position[p]}]
    /\ lastSeen' = [lastSeen EXCEPT ![p] = position[p]]
    /\ position' = [position EXCEPT ![p] = @ + 1]
    /\ main' = [at |-> IF log[p][position[p]] = Poison THEN "quarantine" ELSE "submit",
                record |-> <<p, position[p]>>]
    /\ UNCHANGED <<kafka, quarantined, telemetry, api, up, completed, workers, faults>>

\* The poll returns the next record of a partition, which is registered and
\* decoded.  A record that was registered before, after the partition was taken
\* away and given back, stops the process.
Poll(p) ==
    /\ up
    /\ main.at = "poll"
    /\ position[p] <= Len(log[p])
    /\ LET n == position[p]
           at == IF log[p][n] = Poison THEN "quarantine" ELSE "submit"
       IN  \/ /\ n > lastSeen[p]
              /\ pending' = [pending EXCEPT ![p] = @ \cup {n}]
              /\ lastSeen' = [lastSeen EXCEPT ![p] = n]
              /\ position' = [position EXCEPT ![p] = n + 1]
              /\ main' = [at |-> at, record |-> <<p, n>>]
              /\ UNCHANGED <<up, completed, workers>>
           \/ /\ n <= lastSeen[p]
              /\ Stop
    /\ UNCHANGED <<kafka, quarantined, telemetry, api, faults>>

\* An invalid record is passed when the broker has confirmed its copy.
Quarantine ==
    /\ up
    /\ main.at = "quarantine"
    /\ quarantined' = quarantined \cup {main.record}
    /\ Complete(main.record, Idle, completions)
    /\ UNCHANGED <<log, telemetry, api>>

\* No confirmation: the copy may have been stored, the process stops.
QuarantineFails ==
    /\ up
    /\ main.at = "quarantine"
    /\ Fault
    /\ quarantined' \in {quarantined, quarantined \cup {main.record}}
    /\ Stop
    /\ UNCHANGED <<kafka, telemetry, api>>

\* One of 2 * Workers slots is free.
Submit ==
    /\ up
    /\ main.at = "submit"
    /\ Len(backlog) + Cardinality(running) < 2 * Workers
    /\ backlog' = Append(backlog, main.record)
    /\ main' = Idle
    /\ UNCHANGED <<kafka, quarantined, telemetry, api, up, position, tracker, running,
                   completions, faults>>

-----------------------------------------------------------------------------
Finish(r, ok) == completions' = Append(completions, [record |-> r, ok |-> ok])

\* Fault: one step too far.
FirstStepLate(d) == IF Resume THEN progress[d] + 2 ELSE 1

\* The steps after the progress the simulation starts from.
FirstStep(d) == IF Resume THEN progress[d] + 1 ELSE 1

\* Fault: a simulation that cannot read its delivery tells nobody.
StartSwallowed ==
    /\ up
    /\ backlog # <<>>
    /\ Cardinality(running) < Workers
    /\ LET r == Head(backlog)
           d == Event(r)
       IN  \/ /\ ~Resume \/ d \notin deleted
              /\ running' = running \cup {[record |-> r, next |-> FirstStep(d)]}
              /\ UNCHANGED faults
           \/ /\ Resume
              /\ Fault
              /\ UNCHANGED running
    /\ backlog' = Tail(backlog)
    /\ UNCHANGED <<kafka, quarantined, telemetry, api, up, position, tracker, main, completions>>

\* A worker takes the next record and reads where its delivery is.
Start ==
    /\ up
    /\ backlog # <<>>
    /\ Cardinality(running) < Workers
    /\ LET r == Head(backlog)
           d == Event(r)
       IN  \/ /\ ~Resume \/ d \notin deleted
              /\ running' = running \cup {[record |-> r, next |-> FirstStep(d)]}
              /\ UNCHANGED <<completions, faults>>
           \/ /\ Resume
              /\ d \in deleted
              /\ Finish(r, FALSE)
              /\ UNCHANGED <<running, faults>>
           \/ /\ Resume
              /\ Fault
              /\ Finish(r, FALSE)
              /\ UNCHANGED running
    /\ backlog' = Tail(backlog)
    /\ UNCHANGED <<kafka, quarantined, telemetry, api, up, position, tracker, main>>

\* publish_telemetry of one step: the broker stores it, and the worker goes on
\* when the delivery report says so.
StepStored(t) ==
    /\ t.next <= Steps
    /\ telemetry' = [telemetry EXCEPT ![Event(t.record)] = @ \cup {t.next}]
    /\ UNCHANGED <<kafka, quarantined, api, up, position, tracker, main, workers, faults>>

StepConfirmed(t) ==
    /\ t.next <= Steps
    /\ t.next \in telemetry[Event(t.record)]
    /\ running' = (running \ {t}) \cup {[t EXCEPT !.next = @ + 1]}
    /\ UNCHANGED <<kafka, quarantined, telemetry, api, up, position, tracker, main, backlog,
                   completions, faults>>

\* No report, or an error, whether the broker stored the step or not: the
\* simulation fails.
StepFails(t) ==
    /\ t.next <= Steps
    /\ Fault
    /\ running' = running \ {t}
    /\ Finish(t.record, FALSE)
    /\ UNCHANGED <<kafka, quarantined, telemetry, api, up, position, tracker, main, backlog>>

\* Every step is published, or the delivery was delivered from the start.
Finished(t) ==
    /\ t.next > Steps
    /\ running' = running \ {t}
    /\ Finish(t.record, TRUE)
    /\ UNCHANGED <<kafka, quarantined, telemetry, api, up, position, tracker, main, backlog,
                   faults>>

-----------------------------------------------------------------------------
Crash ==
    /\ up
    /\ Fault
    /\ Stop
    /\ UNCHANGED <<kafka, quarantined, telemetry, api>>

\* The container is restarted and reads from the committed offsets.
Restart ==
    /\ ~up
    /\ up' = TRUE
    /\ position' = committed
    /\ UNCHANGED <<kafka, quarantined, telemetry, api, tracker, main, workers, faults>>

\* The group takes the partition away and gives it back: the client fetches from
\* the committed offset again, the tracker and the workers know nothing of it.
Reassign(p) ==
    /\ up
    /\ Fault
    /\ position' = [position EXCEPT ![p] = committed[p]]
    /\ UNCHANGED <<kafka, quarantined, telemetry, api, up, tracker, main, workers>>

-----------------------------------------------------------------------------
Next ==
    \/ \E p \in Partitions : \E e \in Deliveries \cup {Poison} : Publish(p, e)
    \/ \E d \in Deliveries : \E i \in 1..Steps : Apply(d, i)
    \/ \E d \in Deliveries : Delete(d)
    \/ Drain
    \/ Drained
    \/ PollNothing
    \/ \E p \in Partitions : Poll(p)
    \/ Quarantine
    \/ QuarantineFails
    \/ Submit
    \/ Start
    \/ \E t \in running : StepStored(t) \/ StepConfirmed(t) \/ StepFails(t) \/ Finished(t)
    \/ Crash
    \/ Restart
    \/ \E p \in Partitions : Reassign(p)

Spec == Init /\ [][Next]_vars

\* The main loop and the workers run on, the container is restarted, and a poll
\* returns every partition's records in the end (strong, because polls that
\* return nothing go through states where none is under way).
Fairness ==
    /\ WF_vars(Drain)
    /\ WF_vars(Drained)
    /\ \A p \in Partitions : SF_vars(Poll(p))
    /\ WF_vars(PollNothing)
    /\ WF_vars(Quarantine)
    /\ SF_vars(Submit)
    /\ WF_vars(Start)
    /\ \A p \in Partitions, n \in Offsets :
          WF_vars(\E t \in running : 
              /\ t.record = <<p, n>>
              /\ StepStored(t) \/ StepConfirmed(t) \/ Finished(t))
    /\ WF_vars(Restart)

FairSpec == Spec /\ Fairness

-----------------------------------------------------------------------------
\* Types.
TypeOK ==
    /\ \A p \in Partitions :
          /\ Len(log[p]) <= MaxRecords
          /\ \A n \in DOMAIN log[p] : log[p][n] \in Deliveries \cup {Poison}
          /\ committed[p] \in 1..Len(log[p]) + 1
          /\ position[p] \in 1..Len(log[p]) + 1
          /\ pending[p] \subseteq DOMAIN log[p]
          /\ completed[p] \subseteq pending[p]
          /\ lastSeen[p] \in 0..Len(log[p])
    /\ quarantined \subseteq Records
    /\ telemetry \in [Deliveries -> SUBSET (1..Steps)]
    /\ progress \in [Deliveries -> 0..Steps]
    /\ deleted \subseteq Deliveries
    /\ up \in BOOLEAN
    /\ main.at \in {"drain", "poll", "submit", "quarantine"}
    /\ main.record \in Records \cup {NoRecord}
    /\ \A i \in DOMAIN backlog : backlog[i] \in Records
    /\ running \subseteq [record : Records, next : 1..Steps + 1]
    /\ \A i \in DOMAIN completions : completions[i] \in [record : Records, ok : BOOLEAN]
    /\ faults \in 0..MaxFaults

\* What a record stands for has been done for good: all steps of the delivery are
\* in the telemetry topic, or the invalid event is in the dead letter topic.
Done(r) ==
    IF Event(r) = Poison THEN r \in quarantined ELSE telemetry[Event(r)] = 1..Steps

\* The committed offset has passed over nothing that is not done, whatever order
\* the simulations finish in and whenever the process stops.
NothingPassedOver ==
    \A p \in Partitions : \A n \in DOMAIN log[p] : n < committed[p] => Done(<<p, n>>)

\* The telemetry of a delivery has no gap: a simulation that resumes, and one
\* that runs beside another of the same event, continues what is there.
TelemetryHasNoGap ==
    \A d \in Deliveries : \A i \in telemetry[d] : 1..i \subseteq telemetry[d]

InBacklog(r) == {i \in DOMAIN backlog : backlog[i] = r}
Runs(r) == {t \in running : t.record = r}
InCompletions(r) == {i \in DOMAIN completions : completions[i].record = r}
InMain(r) == IF main.record = r THEN {r} ELSE {}

\* Every registered offset that is not finished is in one place, with the main
\* loop, in the backlog, with one worker or among the completions: none leaks,
\* so none holds back its partition for ever, and none is simulated twice at once.
EachRecordInOnePlace ==
    \A p \in Partitions : \A n \in DOMAIN log[p] :
        LET r == <<p, n>>
        IN  Cardinality(InBacklog(r)) + Cardinality(Runs(r)) + Cardinality(InCompletions(r))
              + Cardinality(InMain(r)) = IF n \in pending[p] \ completed[p] THEN 1 ELSE 0

\* While the process runs, everything between the committed and the last
\* registered offset is with the tracker, and the first of it is unfinished:
\* the commit is never behind what is finished.
TrackerStartsAtCommit ==
    \A p \in Partitions : up /\ lastSeen[p] > 0 =>
        /\ pending[p] = committed[p]..lastSeen[p]
        /\ committed[p] \notin completed[p]

\* Every offset that was fetched is accounted for: below the commit, finished and
\* waiting for one before it, or in exactly one place on its way to be finished.
OffsetsAccounted == EachRecordInOnePlace /\ TrackerStartsAtCommit

\* A partition never stands still: through failures, restarts, reassignments and
\* records that finish out of order every record is passed in the end, while no
\* delivery is deleted.  The event of a deleted delivery that is read again stops
\* the simulator at every restart (load_delivery_state, HTTP 404).
EveryRecordIsPassed ==
    \A p \in Partitions : []<>(committed[p] > Len(log[p]) \/ deleted # {})
=============================================================================

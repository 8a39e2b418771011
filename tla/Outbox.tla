-------------------------------- MODULE Outbox --------------------------------
(***************************************************************************)
(* The transactional outbox of the API (io.logitrack.outbox).              *)
(*                                                                         *)
(* A business transaction commits an outbox row together with the state it *)
(* announces.  Every API instance runs a publisher: one transaction per    *)
(* row locks the next due PENDING row (FOR UPDATE SKIP LOCKED), hands the  *)
(* record to its idempotent Kafka producer, waits for the answer for a     *)
(* bounded time, and commits PUBLISHED or one more failed attempt.  After  *)
(* MaxAttempts failures the row is FAILED until an operator re-arms it.    *)
(*                                                                         *)
(* Time is abstracted to what next_attempt_at decides: which PENDING rows  *)
(* are due, and in which order they are taken.  A row enters the order     *)
(* when its next_attempt_at passes, so it enters behind every due row.     *)
(* The producer keeps the order of its own records (enable.idempotence)    *)
(* and may append a record long after its caller stopped waiting.          *)
(***************************************************************************)
EXTENDS Naturals, Sequences, FiniteSets

CONSTANTS
    Events,       \* outbox rows, numbered in the order in which they are committed
    KeyOf,        \* KeyOf[e]: topic and event_key, what decides the partition
    Publishers,   \* API instances, each with a publisher thread and a producer
    RetryKeys,    \* Idempotency-Key values of operator retries
    None,         \* no row
    MaxAttempts,  \* failed attempts after which a row is FAILED (20)
    MaxCrashes    \* bound: publisher transactions lost to crashes or rollbacks

ASSUME OutboxAssumption ==
    /\ Events \subseteq Nat
    /\ MaxAttempts \in Nat \ {0}
    /\ MaxCrashes \in Nat
    /\ None \notin Events
    /\ DOMAIN KeyOf = Events

VARIABLES
    status,    \* status[e]: row state; "ABSENT" before commit, "DELETED" after retention
    attempts,  \* attempts[e]: failed attempts since the row was last armed
    ahead,     \* ahead[e]: due rows with an earlier (next_attempt_at, created_at)
    due,       \* PENDING rows whose next_attempt_at has passed
    held,      \* held[p]: row locked by p's publishing transaction
    answer,    \* answer[p]: what p's pending send() has answered
    buffer,    \* buffer[p]: records p's producer has accepted and not settled
    log,       \* records the broker has appended, oldest first
    audits,    \* outbox_retry_audits rows, as pairs of key and row
    crashes    \* lost publisher transactions so far

vars == <<status, attempts, ahead, due, held, answer, buffer, log, audits,
          crashes>>

Audit == [key : RetryKeys, event : Events]

TypeOK ==
    /\ status \in [Events -> {"ABSENT", "PENDING", "PUBLISHED", "FAILED", "DELETED"}]
    /\ attempts \in [Events -> 0..MaxAttempts]
    /\ ahead \in [Events -> SUBSET Events]
    /\ due \in SUBSET Events
    /\ held \in [Publishers -> Events \cup {None}]
    /\ answer \in [Publishers -> {"none", "waiting", "acked", "error"}]
    /\ buffer \in [Publishers -> Seq(Events)]
    /\ log \in Seq(Events)
    /\ audits \in SUBSET Audit
    /\ crashes \in 0..MaxCrashes

Init ==
    /\ status = [e \in Events |-> "ABSENT"]
    /\ attempts = [e \in Events |-> 0]
    /\ ahead = [e \in Events |-> {}]
    /\ due = {}
    /\ held = [p \in Publishers |-> None]
    /\ answer = [p \in Publishers |-> "none"]
    /\ buffer = [p \in Publishers |-> <<>>]
    /\ log = <<>>
    /\ audits = {}
    /\ crashes = 0

-----------------------------------------------------------------------------
\* The order of lockNextPending

Enqueue(e) ==
    /\ due' = due \cup {e}
    /\ ahead' = [ahead EXCEPT ![e] = due]

Dequeue(e) ==
    /\ due' = due \ {e}
    /\ ahead' = [f \in Events |-> IF f = e THEN {} ELSE ahead[f] \ {e}]

Locked == {held[p] : p \in Publishers} \ {None}

\* Fault: the row is read without FOR UPDATE SKIP LOCKED.
NextPendingUnlocked(e) == e \in due /\ ahead[e] = {}

\* The first due row no other transaction has locked.
NextPending(e) ==
    /\ e \in due \ Locked
    /\ ahead[e] \subseteq Locked

-----------------------------------------------------------------------------
\* A business transaction commits a new row (next_attempt_at = created_at).
Save(e) ==
    /\ status[e] = "ABSENT"
    /\ \A f \in Events : f < e => status[f] # "ABSENT"
    /\ status' = [status EXCEPT ![e] = "PENDING"]
    /\ Enqueue(e)
    /\ UNCHANGED <<attempts, held, answer, buffer, log, audits, crashes>>

\* Fault: an uncapped backoff never ends before the last attempt.
BecomeDueUncapped(e) ==
    /\ status[e] = "PENDING"
    /\ e \notin due
    /\ attempts[e] < MaxAttempts - 1
    /\ Enqueue(e)
    /\ UNCHANGED <<status, attempts, held, answer, buffer, log, audits, crashes>>

\* The backoff of a failed attempt ends.
BecomeDue(e) ==
    /\ status[e] = "PENDING"
    /\ e \notin due
    /\ Enqueue(e)
    /\ UNCHANGED <<status, attempts, held, answer, buffer, log, audits, crashes>>

\* publishNext locks a row and hands it to the producer.
StartPublish(p, e) ==
    /\ held[p] = None
    /\ NextPending(e)
    /\ held' = [held EXCEPT ![p] = e]
    /\ answer' = [answer EXCEPT ![p] = "waiting"]
    /\ buffer' = [buffer EXCEPT ![p] = Append(@, e)]
    /\ UNCHANGED <<status, attempts, ahead, due, log, audits, crashes>>

\* The producer settles its oldest record.  The record of the send() that is
\* being awaited is always the newest one in the buffer.
Answer(p, result) ==
    /\ buffer' = [buffer EXCEPT ![p] = Tail(@)]
    /\ answer' = IF Len(buffer[p]) = 1 /\ answer[p] = "waiting"
                 THEN [answer EXCEPT ![p] = result]
                 ELSE answer

BrokerAppends(p) ==
    /\ buffer[p] # <<>>
    /\ log' = Append(log, Head(buffer[p]))
    /\ Answer(p, "acked")
    /\ UNCHANGED <<status, attempts, ahead, due, held, audits, crashes>>

ProducerGivesUp(p) ==
    /\ buffer[p] # <<>>
    /\ Answer(p, "error")
    /\ UNCHANGED <<status, attempts, ahead, due, held, log, audits, crashes>>

Release(p) ==
    /\ held' = [held EXCEPT ![p] = None]
    /\ answer' = [answer EXCEPT ![p] = "none"]

\* Fault: send() without get().
PublishedUnanswered(p) ==
    /\ answer[p] \in {"acked", "waiting"}
    /\ status' = [status EXCEPT ![held[p]] = "PUBLISHED"]
    /\ Dequeue(held[p])
    /\ Release(p)
    /\ UNCHANGED <<attempts, buffer, log, audits, crashes>>

\* get() returned: published() and commit.
Published(p) ==
    /\ answer[p] = "acked"
    /\ status' = [status EXCEPT ![held[p]] = "PUBLISHED"]
    /\ Dequeue(held[p])
    /\ Release(p)
    /\ UNCHANGED <<attempts, buffer, log, audits, crashes>>

\* Fault: a timeout is not counted as an attempt.
FailedUncounted(p) ==
    /\ answer[p] \in {"error", "waiting"}
    /\ Dequeue(held[p])
    /\ Release(p)
    /\ UNCHANGED <<status, attempts, buffer, log, audits, crashes>>

\* get() threw, because the send failed or because the timeout passed first:
\* failed() and commit.
Failed(p) ==
    /\ answer[p] \in {"error", "waiting"}
    /\ LET e == held[p]
       IN  /\ attempts' = [attempts EXCEPT ![e] = @ + 1]
           /\ status' = [status EXCEPT ![e] =
                             IF attempts'[e] >= MaxAttempts THEN "FAILED" ELSE @]
           /\ Dequeue(e)
    /\ Release(p)
    /\ UNCHANGED <<buffer, log, audits, crashes>>

\* The instance dies, or only its database transaction is lost: the row is
\* unlocked as it was, and the producer's buffer is lost with the instance.
Crash(p) ==
    /\ held[p] # None
    /\ crashes < MaxCrashes
    /\ crashes' = crashes + 1
    /\ Release(p)
    /\ \/ buffer' = [buffer EXCEPT ![p] = <<>>]
       \/ UNCHANGED buffer
    /\ UNCHANGED <<status, attempts, ahead, due, log, audits>>

\* Fault: the key of an operator's retry is not looked up.
RetryAnyKey(e, k) ==
    /\ status[e] = "FAILED"
    /\ status' = [status EXCEPT ![e] = "PENDING"]
    /\ attempts' = [attempts EXCEPT ![e] = 0]
    /\ Enqueue(e)
    /\ audits' = audits \cup {[key |-> k, event |-> e]}
    /\ UNCHANGED <<held, answer, buffer, log, crashes>>

\* OutboxRecoveryService.retry under a new key.  A repeated key changes nothing.
Retry(e, k) ==
    /\ \A a \in audits : a.key # k
    /\ status[e] = "FAILED"
    /\ status' = [status EXCEPT ![e] = "PENDING"]
    /\ attempts' = [attempts EXCEPT ![e] = 0]
    /\ Enqueue(e)
    /\ audits' = audits \cup {[key |-> k, event |-> e]}
    /\ UNCHANGED <<held, answer, buffer, log, crashes>>

\* Fault: retention deletes every row that is no longer pending.
PurgeSettled(e) ==
    /\ status[e] \in {"PUBLISHED", "FAILED"}
    /\ status' = [status EXCEPT ![e] = "DELETED"]
    /\ audits' = {a \in audits : a.event # e}
    /\ UNCHANGED <<attempts, ahead, due, held, answer, buffer, log, crashes>>

\* Retention deletes an old PUBLISHED row; its retry audits go with it (V25).
Purge(e) ==
    /\ status[e] = "PUBLISHED"
    /\ status' = [status EXCEPT ![e] = "DELETED"]
    /\ audits' = {a \in audits : a.event # e}
    /\ UNCHANGED <<attempts, ahead, due, held, answer, buffer, log, crashes>>

Publish(p) == Published(p) \/ Failed(p)

Next ==
    \/ \E e \in Events : Save(e) \/ BecomeDue(e) \/ Purge(e)
    \/ \E e \in Events, k \in RetryKeys : Retry(e, k)
    \/ \E p \in Publishers, e \in Events : StartPublish(p, e)
    \/ \E p \in Publishers :
          BrokerAppends(p) \/ ProducerGivesUp(p) \/ Publish(p) \/ Crash(p)

Spec == Init /\ [][Next]_vars

\* The scheduler runs every publisher again and again (@Scheduled, 250 ms), its
\* wait for Kafka is bounded by publish-timeout, and every backoff ends.
Fairness ==
    /\ \A p \in Publishers : WF_vars(Publish(p))
    /\ \A p \in Publishers : WF_vars(\E e \in Events : StartPublish(p, e))
    /\ \A e \in Events : WF_vars(BecomeDue(e))

FairSpec == Spec /\ Fairness

-----------------------------------------------------------------------------
Copies(e) == Cardinality({i \in DOMAIN log : log[i] = e})

OnLog == {log[i] : i \in DOMAIN log}

\* A row is marked PUBLISHED, and later deleted by retention, only when the
\* broker has its record: no committed event is lost between the database and
\* Kafka, whatever timed out or crashed (published() only after get()).
NoCommittedEventLost ==
    \A e \in Events : status[e] \in {"PUBLISHED", "DELETED"} => e \in OnLog

\* FOR UPDATE SKIP LOCKED: two publishers never work on one row, and a row
\* being published is a due PENDING row, which no operator can re-arm meanwhile.
OneHolder ==
    \A p \in Publishers : held[p] # None =>
        /\ held[p] \in due
        /\ status[held[p]] = "PENDING"
        /\ \A q \in Publishers \ {p} : held[q] # held[p]

\* The promise of EventRelay, kept by this module under the mapping: a row is
\* confirmed once it is PUBLISHED, and stays so after retention deletes it.
Relay == INSTANCE EventRelay WITH
    committed <- {e \in Events : status[e] # "ABSENT"},
    delivered <- OnLog,
    confirmed <- {e \in Events : status[e] \in {"PUBLISHED", "DELETED"}}

ImplementsRelay == Relay!RelaySpec

\* A record is on the log more than once only if an earlier attempt ended
\* without an answer: one extra copy at most per failed attempt or lost
\* transaction, counting the full round of attempts behind every operator retry.
DuplicatesAccounted ==
    \A e \in Events : status[e] # "DELETED" =>
        Copies(e) <= 1 + attempts[e] + crashes
                       + MaxAttempts * Cardinality({a \in audits : a.event = e})

\* A FAILED row leaves that state only through an operator's retry, which is
\* recorded under a key of its own and gives the row its full set of attempts.
RearmIsAudited ==
    [][\A e \in Events : status[e] = "FAILED" /\ status'[e] # "FAILED" =>
          /\ attempts'[e] = 0
          /\ \E k \in RetryKeys :
                /\ [key |-> k, event |-> e] \in audits'
                /\ \A a \in audits : a.key # k]_vars

\* Every pending row is eventually published or handed to the operators, even
\* when Kafka never answers: attempts are bounded and backoffs end.
EventuallySettled ==
    \A e \in Events : status[e] = "PENDING" ~> status[e] \in {"PUBLISHED", "FAILED"}

\* docs/architecture.md says the key preserves the order of an aggregate's
\* events: a record is first appended after those of its key saved before it.
FirstOnLog(e, f) ==
    \E i \in DOMAIN log : log[i] = e /\ \A j \in 1..i : log[j] # f

KeyOrder ==
    \A e, f \in Events :
        e < f /\ KeyOf[e] = KeyOf[f] /\ f \in OnLog => FirstOnLog(e, f)
=============================================================================

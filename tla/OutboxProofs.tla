----------------------------- MODULE OutboxProofs -----------------------------
(***************************************************************************)
(* What holds of the outbox for any number of rows, publishers, attempts   *)
(* and crashes: its type, that a row marked PUBLISHED is on the log, that  *)
(* a row has one publisher at most, that every further copy of an event    *)
(* has a cause (SendsInv, which must count the records still in the        *)
(* buffers with those on the log), that only an audited retry arms a       *)
(* failed row, and that the outbox implements EventRelay.                  *)
(***************************************************************************)
EXTENDS Outbox, FiniteSetTheorems, TLAPS

\* A record a producer still holds, or the broker has, belongs to a committed row.
RecordsCommitted ==
    /\ \A p \in Publishers : \A i \in DOMAIN buffer[p] : status[buffer[p][i]] # "ABSENT"
    /\ \A i \in DOMAIN log : status[log[i]] # "ABSENT"

\* What the publisher knows of its own attempt: it waits for the newest record
\* in its buffer, and an acknowledged row is on the log.
AnswerMatches ==
    \A p \in Publishers :
        /\ held[p] = None <=> answer[p] = "none"
        /\ answer[p] = "waiting" => buffer[p] # <<>> /\ buffer[p][Len(buffer[p])] = held[p]
        /\ answer[p] = "acked" => held[p] \in OnLog

\* Only a PENDING row is tried, and a row is PENDING while attempts are left.
AttemptsLeft ==
    \A e \in Events : status[e] \in {"ABSENT", "PENDING"} => attempts[e] < MaxAttempts

DueArePending == \A e \in due : status[e] = "PENDING"

IInv ==
    /\ TypeOK
    /\ DueArePending
    /\ AttemptsLeft
    /\ RecordsCommitted
    /\ AnswerMatches
    /\ OneHolder
    /\ NoCommittedEventLost

\* Appending a record adds it to the records of the log, and nothing else.
LEMMA AppendElements ==
    ASSUME NEW S, NEW s \in Seq(S), NEW x \in S
    PROVE  {Append(s, x)[i] : i \in DOMAIN Append(s, x)} = {s[i] : i \in DOMAIN s} \cup {x}
<1> DEFINE t == Append(s, x)
<1>1. /\ t \in Seq(S)
      /\ DOMAIN t = 1..(Len(s) + 1)
      /\ \A i \in 1..Len(s) : t[i] = s[i]
      /\ t[Len(s) + 1] = x
      /\ DOMAIN s = 1..Len(s)
      /\ Len(s) \in Nat
  OBVIOUS
<1> HIDE DEF t
<1>2. ASSUME NEW y \in {t[i] : i \in DOMAIN t}
      PROVE  y \in {s[i] : i \in DOMAIN s} \cup {x}
  <2>1. PICK i \in DOMAIN t : y = t[i]
    OBVIOUS
  <2>2. i \in 1..Len(s) \/ i = Len(s) + 1
    BY <1>1, <2>1
  <2> QED
    BY <1>1, <2>1, <2>2
<1>3. ASSUME NEW y \in {s[i] : i \in DOMAIN s} \cup {x}
      PROVE  y \in {t[i] : i \in DOMAIN t}
  <2>1. CASE y = x
    BY <1>1, <2>1
  <2>2. CASE \E i \in DOMAIN s : y = s[i]
    <3>1. PICK i \in DOMAIN s : y = s[i]
      BY <2>2
    <3>2. i \in DOMAIN t /\ t[i] = y
      BY <1>1, <3>1
    <3> QED
      BY <3>2
  <2> QED
    BY <1>3, <2>1, <2>2
<1>4. {t[i] : i \in DOMAIN t} = {s[i] : i \in DOMAIN s} \cup {x}
  BY <1>2, <1>3
<1> QED
  BY <1>4 DEF t

LEMMA InitInvariant == Init => IInv
BY OutboxAssumption
   DEF Init, IInv, TypeOK, DueArePending, AttemptsLeft, RecordsCommitted, AnswerMatches, OneHolder,
       NoCommittedEventLost, OnLog, Audit

\* Settling the oldest record leaves a shorter queue of records of the same
\* producer, and its newest record in place unless that was the only one.
LEMMA TailElements ==
    ASSUME NEW S, NEW s \in Seq(S), s # <<>>
    PROVE  /\ Head(s) \in S
           /\ Head(s) = s[1]
           /\ 1 \in DOMAIN s
           /\ Tail(s) \in Seq(S)
           /\ Len(Tail(s)) = Len(s) - 1
           /\ \A i \in DOMAIN Tail(s) : i + 1 \in DOMAIN s /\ Tail(s)[i] = s[i + 1]
           /\ Len(s) # 1 => Tail(s) # <<>> /\ Tail(s)[Len(Tail(s))] = s[Len(s)]
           /\ Len(s) = 1 => Head(s) = s[Len(s)]
<1>1. Len(s) \in Nat \ {0} /\ DOMAIN s = 1..Len(s)
  OBVIOUS
<1>2. Head(s) = s[1] /\ Head(s) \in S /\ 1 \in DOMAIN s
  BY <1>1
<1>3. Tail(s) \in Seq(S) /\ Len(Tail(s)) = Len(s) - 1
  BY <1>1
<1>4. \A i \in DOMAIN Tail(s) : i + 1 \in DOMAIN s /\ Tail(s)[i] = s[i + 1]
  BY <1>1, <1>3
<1>5. Len(s) # 1 => Tail(s) # <<>> /\ Tail(s)[Len(Tail(s))] = s[Len(s)]
  <2> SUFFICES ASSUME Len(s) # 1
               PROVE  Tail(s) # <<>> /\ Tail(s)[Len(Tail(s))] = s[Len(s)]
    OBVIOUS
  <2>1. Len(s) - 1 \in 1..(Len(s) - 1)
    BY <1>1
  <2>2. Len(s) - 1 \in DOMAIN Tail(s)
    BY <1>3, <2>1
  <2>3. Tail(s)[Len(s) - 1] = s[(Len(s) - 1) + 1]
    BY <1>4, <2>2
  <2>4. (Len(s) - 1) + 1 = Len(s)
    BY <1>1
  <2>5. Len(Tail(s)) # 0
    BY <1>1, <1>3
  <2>6. Tail(s) # <<>>
    <3>1. Len(<<>>) = 0
      OBVIOUS
    <3> QED
      BY <2>5, <3>1, Zenon
  <2> QED
    BY <1>3, <2>3, <2>4, <2>6
<1>6. Len(s) = 1 => Head(s) = s[Len(s)]
  BY <1>2
<1> QED
  BY <1>2, <1>3, <1>4, <1>5, <1>6

LEMMA AppendIndices ==
    ASSUME NEW S, NEW s \in Seq(S), NEW x \in S
    PROVE  /\ Append(s, x) \in Seq(S)
           /\ Append(s, x) # <<>>
           /\ Append(s, x)[Len(Append(s, x))] = x
           /\ \A i \in DOMAIN Append(s, x) :
                 (i \in DOMAIN s /\ Append(s, x)[i] = s[i]) \/ Append(s, x)[i] = x
OBVIOUS

LEMMA StepInvariant == IInv /\ [Next]_vars => IInv'
<1> SUFFICES ASSUME IInv, [Next]_vars PROVE IInv'
  OBVIOUS
<1> USE OutboxAssumption
<1>1. ASSUME NEW e \in Events, Save(e)
     PROVE  IInv'
  <2>1. TypeOK'
    BY <1>1 DEF IInv, TypeOK, Audit, Save, Enqueue
  <2>2. DueArePending'
    BY <1>1 DEF IInv, TypeOK, DueArePending, OneHolder, AnswerMatches, Save, Enqueue
  <2>3. AttemptsLeft'
    BY <1>1 DEF IInv, TypeOK, AttemptsLeft, OneHolder, AnswerMatches, Save, Enqueue
  <2>4. RecordsCommitted'
    BY <1>1 DEF IInv, TypeOK, RecordsCommitted, Save, Enqueue
  <2>5. AnswerMatches'
    BY <1>1 DEF IInv, TypeOK, AnswerMatches, OnLog, Save, Enqueue
  <2>6. OneHolder'
    BY <1>1 DEF IInv, TypeOK, OneHolder, AnswerMatches, Save, Enqueue
  <2>7. NoCommittedEventLost'
    BY <1>1 DEF IInv, TypeOK, NoCommittedEventLost, OnLog, AnswerMatches, OneHolder, Save, Enqueue
  <2> QED
    BY <2>1, <2>2, <2>3, <2>4, <2>5, <2>6, <2>7 DEF IInv
<1>2. ASSUME NEW e \in Events, BecomeDue(e)
     PROVE  IInv'
  <2>1. TypeOK'
    BY <1>2 DEF IInv, TypeOK, Audit, BecomeDue, Enqueue
  <2>2. DueArePending'
    BY <1>2 DEF IInv, TypeOK, DueArePending, OneHolder, AnswerMatches, BecomeDue, Enqueue
  <2>3. AttemptsLeft'
    BY <1>2 DEF IInv, TypeOK, AttemptsLeft, OneHolder, AnswerMatches, BecomeDue, Enqueue
  <2>4. RecordsCommitted'
    BY <1>2 DEF IInv, TypeOK, RecordsCommitted, BecomeDue, Enqueue
  <2>5. AnswerMatches'
    BY <1>2 DEF IInv, TypeOK, AnswerMatches, OnLog, BecomeDue, Enqueue
  <2>6. OneHolder'
    BY <1>2 DEF IInv, TypeOK, OneHolder, AnswerMatches, BecomeDue, Enqueue
  <2>7. NoCommittedEventLost'
    BY <1>2 DEF IInv, TypeOK, NoCommittedEventLost, OnLog, AnswerMatches, OneHolder, BecomeDue, Enqueue
  <2> QED
    BY <2>1, <2>2, <2>3, <2>4, <2>5, <2>6, <2>7 DEF IInv
<1>3. ASSUME NEW e \in Events, Purge(e)
     PROVE  IInv'
  <2>1. TypeOK'
    BY <1>3 DEF IInv, TypeOK, Audit, Purge
  <2>2. DueArePending'
    BY <1>3 DEF IInv, TypeOK, DueArePending, OneHolder, AnswerMatches, Purge
  <2>3. AttemptsLeft'
    BY <1>3 DEF IInv, TypeOK, AttemptsLeft, OneHolder, AnswerMatches, Purge
  <2>4. RecordsCommitted'
    BY <1>3 DEF IInv, TypeOK, RecordsCommitted, Purge
  <2>5. AnswerMatches'
    BY <1>3 DEF IInv, TypeOK, AnswerMatches, OnLog, Purge
  <2>6. OneHolder'
    BY <1>3 DEF IInv, TypeOK, OneHolder, AnswerMatches, Purge
  <2>7. NoCommittedEventLost'
    BY <1>3 DEF IInv, TypeOK, NoCommittedEventLost, OnLog, AnswerMatches, OneHolder, Purge
  <2> QED
    BY <2>1, <2>2, <2>3, <2>4, <2>5, <2>6, <2>7 DEF IInv
<1>4. ASSUME NEW e \in Events, NEW k \in RetryKeys, Retry(e, k)
     PROVE  IInv'
  <2>1. TypeOK'
    BY <1>4 DEF IInv, TypeOK, Audit, Retry, Enqueue
  <2>2. DueArePending'
    BY <1>4 DEF IInv, TypeOK, DueArePending, OneHolder, AnswerMatches, Retry, Enqueue
  <2>3. AttemptsLeft'
    BY <1>4 DEF IInv, TypeOK, AttemptsLeft, OneHolder, AnswerMatches, Retry, Enqueue
  <2>4. RecordsCommitted'
    BY <1>4 DEF IInv, TypeOK, RecordsCommitted, Retry, Enqueue
  <2>5. AnswerMatches'
    BY <1>4 DEF IInv, TypeOK, AnswerMatches, OnLog, Retry, Enqueue
  <2>6. OneHolder'
    BY <1>4 DEF IInv, TypeOK, OneHolder, AnswerMatches, Retry, Enqueue
  <2>7. NoCommittedEventLost'
    BY <1>4 DEF IInv, TypeOK, NoCommittedEventLost, OnLog, AnswerMatches, OneHolder, Retry, Enqueue
  <2> QED
    BY <2>1, <2>2, <2>3, <2>4, <2>5, <2>6, <2>7 DEF IInv
<1>5. ASSUME NEW p \in Publishers, NEW e \in Events, StartPublish(p, e)
     PROVE  IInv'
  <2>0. /\ status[e] = "PENDING"
        /\ e \in due
        /\ \A q \in Publishers : held[q] # e
        /\ Append(buffer[p], e) \in Seq(Events)
        /\ buffer'[p] = Append(buffer[p], e)
        /\ buffer'[p] # <<>>
        /\ buffer'[p][Len(buffer'[p])] = e
        /\ \A i \in DOMAIN buffer'[p] :
              (i \in DOMAIN buffer[p] /\ buffer'[p][i] = buffer[p][i]) \/ buffer'[p][i] = e
    <3>1. e \in due /\ e \notin Locked
      BY <1>5 DEF StartPublish, NextPending
    <3>2. status[e] = "PENDING"
      BY <3>1 DEF IInv, DueArePending
    <3>3. \A q \in Publishers : held[q] # e
      BY <3>1 DEF Locked
    <3>4. buffer[p] \in Seq(Events) /\ buffer'[p] = Append(buffer[p], e)
      BY <1>5 DEF IInv, TypeOK, StartPublish
    <3> QED
      BY <3>1, <3>2, <3>3, <3>4, AppendIndices
  <2>1. TypeOK'
    BY <2>0, <1>5 DEF IInv, TypeOK, Audit, StartPublish
  <2>2. DueArePending'
    BY <2>0, <1>5 DEF IInv, TypeOK, DueArePending, OneHolder, AnswerMatches, StartPublish
  <2>3. AttemptsLeft'
    BY <2>0, <1>5 DEF IInv, TypeOK, AttemptsLeft, OneHolder, AnswerMatches, StartPublish
  <2>4. RecordsCommitted'
    BY <2>0, <1>5 DEF IInv, TypeOK, RecordsCommitted, StartPublish
  <2>5. AnswerMatches'
    BY <2>0, <1>5 DEF IInv, TypeOK, AnswerMatches, OnLog, StartPublish
  <2>6. OneHolder'
    BY <2>0, <1>5 DEF IInv, TypeOK, OneHolder, AnswerMatches, StartPublish
  <2>7. NoCommittedEventLost'
    BY <2>0, <1>5 DEF IInv, TypeOK, NoCommittedEventLost, OnLog, AnswerMatches, OneHolder, StartPublish
  <2> QED
    BY <2>1, <2>2, <2>3, <2>4, <2>5, <2>6, <2>7 DEF IInv
<1>6. ASSUME NEW p \in Publishers, BrokerAppends(p)
     PROVE  IInv'
  <2>0. /\ OnLog' = OnLog \cup {Head(buffer[p])}
        /\ log' = Append(log, Head(buffer[p]))
        /\ Head(buffer[p]) \in Events
        /\ 1 \in DOMAIN buffer[p] /\ Head(buffer[p]) = buffer[p][1]
        /\ Tail(buffer[p]) \in Seq(Events)
        /\ \A i \in DOMAIN log' :
              (i \in DOMAIN log /\ log'[i] = log[i]) \/ log'[i] = Head(buffer[p])
        /\ \A i \in DOMAIN Tail(buffer[p]) :
              i + 1 \in DOMAIN buffer[p] /\ Tail(buffer[p])[i] = buffer[p][i + 1]
        /\ Len(buffer[p]) # 1 => Tail(buffer[p]) # <<>>
              /\ Tail(buffer[p])[Len(Tail(buffer[p]))] = buffer[p][Len(buffer[p])]
        /\ Len(buffer[p]) = 1 => Head(buffer[p]) = buffer[p][Len(buffer[p])]
    <3>1. buffer[p] \in Seq(Events) /\ buffer[p] # <<>> /\ log \in Seq(Events)
      BY <1>6 DEF IInv, TypeOK, BrokerAppends
    <3>2. log' = Append(log, Head(buffer[p]))
      BY <1>6 DEF BrokerAppends
    <3>3. Head(buffer[p]) \in Events
      BY <3>1, TailElements
    <3>4. OnLog' = OnLog \cup {Head(buffer[p])}
      BY <3>1, <3>2, <3>3, AppendElements DEF OnLog
    <3>5. \A i \in DOMAIN log' :
              (i \in DOMAIN log /\ log'[i] = log[i]) \/ log'[i] = Head(buffer[p])
      BY <3>1, <3>2, <3>3, AppendIndices
    <3> QED
      BY <3>1, <3>2, <3>3, <3>4, <3>5, TailElements
  <2>1. TypeOK'
    <3>1. log' \in Seq(Events)
      BY <2>0 DEF IInv, TypeOK
    <3>2. buffer' \in [Publishers -> Seq(Events)]
      BY <2>0, <1>6 DEF IInv, TypeOK, BrokerAppends, Answer
    <3>3. answer' \in [Publishers -> {"none", "waiting", "acked", "error"}]
      BY <1>6 DEF IInv, TypeOK, BrokerAppends, Answer
    <3> QED
      BY <1>6, <3>1, <3>2, <3>3 DEF IInv, TypeOK, BrokerAppends
  <2>2. DueArePending'
    BY <1>6 DEF IInv, DueArePending, BrokerAppends
  <2>3. AttemptsLeft'
    BY <1>6 DEF IInv, AttemptsLeft, BrokerAppends
  <2>4. RecordsCommitted'
    <3>1. ASSUME NEW q \in Publishers, NEW i \in DOMAIN buffer'[q]
          PROVE  status'[buffer'[q][i]] # "ABSENT"
      <4>1. CASE q = p
        <5>1. buffer'[q] = Tail(buffer[p])
          BY <1>6, <4>1 DEF IInv, TypeOK, BrokerAppends, Answer
        <5> QED
          BY <2>0, <1>6, <3>1, <5>1 DEF IInv, RecordsCommitted, BrokerAppends
      <4>2. CASE q # p
        <5>1. buffer'[q] = buffer[q]
          BY <1>6, <4>2 DEF IInv, TypeOK, BrokerAppends, Answer
        <5> QED
          BY <1>6, <3>1, <5>1 DEF IInv, RecordsCommitted, BrokerAppends
      <4> QED
        BY <4>1, <4>2
    <3>2. ASSUME NEW i \in DOMAIN log'
          PROVE  status'[log'[i]] # "ABSENT"
      <4>1. status[Head(buffer[p])] # "ABSENT"
        BY <2>0, <1>6 DEF IInv, RecordsCommitted, BrokerAppends
      <4> QED
        BY <2>0, <1>6, <3>2, <4>1 DEF IInv, RecordsCommitted, BrokerAppends
    <3> QED
      BY <3>1, <3>2 DEF RecordsCommitted
  <2>5. AnswerMatches'
    <3>0. OnLog \subseteq OnLog'
      BY <2>0
    <3>1. ASSUME NEW q \in Publishers
          PROVE  /\ held'[q] = None <=> answer'[q] = "none"
                 /\ answer'[q] = "waiting" =>
                       buffer'[q] # <<>> /\ buffer'[q][Len(buffer'[q])] = held'[q]
                 /\ answer'[q] = "acked" => held'[q] \in OnLog'
      <4>1. CASE q # p
        <5>1. buffer'[q] = buffer[q] /\ answer'[q] = answer[q] /\ held'[q] = held[q]
          BY <1>6, <4>1 DEF IInv, TypeOK, BrokerAppends, Answer
        <5> QED
          BY <3>0, <5>1 DEF IInv, AnswerMatches
      <4>2. CASE q = p
        BY <2>0, <3>0, <1>6, <4>2 DEF IInv, TypeOK, AnswerMatches, BrokerAppends, Answer
      <4> QED
        BY <4>1, <4>2
    <3> QED
      BY <3>1 DEF AnswerMatches
  <2>6. OneHolder'
    BY <1>6 DEF IInv, OneHolder, BrokerAppends
  <2>7. NoCommittedEventLost'
    BY <2>0, <1>6 DEF IInv, NoCommittedEventLost, BrokerAppends
  <2> QED
    BY <2>1, <2>2, <2>3, <2>4, <2>5, <2>6, <2>7 DEF IInv
<1>7. ASSUME NEW p \in Publishers, ProducerGivesUp(p)
     PROVE  IInv'
  <2>0. /\ Tail(buffer[p]) \in Seq(Events)
        /\ \A i \in DOMAIN Tail(buffer[p]) :
              i + 1 \in DOMAIN buffer[p] /\ Tail(buffer[p])[i] = buffer[p][i + 1]
        /\ Len(buffer[p]) # 1 => Tail(buffer[p]) # <<>>
              /\ Tail(buffer[p])[Len(Tail(buffer[p]))] = buffer[p][Len(buffer[p])]
    <3>1. buffer[p] \in Seq(Events) /\ buffer[p] # <<>>
      BY <1>7 DEF IInv, TypeOK, ProducerGivesUp
    <3> QED
      BY <3>1, TailElements
  <2>1. TypeOK'
    BY <2>0, <1>7 DEF IInv, TypeOK, Audit, ProducerGivesUp, Answer
  <2>2. DueArePending'
    BY <1>7 DEF IInv, DueArePending, ProducerGivesUp
  <2>3. AttemptsLeft'
    BY <1>7 DEF IInv, AttemptsLeft, ProducerGivesUp
  <2>4. RecordsCommitted'
    <3>1. ASSUME NEW q \in Publishers, NEW i \in DOMAIN buffer'[q]
          PROVE  status'[buffer'[q][i]] # "ABSENT"
      <4>1. CASE q = p
        <5>1. buffer'[q] = Tail(buffer[p])
          BY <1>7, <4>1 DEF IInv, TypeOK, ProducerGivesUp, Answer
        <5> QED
          BY <2>0, <1>7, <3>1, <5>1 DEF IInv, RecordsCommitted, ProducerGivesUp
      <4>2. CASE q # p
        <5>1. buffer'[q] = buffer[q]
          BY <1>7, <4>2 DEF IInv, TypeOK, ProducerGivesUp, Answer
        <5> QED
          BY <1>7, <3>1, <5>1 DEF IInv, RecordsCommitted, ProducerGivesUp
      <4> QED
        BY <4>1, <4>2
    <3> QED
      BY <1>7, <3>1 DEF IInv, RecordsCommitted, ProducerGivesUp
  <2>5. AnswerMatches'
    <3>0. OnLog \subseteq OnLog'
      BY <1>7 DEF OnLog, ProducerGivesUp
    <3>1. ASSUME NEW q \in Publishers
          PROVE  /\ held'[q] = None <=> answer'[q] = "none"
                 /\ answer'[q] = "waiting" =>
                       buffer'[q] # <<>> /\ buffer'[q][Len(buffer'[q])] = held'[q]
                 /\ answer'[q] = "acked" => held'[q] \in OnLog'
      <4>1. CASE q # p
        <5>1. buffer'[q] = buffer[q] /\ answer'[q] = answer[q] /\ held'[q] = held[q]
          BY <1>7, <4>1 DEF IInv, TypeOK, ProducerGivesUp, Answer
        <5> QED
          BY <3>0, <5>1 DEF IInv, AnswerMatches
      <4>2. CASE q = p
        BY <2>0, <3>0, <1>7, <4>2 DEF IInv, TypeOK, AnswerMatches, ProducerGivesUp, Answer
      <4> QED
        BY <4>1, <4>2
    <3> QED
      BY <3>1 DEF AnswerMatches
  <2>6. OneHolder'
    BY <1>7 DEF IInv, OneHolder, ProducerGivesUp
  <2>7. NoCommittedEventLost'
    BY <1>7 DEF IInv, NoCommittedEventLost, OnLog, ProducerGivesUp
  <2> QED
    BY <2>1, <2>2, <2>3, <2>4, <2>5, <2>6, <2>7 DEF IInv
<1>8. ASSUME NEW p \in Publishers, Published(p)
     PROVE  IInv'
  <2>1. TypeOK'
    BY <1>8 DEF IInv, TypeOK, Audit, Published, Dequeue, Release
  <2>2. DueArePending'
    BY <1>8 DEF IInv, TypeOK, DueArePending, OneHolder, AnswerMatches, Published, Dequeue, Release
  <2>3. AttemptsLeft'
    BY <1>8 DEF IInv, TypeOK, AttemptsLeft, OneHolder, AnswerMatches, Published, Dequeue, Release
  <2>4. RecordsCommitted'
    BY <1>8 DEF IInv, TypeOK, RecordsCommitted, Published, Dequeue, Release
  <2>5. AnswerMatches'
    BY <1>8 DEF IInv, TypeOK, AnswerMatches, OnLog, Published, Dequeue, Release
  <2>6. OneHolder'
    BY <1>8 DEF IInv, TypeOK, OneHolder, AnswerMatches, Published, Dequeue, Release
  <2>7. NoCommittedEventLost'
    BY <1>8 DEF IInv, TypeOK, NoCommittedEventLost, OnLog, AnswerMatches, OneHolder, Published, Dequeue, Release
  <2> QED
    BY <2>1, <2>2, <2>3, <2>4, <2>5, <2>6, <2>7 DEF IInv
<1>9. ASSUME NEW p \in Publishers, Failed(p)
     PROVE  IInv'
  <2>0. held[p] \in Events /\ attempts[held[p]] < MaxAttempts
    BY <1>9 DEF IInv, TypeOK, AttemptsLeft, OneHolder, AnswerMatches, Failed
  <2>1. TypeOK'
    <3>1. attempts' = [attempts EXCEPT ![held[p]] = @ + 1]
      BY <1>9 DEF Failed
    <3>2. attempts[held[p]] + 1 \in 0..MaxAttempts
      <4>1. attempts[held[p]] \in 0..MaxAttempts /\ MaxAttempts \in Nat
        BY <2>0, OutboxAssumption DEF IInv, TypeOK
      <4> QED
        BY <2>0, <4>1
    <3>3. attempts' \in [Events -> 0..MaxAttempts]
      <4>1. attempts \in [Events -> 0..MaxAttempts]
        BY DEF IInv, TypeOK
      <4> QED
        BY <2>0, <3>1, <3>2, <4>1
    <3>4. status' \in [Events -> {"ABSENT", "PENDING", "PUBLISHED", "FAILED", "DELETED"}]
      BY <1>9 DEF IInv, TypeOK, Failed
    <3>5. due' \in SUBSET Events /\ ahead' \in [Events -> SUBSET Events]
      BY <1>9 DEF IInv, TypeOK, Failed, Dequeue
    <3>6. /\ held' \in [Publishers -> Events \cup {None}]
          /\ answer' \in [Publishers -> {"none", "waiting", "acked", "error"}]
      BY <1>9 DEF IInv, TypeOK, Failed, Release
    <3> QED
      BY <1>9, <3>3, <3>4, <3>5, <3>6 DEF IInv, TypeOK, Failed
  <2>2. DueArePending'
    BY <2>0, <1>9 DEF IInv, TypeOK, DueArePending, OneHolder, AnswerMatches, Failed, Dequeue, Release
  <2>3. AttemptsLeft'
    BY <2>0, <1>9 DEF IInv, TypeOK, AttemptsLeft, OneHolder, AnswerMatches, Failed, Dequeue, Release
  <2>4. RecordsCommitted'
    BY <2>0, <1>9 DEF IInv, TypeOK, RecordsCommitted, Failed, Dequeue, Release
  <2>5. AnswerMatches'
    BY <2>0, <1>9 DEF IInv, TypeOK, AnswerMatches, OnLog, Failed, Dequeue, Release
  <2>6. OneHolder'
    BY <2>0, <1>9 DEF IInv, TypeOK, OneHolder, AnswerMatches, Failed, Dequeue, Release
  <2>7. NoCommittedEventLost'
    BY <2>0, <1>9 DEF IInv, TypeOK, NoCommittedEventLost, OnLog, AnswerMatches, OneHolder, Failed, Dequeue, Release
  <2> QED
    BY <2>1, <2>2, <2>3, <2>4, <2>5, <2>6, <2>7 DEF IInv
<1>10. ASSUME NEW p \in Publishers, Crash(p)
     PROVE  IInv'
  <2>0. /\ held' = [held EXCEPT ![p] = None]
        /\ answer' = [answer EXCEPT ![p] = "none"]
        /\ crashes' = crashes + 1 /\ crashes < MaxCrashes
        /\ UNCHANGED <<status, attempts, ahead, due, log, audits>>
    BY <1>10 DEF Crash, Release
  <2>a. /\ buffer' \in [Publishers -> Seq(Events)]
        /\ \A q \in Publishers : buffer'[q] = buffer[q] \/ buffer'[q] = <<>>
        /\ \A q \in Publishers \ {p} : buffer'[q] = buffer[q]
    <3>1. <<>> \in Seq(Events)
      OBVIOUS
    <3>2. CASE UNCHANGED buffer
      BY <3>2 DEF IInv, TypeOK
    <3>3. CASE buffer' = [buffer EXCEPT ![p] = <<>>]
      BY <3>1, <3>3 DEF IInv, TypeOK
    <3> QED
      BY <1>10, <3>2, <3>3 DEF Crash
  <2>1. TypeOK'
    <3>1. crashes' \in 0..MaxCrashes
      BY <2>0, OutboxAssumption DEF IInv, TypeOK
    <3>2. /\ held' \in [Publishers -> Events \cup {None}]
          /\ answer' \in [Publishers -> {"none", "waiting", "acked", "error"}]
      BY <2>0 DEF IInv, TypeOK
    <3> QED
      BY <2>0, <2>a, <3>1, <3>2 DEF IInv, TypeOK
  <2>2. DueArePending'
    BY <2>0 DEF IInv, DueArePending
  <2>3. AttemptsLeft'
    BY <2>0 DEF IInv, AttemptsLeft
  <2>4. RecordsCommitted'
    <3>1. ASSUME NEW q \in Publishers, NEW i \in DOMAIN buffer'[q]
          PROVE  status'[buffer'[q][i]] # "ABSENT"
      <4>1. CASE buffer'[q] = buffer[q]
        BY <2>0, <3>1, <4>1 DEF IInv, RecordsCommitted
      <4>2. CASE buffer'[q] = <<>>
        BY <3>1, <4>2
      <4> QED
        BY <2>a, <4>1, <4>2
    <3> QED
      BY <2>0, <3>1 DEF IInv, RecordsCommitted
  <2>5. AnswerMatches'
    BY <2>0, <2>a DEF IInv, TypeOK, AnswerMatches, OnLog
  <2>6. OneHolder'
    BY <2>0 DEF IInv, TypeOK, OneHolder
  <2>7. NoCommittedEventLost'
    BY <2>0 DEF IInv, NoCommittedEventLost, OnLog
  <2> QED
    BY <2>1, <2>2, <2>3, <2>4, <2>5, <2>6, <2>7 DEF IInv
<1>11. CASE UNCHANGED vars
  BY <1>11
     DEF vars, IInv, TypeOK, DueArePending, AttemptsLeft, RecordsCommitted, AnswerMatches,
         OneHolder, NoCommittedEventLost, OnLog
<1> QED
  BY <1>1, <1>2, <1>3, <1>4, <1>5, <1>6, <1>7, <1>8, <1>9, <1>10, <1>11 DEF Next, Publish

-----------------------------------------------------------------------------
\* The inductive invariant holds in every reachable state.
THEOREM Invariant == Spec => []IInv
BY InitInvariant, StepInvariant, PTL DEF Spec

\* Type correctness: in particular no row is tried more than MaxAttempts times.
THEOREM TypeCorrect == Spec => []TypeOK
<1>1. IInv => TypeOK
  BY DEF IInv
<1> QED
  BY <1>1, Invariant, PTL

\* No committed event is lost between the database and Kafka: a row that is
\* PUBLISHED, or was and is deleted, has a record on the log (publishNext).
THEOREM NothingLost == Spec => []NoCommittedEventLost
<1>1. IInv => NoCommittedEventLost
  BY DEF IInv
<1> QED
  BY <1>1, Invariant, PTL

\* FOR UPDATE SKIP LOCKED gives a row to one publisher at a time.
THEOREM RowsHaveOneHolder == Spec => []OneHolder
<1>1. IInv => OneHolder
  BY DEF IInv
<1> QED
  BY <1>1, Invariant, PTL

-----------------------------------------------------------------------------
\* Refinement: what the mapped variables do in each step.

LEMMA InitRelay == Init => Relay!RelayInit
BY DEF Init, OnLog, Relay!RelayInit

LEMMA StepRelay == IInv /\ IInv' /\ [Next]_vars => [Relay!RelayNext]_(Relay!relayVars)
<1> DEFINE Committed == {e \in Events : status[e] # "ABSENT"}
           Confirmed == {e \in Events : status[e] \in {"PUBLISHED", "DELETED"}}
<1> SUFFICES ASSUME IInv, IInv', [Next]_vars
             PROVE  \/ \E e \in Events : Relay!Commit(e) \/ Relay!Deliver(e) \/ Relay!Confirm(e)
                    \/ Committed' = Committed /\ OnLog' = OnLog /\ Confirmed' = Confirmed
  BY DEF Relay!RelayNext, Relay!relayVars
<1> DEFINE Stutter == Committed' = Committed /\ OnLog' = OnLog /\ Confirmed' = Confirmed
<1>1. ASSUME NEW e \in Events, Save(e)
      PROVE  Relay!Commit(e)
  <2>1. status[e] = "ABSENT" /\ status' = [status EXCEPT ![e] = "PENDING"] /\ log' = log
    BY <1>1 DEF Save
  <2>2. e \notin Committed /\ Committed' = Committed \cup {e}
    BY <2>1 DEF IInv, TypeOK
  <2>3. OnLog' = OnLog
    BY <2>1 DEF OnLog
  <2>4. Confirmed' = Confirmed
    BY <2>1 DEF IInv, TypeOK
  <2> QED
    BY <2>2, <2>3, <2>4 DEF Relay!Commit
<1>2. ASSUME NEW e \in Events, NEW k \in RetryKeys, Retry(e, k)
      PROVE  Stutter
  BY <1>2 DEF IInv, TypeOK, Retry, OnLog
<1>3. ASSUME NEW e \in Events, Purge(e)
      PROVE  Stutter
  BY <1>3 DEF IInv, TypeOK, Purge, OnLog
<1>4. ASSUME NEW e \in Events, BecomeDue(e)
      PROVE  Stutter
  BY <1>4 DEF BecomeDue, OnLog
<1>5. ASSUME NEW p \in Publishers, NEW e \in Events, StartPublish(p, e)
      PROVE  Stutter
  BY <1>5 DEF StartPublish, OnLog
<1>6. ASSUME NEW p \in Publishers, ProducerGivesUp(p) \/ Crash(p)
      PROVE  Stutter
  BY <1>6 DEF ProducerGivesUp, Crash, OnLog
<1>7. ASSUME NEW p \in Publishers, BrokerAppends(p)
      PROVE  \E e \in Events : Relay!Deliver(e)
  <2>1. /\ log \in Seq(Events) /\ buffer[p] \in Seq(Events) /\ buffer[p] # <<>>
        /\ log' = Append(log, Head(buffer[p]))
        /\ status' = status
    BY <1>7 DEF IInv, TypeOK, BrokerAppends
  <2>2. Head(buffer[p]) \in Events /\ Head(buffer[p]) = buffer[p][1] /\ 1 \in DOMAIN buffer[p]
    BY <2>1, TailElements
  <2>3. OnLog' = OnLog \cup {Head(buffer[p])}
    BY <2>1, <2>2, AppendElements DEF OnLog
  <2>4. Head(buffer[p]) \in Committed
    BY <2>2 DEF IInv, RecordsCommitted
  <2>5. Committed' = Committed /\ Confirmed' = Confirmed
    BY <2>1
  <2> QED
    BY <2>2, <2>3, <2>4, <2>5 DEF Relay!Deliver
<1>8. ASSUME NEW p \in Publishers, Published(p)
      PROVE  \E e \in Events : Relay!Confirm(e)
  <2> DEFINE e == held[p]
  <2>1. /\ e \in Events /\ e \in OnLog /\ status[e] = "PENDING"
        /\ status' = [status EXCEPT ![e] = "PUBLISHED"]
        /\ log' = log
    BY <1>8 DEF IInv, TypeOK, AnswerMatches, OneHolder, Published
  <2>2. OnLog' = OnLog
    BY <2>1 DEF OnLog
  <2>3. Committed' = Committed /\ Confirmed' = Confirmed \cup {e}
    BY <2>1 DEF IInv, TypeOK
  <2> QED
    BY <2>1, <2>2, <2>3 DEF Relay!Confirm
<1>9. ASSUME NEW p \in Publishers, Failed(p)
      PROVE  Stutter
  <2> DEFINE e == held[p]
  <2>1. /\ e \in Events /\ status[e] = "PENDING"
        /\ \E s \in {"PENDING", "FAILED"} : status' = [status EXCEPT ![e] = s]
        /\ log' = log
    BY <1>9 DEF IInv, TypeOK, AnswerMatches, OneHolder, Failed
  <2>2. Committed' = Committed /\ Confirmed' = Confirmed
    BY <2>1 DEF IInv, TypeOK
  <2> QED
    BY <2>1, <2>2 DEF OnLog
<1>10. CASE UNCHANGED vars
  BY <1>10 DEF vars, OnLog
<1> QED
  BY <1>1, <1>2, <1>3, <1>4, <1>5, <1>6, <1>7, <1>8, <1>9, <1>10 DEF Next, Publish

\* The outbox implements EventRelay: nothing reaches a topic that was not
\* committed, and nothing is confirmed that no topic holds.
THEOREM Refinement == Spec => ImplementsRelay
<1>1. Init => Relay!RelayInit
  BY InitRelay
<1>2. IInv /\ IInv' /\ [Next]_vars => [Relay!RelayNext]_(Relay!relayVars)
  BY StepRelay
<1> QED
  BY <1>1, <1>2, Invariant, PTL DEF Spec, ImplementsRelay, Relay!RelaySpec

-----------------------------------------------------------------------------
LEMMA StepRearm ==
    ASSUME IInv, [Next]_vars, NEW e \in Events, status[e] = "FAILED", status'[e] # "FAILED"
    PROVE  /\ attempts'[e] = 0
           /\ \E k \in RetryKeys : /\ [key |-> k, event |-> e] \in audits'
                                  /\ \A a \in audits : a.key # k
<1>1. ASSUME NEW f \in Events, NEW k \in RetryKeys, Retry(f, k)
      PROVE  /\ attempts'[e] = 0
             /\ [key |-> k, event |-> e] \in audits'
             /\ \A a \in audits : a.key # k
  <2>1. f = e
    BY <1>1 DEF IInv, TypeOK, Retry
  <2> QED
    BY <1>1, <2>1 DEF IInv, TypeOK, Retry
<1>2. ASSUME NEW f \in Events, Save(f) \/ BecomeDue(f) \/ Purge(f)
      PROVE  status'[e] = "FAILED"
  BY <1>2 DEF IInv, TypeOK, Save, BecomeDue, Purge
<1>3. ASSUME NEW p \in Publishers, NEW f \in Events, StartPublish(p, f)
      PROVE  status' = status
  BY <1>3 DEF StartPublish
<1>4. ASSUME NEW p \in Publishers, BrokerAppends(p) \/ ProducerGivesUp(p) \/ Crash(p)
      PROVE  status' = status
  BY <1>4 DEF BrokerAppends, ProducerGivesUp, Crash
<1>5. ASSUME NEW p \in Publishers, Publish(p)
      PROVE  status'[e] = "FAILED"
  <2>1. held[p] \in Events /\ held[p] # e
    BY <1>5 DEF IInv, TypeOK, AnswerMatches, OneHolder, Publish, Published, Failed
  <2> QED
    BY <1>5, <2>1 DEF IInv, TypeOK, Publish, Published, Failed
<1>6. CASE UNCHANGED vars
  BY <1>6 DEF vars
<1> QED
  BY <1>1, <1>2, <1>3, <1>4, <1>5, <1>6 DEF Next

\* A FAILED row leaves that state only through an operator's retry under a new
\* key, which is recorded and gives the row its attempts back (retry()).
THEOREM RearmsAreAudited == Spec => RearmIsAudited
<1>1. ASSUME IInv, [Next]_vars
      PROVE  [\A e \in Events : status[e] = "FAILED" /\ status'[e] # "FAILED" =>
                /\ attempts'[e] = 0
                /\ \E k \in RetryKeys :
                      /\ [key |-> k, event |-> e] \in audits'
                      /\ \A a \in audits : a.key # k]_vars
  BY <1>1, StepRearm
<1> QED
  BY <1>1, Invariant, PTL DEF Spec, RearmIsAudited

-----------------------------------------------------------------------------
\* How often a record is on the log.  Counting the copies alone is not
\* inductive: a record may be appended long after its attempt was given up, so
\* the records the producers still hold are counted with the copies.

LogPlaces(s, e) == {i \in DOMAIN s : s[i] = e}

\* The places at which the producers' buffers b hold records of e.
BufferPlaces(b, e) == {x \in Publishers \X Nat : x[2] \in DOMAIN b[x[1]] /\ b[x[1]][x[2]] = e}

AuditsOf(A, e) == {a \in A : a.event = e}

\* The attempt that is under way, or the one that was answered, is not yet, or
\* not at all, counted in attempts.
Uncounted(e) ==
    IF status[e] = "PUBLISHED" \/ \E p \in Publishers : held[p] = e THEN 1 ELSE 0

SendsCounted(e) ==
    Cardinality(LogPlaces(log, e)) + Cardinality(BufferPlaces(buffer, e))
        <= attempts[e] + crashes + MaxAttempts * Cardinality(AuditsOf(audits, e)) + Uncounted(e)

SendsInv ==
    /\ IsFiniteSet(audits)
    /\ \A e \in Events : IsFiniteSet(BufferPlaces(buffer, e))
    /\ \A e \in Events : status[e] = "FAILED" => attempts[e] = MaxAttempts
    /\ \A e \in Events : status[e] # "DELETED" => SendsCounted(e)

LEMMA LogPlacesFinite ==
    ASSUME NEW S, NEW s \in Seq(S), NEW e
    PROVE  IsFiniteSet(LogPlaces(s, e)) /\ Cardinality(LogPlaces(s, e)) \in Nat
<1>1. DOMAIN s = 1..Len(s) /\ Len(s) \in Int /\ 1 \in Int
  OBVIOUS
<1>2. IsFiniteSet(1..Len(s))
  BY <1>1, FS_Interval
<1>3. LogPlaces(s, e) \in SUBSET (1..Len(s))
  BY <1>1 DEF LogPlaces
<1>4. IsFiniteSet(LogPlaces(s, e))
  BY <1>2, <1>3, FS_Subset
<1> QED
  BY <1>4, FS_CardinalityType

LEMMA LogAppend ==
    ASSUME NEW S, NEW s \in Seq(S), NEW x \in S, NEW e
    PROVE  /\ x = e => Cardinality(LogPlaces(Append(s, x), e)) = Cardinality(LogPlaces(s, e)) + 1
           /\ x # e => LogPlaces(Append(s, x), e) = LogPlaces(s, e)
<1> DEFINE t == Append(s, x)
           n == Len(s) + 1
<1>1. /\ DOMAIN t = (DOMAIN s) \cup {n} /\ n \notin DOMAIN s
      /\ \A i \in DOMAIN s : t[i] = s[i]
      /\ t[n] = x
  OBVIOUS
<1> HIDE DEF t, n
<1>2. x # e => LogPlaces(t, e) = LogPlaces(s, e)
  BY <1>1 DEF LogPlaces
<1>3. x = e => LogPlaces(t, e) = LogPlaces(s, e) \cup {n}
  BY <1>1 DEF LogPlaces
<1>4. n \notin LogPlaces(s, e)
  BY <1>1 DEF LogPlaces
<1>5. IsFiniteSet(LogPlaces(s, e))
  BY LogPlacesFinite
<1>6. Cardinality(LogPlaces(s, e) \cup {n}) = Cardinality(LogPlaces(s, e)) + 1
  BY <1>4, <1>5, FS_AddElement
<1> QED
  BY <1>2, <1>3, <1>6 DEF t

LEMMA BufferAppend ==
    ASSUME NEW b, NEW c, NEW p \in Publishers, NEW x \in Events, NEW e,
           b[p] \in Seq(Events), c[p] = Append(b[p], x),
           \A q \in Publishers : q # p => c[q] = b[q], IsFiniteSet(BufferPlaces(b, e))
    PROVE  /\ IsFiniteSet(BufferPlaces(c, e))
           /\ x = e => Cardinality(BufferPlaces(c, e)) = Cardinality(BufferPlaces(b, e)) + 1
           /\ x # e => BufferPlaces(c, e) = BufferPlaces(b, e)
<1> DEFINE n == Len(b[p]) + 1
           z == <<p, n>>
<1>0. b[p] \in Seq(Events) /\ c[p] = Append(b[p], x)
  OBVIOUS
<1>1. /\ n \in Nat /\ n \notin DOMAIN b[p]
      /\ DOMAIN c[p] = DOMAIN b[p] \cup {n}
      /\ \A i \in DOMAIN b[p] : c[p][i] = b[p][i]
      /\ c[p][n] = x
  BY <1>0
<1>2. \A q \in Publishers : q # p => c[q] = b[q]
  OBVIOUS
<1>3. z \in Publishers \X Nat /\ z[1] = p /\ z[2] = n
  BY <1>1
<1>4. \A y \in Publishers \X Nat : y[1] = p /\ y[2] = n => y = z
  BY <1>3
<1> HIDE DEF n, z
<1>5. x # e => BufferPlaces(c, e) = BufferPlaces(b, e)
  <2>1. ASSUME x # e, NEW y \in Publishers \X Nat
        PROVE  y[2] \in DOMAIN c[y[1]] /\ c[y[1]][y[2]] = e
                  <=> y[2] \in DOMAIN b[y[1]] /\ b[y[1]][y[2]] = e
    <3>1. CASE y[1] = p
      BY <1>1, <2>1, <3>1
    <3>2. CASE y[1] # p
      BY <1>2, <3>2
    <3> QED
      BY <3>1, <3>2
  <2> QED
    BY <2>1, Zenon DEF BufferPlaces
<1>6. x = e => BufferPlaces(c, e) = BufferPlaces(b, e) \cup {z}
  BY <1>1, <1>2, <1>3, <1>4, SMTT(30) DEF BufferPlaces
<1>7. z \notin BufferPlaces(b, e)
  BY <1>1, <1>3 DEF BufferPlaces
<1>8. /\ IsFiniteSet(BufferPlaces(b, e) \cup {z})
      /\ Cardinality(BufferPlaces(b, e) \cup {z}) = Cardinality(BufferPlaces(b, e)) + 1
  BY <1>7, FS_AddElement
<1> QED
  BY <1>5, <1>6, <1>8

\* The oldest record leaves a buffer, and the others move up by one.
LEMMA BufferTail ==
    ASSUME NEW b \in [Publishers -> Seq(Events)], NEW p \in Publishers, NEW e,
           NEW c, c = [b EXCEPT ![p] = Tail(@)], b[p] # <<>>, IsFiniteSet(BufferPlaces(b, e))
    PROVE  /\ IsFiniteSet(BufferPlaces(c, e))
           /\ Cardinality(BufferPlaces(c, e)) <= Cardinality(BufferPlaces(b, e))
           /\ Head(b[p]) = e =>
                 Cardinality(BufferPlaces(c, e)) + 1 <= Cardinality(BufferPlaces(b, e))
<1> DEFINE B == BufferPlaces(b, e)
           C == BufferPlaces(c, e)
           old == <<p, 1>>
           T == B \ {old}
           f == [x \in C |-> IF x[1] = p THEN <<x[1], x[2] + 1>> ELSE <<x[1], x[2]>>]
<1>1. /\ b[p] \in Seq(Events) /\ c[p] = Tail(b[p])
      /\ \A q \in Publishers : q # p => c[q] = b[q]
  OBVIOUS
<1>2. /\ Head(b[p]) = b[p][1] /\ 1 \in DOMAIN b[p]
      /\ \A i \in DOMAIN c[p] : i \in Nat \ {0} /\ i + 1 \in DOMAIN b[p] /\ c[p][i] = b[p][i + 1]
  <2>1. /\ Head(b[p]) = b[p][1] /\ 1 \in DOMAIN b[p]
        /\ \A i \in DOMAIN c[p] : i + 1 \in DOMAIN b[p] /\ c[p][i] = b[p][i + 1]
        /\ c[p] \in Seq(Events)
    BY <1>1, TailElements
  <2>2. DOMAIN c[p] \subseteq Nat \ {0}
    BY <2>1
  <2> QED
    BY <2>1, <2>2
<1>3. ASSUME NEW x \in C
      PROVE  /\ x[1] \in Publishers /\ x[2] \in Nat /\ x = <<x[1], x[2]>>
             /\ x[2] \in DOMAIN c[x[1]] /\ c[x[1]][x[2]] = e
  BY DEF BufferPlaces
<1>4. ASSUME NEW x \in C, x[1] = p
      PROVE  <<x[1], x[2] + 1>> \in T
  <2>1. /\ x[2] \in Nat \ {0} /\ x[2] + 1 \in DOMAIN b[p] /\ b[p][x[2] + 1] = e
    BY <1>2, <1>3, <1>4
  <2>2. x[2] + 1 \in Nat /\ x[2] + 1 # 1
    BY <2>1
  <2>3. <<p, x[2] + 1>> \in B
    BY <2>1, <2>2 DEF BufferPlaces
  <2>4. <<p, x[2] + 1>> # old
    BY <2>2
  <2> QED
    BY <1>4, <2>3, <2>4
<1>5. ASSUME NEW x \in C, x[1] # p
      PROVE  <<x[1], x[2]>> \in T
  <2>1. x[2] \in DOMAIN b[x[1]] /\ b[x[1]][x[2]] = e
    BY <1>1, <1>3, <1>5
  <2>2. <<x[1], x[2]>> \in B
    BY <1>3, <2>1 DEF BufferPlaces
  <2>3. <<x[1], x[2]>> # old
    BY <1>5
  <2> QED
    BY <2>2, <2>3
<1>6. f \in [C -> T]
  BY <1>4, <1>5
<1>7. ASSUME NEW x \in C, NEW y \in C, f[x] = f[y]
      PROVE  x = y
  <2>1. /\ f[x][1] = x[1] /\ f[y][1] = y[1]
        /\ x[1] = p => f[x][2] = x[2] + 1
        /\ x[1] # p => f[x][2] = x[2]
        /\ y[1] = p => f[y][2] = y[2] + 1
        /\ y[1] # p => f[y][2] = y[2]
    OBVIOUS
  <2>2. x[1] = y[1]
    BY <1>7, <2>1
  <2>3. x[2] \in Nat /\ y[2] \in Nat /\ f[x][2] = f[y][2]
    BY <1>3, <1>7
  <2>4. x[2] = y[2]
    <3> HIDE DEF f
    <3>1. CASE x[1] = p
      BY <2>1, <2>2, <2>3, <3>1
    <3>2. CASE x[1] # p
      BY <2>1, <2>2, <2>3, <3>2
    <3> QED
      BY <3>1, <3>2
  <2> QED
    BY <1>3, <2>2, <2>4
<1>8. f \in Injection(C, T)
  BY <1>6, <1>7 DEF Injection, IsInjective
<1> HIDE DEF f
<1>9. /\ IsFiniteSet(T)
      /\ old \in B => Cardinality(T) = Cardinality(B) - 1
      /\ Cardinality(T) <= Cardinality(B)
      /\ Cardinality(B) \in Nat
  <2> HIDE DEF B, old
  <2>1. Cardinality(B) \in Nat /\ IsFiniteSet(B)
    <3>1. IsFiniteSet(B)
      BY DEF B
    <3> QED
      BY <3>1, FS_CardinalityType
  <2>2. /\ IsFiniteSet(B \ {old})
        /\ Cardinality(B \ {old}) = IF old \in B THEN Cardinality(B) - 1 ELSE Cardinality(B)
    BY <2>1, FS_RemoveElement
  <2> QED
    BY <2>1, <2>2
<1>10. IsFiniteSet(C) /\ Cardinality(C) <= Cardinality(T)
  BY <1>8, <1>9, FS_Injection
<1>11. Head(b[p]) = e => old \in B
  BY <1>2 DEF BufferPlaces
<1>12. Cardinality(C) \in Nat /\ Cardinality(T) \in Nat
  BY <1>9, <1>10, FS_CardinalityType
<1> QED
  BY <1>9, <1>10, <1>11, <1>12

\* Buffers that are lost with their instance hold no record any more.
LEMMA BufferLost ==
    ASSUME NEW b, NEW c, NEW e, \A q \in Publishers : c[q] = b[q] \/ c[q] = <<>>,
           IsFiniteSet(BufferPlaces(b, e))
    PROVE  /\ IsFiniteSet(BufferPlaces(c, e))
           /\ Cardinality(BufferPlaces(c, e)) <= Cardinality(BufferPlaces(b, e))
<1>1. BufferPlaces(c, e) \in SUBSET BufferPlaces(b, e)
  BY DEF BufferPlaces
<1> QED
  BY <1>1, FS_Subset

LEMMA AuditsFinite ==
    ASSUME NEW A, IsFiniteSet(A), NEW e
    PROVE  /\ IsFiniteSet(AuditsOf(A, e))
           /\ Cardinality(AuditsOf(A, e)) \in Nat
           /\ MaxAttempts * Cardinality(AuditsOf(A, e)) \in Nat
<1>1. AuditsOf(A, e) \in SUBSET A
  BY DEF AuditsOf
<1>2. IsFiniteSet(AuditsOf(A, e))
  BY <1>1, FS_Subset
<1>3. Cardinality(AuditsOf(A, e)) \in Nat
  BY <1>2, FS_CardinalityType
<1>4. \A m, n \in Nat : m * n \in Nat
  OBVIOUS
<1> QED
  BY <1>2, <1>3, <1>4, OutboxAssumption

LEMMA AuditAdded ==
    ASSUME NEW A, IsFiniteSet(A), NEW a, a \notin A, NEW e, a.event = e
    PROVE  MaxAttempts * Cardinality(AuditsOf(A \cup {a}, e))
              = MaxAttempts * Cardinality(AuditsOf(A, e)) + MaxAttempts
<1>1. AuditsOf(A \cup {a}, e) = AuditsOf(A, e) \cup {a} /\ a \notin AuditsOf(A, e)
  BY DEF AuditsOf
<1>2. Cardinality(AuditsOf(A \cup {a}, e)) = Cardinality(AuditsOf(A, e)) + 1
  BY <1>1, AuditsFinite, FS_AddElement
<1>3. \A m, n \in Nat : m * (n + 1) = m * n + m
  OBVIOUS
<1> QED
  BY <1>2, <1>3, AuditsFinite, OutboxAssumption

\* The numbers that are compared, in a state with the invariant.
LEMMA Numbers ==
    ASSUME IInv, SendsInv, NEW e \in Events
    PROVE  /\ Cardinality(LogPlaces(log, e)) \in Nat
           /\ IsFiniteSet(BufferPlaces(buffer, e))
           /\ Cardinality(BufferPlaces(buffer, e)) \in Nat
           /\ attempts[e] \in Nat
           /\ crashes \in Nat
           /\ MaxAttempts * Cardinality(AuditsOf(audits, e)) \in Nat
           /\ Uncounted(e) \in {0, 1}
<1>1. Cardinality(LogPlaces(log, e)) \in Nat
  BY LogPlacesFinite DEF IInv, TypeOK
<1>2. IsFiniteSet(BufferPlaces(buffer, e)) /\ Cardinality(BufferPlaces(buffer, e)) \in Nat
  BY FS_CardinalityType DEF SendsInv
<1>3. attempts[e] \in Nat /\ crashes \in Nat
  BY DEF IInv, TypeOK
<1>4. MaxAttempts * Cardinality(AuditsOf(audits, e)) \in Nat
  BY AuditsFinite DEF SendsInv
<1> QED
  BY <1>1, <1>2, <1>3, <1>4 DEF Uncounted

LEMMA InitSends == Init => SendsInv
<1> SUFFICES ASSUME Init PROVE SendsInv
  OBVIOUS
<1>1. IsFiniteSet(audits)
  BY FS_EmptySet DEF Init
<1>2. ASSUME NEW e \in Events
      PROVE  /\ BufferPlaces(buffer, e) = {} /\ LogPlaces(log, e) = {}
             /\ IsFiniteSet({}) /\ Cardinality({}) = 0
  BY FS_EmptySet DEF Init, BufferPlaces, LogPlaces
<1>3. ASSUME NEW e \in Events
      PROVE  SendsCounted(e)
  <2>1. attempts[e] = 0 /\ crashes = 0 /\ Uncounted(e) \in {0, 1}
    BY OutboxAssumption DEF Init, Uncounted
  <2>2. MaxAttempts * Cardinality(AuditsOf(audits, e)) \in Nat
    BY <1>1, AuditsFinite
  <2> QED
    BY <1>2, <2>1, <2>2 DEF SendsCounted
<1>4. \A e \in Events : status[e] # "FAILED"
  BY DEF Init
<1> QED
  BY <1>1, <1>2, <1>3, <1>4 DEF SendsInv

\* A step that touches neither records nor audits keeps the count of e when it
\* charges what it takes from Uncounted to attempts or to crashes.
LEMMA SettlingKeepsCount ==
    ASSUME IInv, SendsInv, NEW e \in Events, status[e] # "DELETED",
           LogPlaces(log', e) = LogPlaces(log, e),
           Cardinality(BufferPlaces(buffer', e)) \in Nat,
           Cardinality(BufferPlaces(buffer', e)) <= Cardinality(BufferPlaces(buffer, e)),
           AuditsOf(audits', e) = AuditsOf(audits, e),
           attempts'[e] \in Nat, crashes' \in Nat, Uncounted(e)' \in {0, 1},
           attempts[e] + crashes + Uncounted(e) <= attempts'[e] + crashes' + Uncounted(e)'
    PROVE  SendsCounted(e)'
<1> DEFINE m == MaxAttempts * Cardinality(AuditsOf(audits, e))
<1>1. SendsCounted(e)
  BY DEF SendsInv
<1>2. m = MaxAttempts * Cardinality(AuditsOf(audits', e)) /\ m \in Nat
  BY Numbers
<1> HIDE DEF m
<1>3. Cardinality(LogPlaces(log, e)) + Cardinality(BufferPlaces(buffer, e))
        <= attempts[e] + crashes + m + Uncounted(e)
  BY <1>1 DEF SendsCounted, m
<1>4. Cardinality(LogPlaces(log', e)) + Cardinality(BufferPlaces(buffer', e))
        <= attempts'[e] + crashes' + m + Uncounted(e)'
  BY <1>2, <1>3, Numbers
<1> QED
  BY <1>2, <1>4 DEF SendsCounted

LEMMA StepSends == IInv /\ IInv' /\ SendsInv /\ [Next]_vars => SendsInv'
<1> SUFFICES ASSUME IInv, IInv', SendsInv, [Next]_vars PROVE SendsInv'
  OBVIOUS
<1>0. /\ \A f \in Events : /\ attempts'[f] \in Nat /\ attempts[f] \in Nat
                           /\ Uncounted(f) \in {0, 1} /\ Uncounted(f)' \in {0, 1}
      /\ crashes \in Nat /\ crashes' \in Nat
      /\ IsFiniteSet(audits)
      /\ \A f \in Events : IsFiniteSet(BufferPlaces(buffer, f))
      /\ \A f \in Events : status[f] = "FAILED" => attempts[f] = MaxAttempts
  <2>1. \A f \in Events : attempts'[f] \in Nat /\ crashes' \in Nat
    BY DEF IInv, TypeOK
  <2>2. \A f \in Events : attempts[f] \in Nat /\ crashes \in Nat
    BY DEF IInv, TypeOK
  <2>3. crashes \in Nat /\ crashes' \in Nat
    BY DEF IInv, TypeOK
  <2> QED
    BY <2>1, <2>2, <2>3 DEF SendsInv, Uncounted
<1>a. \A f \in Events : /\ IsFiniteSet(BufferPlaces(buffer, f))
                        /\ Cardinality(BufferPlaces(buffer, f)) \in Nat
                        /\ Cardinality(BufferPlaces(buffer, f)) <= Cardinality(BufferPlaces(buffer, f))
  BY Numbers
<1>1. ASSUME NEW e \in Events, Save(e)
     PROVE  SendsInv'
  <2>1. /\ buffer' = buffer /\ log' = log /\ attempts' = attempts /\ crashes' = crashes
        /\ held' = held /\ audits' \subseteq audits
        /\ \A f \in Events : f # e => status'[f] = status[f]
        /\ status[e] \notin {"FAILED", "DELETED"} /\ status'[e] # "FAILED"
        /\ audits' = audits /\ status[e] = "ABSENT" /\ status'[e] = "PENDING"
    BY <1>1 DEF IInv, TypeOK, Save
  <2>2. IsFiniteSet(audits')
    BY <1>0, <2>1, FS_Subset
  <2>3. ASSUME NEW f \in Events, status'[f] # "DELETED"
        PROVE  SendsCounted(f)'
    <3>1. status[f] # "DELETED"
      BY <2>1, <2>3
    <3>2. AuditsOf(audits', f) = AuditsOf(audits, f)
      BY <2>1, <2>3 DEF AuditsOf
    <3>3. Uncounted(f)' = Uncounted(f)
      BY <2>1, <2>3 DEF Uncounted
    <3> QED
      BY <1>0, <1>a, <2>1, <3>1, <3>2, <3>3, SettlingKeepsCount
  <2>4. \A f \in Events : status'[f] = "FAILED" => attempts'[f] = MaxAttempts
    BY <1>0, <2>1
  <2> QED
    BY <1>0, <2>1, <2>2, <2>3, <2>4 DEF SendsInv
<1>2. ASSUME NEW e \in Events, BecomeDue(e)
     PROVE  SendsInv'
  <2>1. /\ buffer' = buffer /\ log' = log /\ attempts' = attempts /\ crashes' = crashes
        /\ held' = held /\ audits' \subseteq audits
        /\ \A f \in Events : f # e => status'[f] = status[f]
        /\ status[e] \notin {"FAILED", "DELETED"} /\ status'[e] # "FAILED"
        /\ audits' = audits /\ status[e] = "PENDING" /\ status'[e] = "PENDING"
    BY <1>2 DEF IInv, TypeOK, BecomeDue
  <2>2. IsFiniteSet(audits')
    BY <1>0, <2>1, FS_Subset
  <2>3. ASSUME NEW f \in Events, status'[f] # "DELETED"
        PROVE  SendsCounted(f)'
    <3>1. status[f] # "DELETED"
      BY <2>1, <2>3
    <3>2. AuditsOf(audits', f) = AuditsOf(audits, f)
      BY <2>1, <2>3 DEF AuditsOf
    <3>3. Uncounted(f)' = Uncounted(f)
      BY <2>1, <2>3 DEF Uncounted
    <3> QED
      BY <1>0, <1>a, <2>1, <3>1, <3>2, <3>3, SettlingKeepsCount
  <2>4. \A f \in Events : status'[f] = "FAILED" => attempts'[f] = MaxAttempts
    BY <1>0, <2>1
  <2> QED
    BY <1>0, <2>1, <2>2, <2>3, <2>4 DEF SendsInv
<1>3. ASSUME NEW e \in Events, Purge(e)
     PROVE  SendsInv'
  <2>1. /\ buffer' = buffer /\ log' = log /\ attempts' = attempts /\ crashes' = crashes
        /\ held' = held /\ audits' \subseteq audits
        /\ \A f \in Events : f # e => status'[f] = status[f]
        /\ status[e] \notin {"FAILED", "DELETED"} /\ status'[e] # "FAILED"
        /\ audits' = {a \in audits : a.event # e} /\ status'[e] = "DELETED"
    BY <1>3 DEF IInv, TypeOK, Purge
  <2>2. IsFiniteSet(audits')
    BY <1>0, <2>1, FS_Subset
  <2>3. ASSUME NEW f \in Events, status'[f] # "DELETED"
        PROVE  SendsCounted(f)'
    <3>1. status[f] # "DELETED"
      BY <2>1, <2>3
    <3>2. AuditsOf(audits', f) = AuditsOf(audits, f)
      BY <2>1, <2>3 DEF AuditsOf
    <3>3. Uncounted(f)' = Uncounted(f)
      BY <2>1, <2>3 DEF Uncounted
    <3> QED
      BY <1>0, <1>a, <2>1, <3>1, <3>2, <3>3, SettlingKeepsCount
  <2>4. \A f \in Events : status'[f] = "FAILED" => attempts'[f] = MaxAttempts
    BY <1>0, <2>1
  <2> QED
    BY <1>0, <2>1, <2>2, <2>3, <2>4 DEF SendsInv
<1>4. ASSUME NEW e \in Events, NEW k \in RetryKeys, Retry(e, k)
     PROVE  SendsInv'
  <2> DEFINE a == [key |-> k, event |-> e]
  <2>1. /\ buffer' = buffer /\ log' = log /\ crashes' = crashes /\ held' = held
        /\ status[e] = "FAILED" /\ status' = [status EXCEPT ![e] = "PENDING"]
        /\ attempts' = [attempts EXCEPT ![e] = 0]
        /\ audits' = audits \cup {a} /\ \A b \in audits : b.key # k
    BY <1>4 DEF Retry
  <2>2. a \notin audits /\ a.event = e
    BY <2>1
  <2> HIDE DEF a
  <2>3. IsFiniteSet(audits')
    BY <1>0, <2>1, FS_AddElement
  <2>4. \A f \in Events : f # e => status'[f] = status[f] /\ attempts'[f] = attempts[f]
    BY <2>1 DEF IInv, TypeOK
  <2>5. status'[e] = "PENDING" /\ attempts'[e] = 0
    BY <2>1 DEF IInv, TypeOK
  <2>6. ASSUME NEW f \in Events, status'[f] # "DELETED", f # e
        PROVE  SendsCounted(f)'
    <3>1. AuditsOf(audits', f) = AuditsOf(audits, f)
      BY <2>1, <2>2, <2>6 DEF AuditsOf
    <3>2. Uncounted(f)' = Uncounted(f)
      BY <2>1, <2>4, <2>6 DEF Uncounted
    <3> QED
      BY <1>0, <1>a, <2>1, <2>4, <2>6, <3>1, <3>2, SettlingKeepsCount
  <2>7. SendsCounted(e)'
    <3>1. MaxAttempts * Cardinality(AuditsOf(audits', e))
            = MaxAttempts * Cardinality(AuditsOf(audits, e)) + MaxAttempts
      BY <1>0, <2>1, <2>2, AuditAdded
    <3>2. Uncounted(e)' = Uncounted(e)
      BY <2>1, <2>5 DEF Uncounted
    <3>3. attempts[e] = MaxAttempts /\ SendsCounted(e)
      BY <1>0, <2>1 DEF SendsInv
    <3> DEFINE m == MaxAttempts * Cardinality(AuditsOf(audits, e))
    <3>4. m \in Nat
      BY Numbers
    <3>5. MaxAttempts * Cardinality(AuditsOf(audits', e)) = m + MaxAttempts
      BY <3>1
    <3>6. Cardinality(LogPlaces(log, e)) + Cardinality(BufferPlaces(buffer, e))
            <= MaxAttempts + crashes + m + Uncounted(e)
      BY <3>3 DEF SendsCounted
    <3> HIDE DEF m
    <3>7. Cardinality(LogPlaces(log, e)) + Cardinality(BufferPlaces(buffer, e))
            <= 0 + crashes + (m + MaxAttempts) + Uncounted(e)
      BY <1>0, <3>4, <3>6, Numbers, OutboxAssumption
    <3> QED
      BY <2>1, <2>5, <3>2, <3>5, <3>7 DEF SendsCounted
  <2> QED
    BY <1>0, <2>1, <2>3, <2>4, <2>5, <2>6, <2>7 DEF SendsInv
<1>5. ASSUME NEW p \in Publishers, NEW e \in Events, StartPublish(p, e)
     PROVE  SendsInv'
  <2>1. /\ log' = log /\ crashes' = crashes /\ audits' = audits
        /\ status' = status /\ attempts' = attempts
        /\ held' = [held EXCEPT ![p] = e] /\ held[p] = None
        /\ buffer' = [buffer EXCEPT ![p] = Append(@, e)] /\ buffer \in [Publishers -> Seq(Events)]
    BY <1>5 DEF IInv, TypeOK, StartPublish
  <2>2. status[e] = "PENDING" /\ \A q \in Publishers : held[q] # e
    <3>1. e \in due /\ e \notin Locked
      BY <1>5 DEF StartPublish, NextPending
    <3> QED
      BY <3>1, OutboxAssumption DEF IInv, DueArePending, Locked
  <2>3. ASSUME NEW f \in Events
        PROVE  /\ IsFiniteSet(BufferPlaces(buffer', f))
               /\ e = f => Cardinality(BufferPlaces(buffer', f))
                             = Cardinality(BufferPlaces(buffer, f)) + 1
               /\ e # f => BufferPlaces(buffer', f) = BufferPlaces(buffer, f)
    <3>1. IsFiniteSet(BufferPlaces(buffer, f))
      BY <1>0
    <3>2. /\ buffer[p] \in Seq(Events) /\ buffer'[p] = Append(buffer[p], e)
          /\ \A q \in Publishers : q # p => buffer'[q] = buffer[q]
      BY <2>1
    <3> QED
      BY <3>1, <3>2, BufferAppend, SMTT(30)
  <2>4. ASSUME NEW f \in Events, status'[f] # "DELETED", f # e
        PROVE  SendsCounted(f)'
    <3>1. Uncounted(f)' = Uncounted(f)
      <4>1. \A q \in Publishers : held'[q] = f <=> held[q] = f
        BY <2>1, <2>4, OutboxAssumption DEF IInv, TypeOK
      <4> QED
        BY <2>1, <4>1 DEF Uncounted
    <3>2. BufferPlaces(buffer', f) = BufferPlaces(buffer, f)
      BY <2>3, <2>4
    <3>3. /\ Cardinality(BufferPlaces(buffer', f)) \in Nat
          /\ Cardinality(BufferPlaces(buffer', f)) <= Cardinality(BufferPlaces(buffer, f))
      BY <1>a, <3>2
    <3>4. attempts[f] + crashes + Uncounted(f) <= attempts'[f] + crashes' + Uncounted(f)'
      BY <1>0, <2>1, <3>1
    <3> QED
      BY <1>0, <2>1, <2>4, <3>3, <3>4, SettlingKeepsCount
  <2>5. SendsCounted(e)'
    <3>1. Uncounted(e) = 0
      BY <2>2 DEF Uncounted
    <3>2. Uncounted(e)' = 1
      BY <2>1 DEF Uncounted, IInv, TypeOK
    <3>3. SendsCounted(e)
      BY <2>2 DEF SendsInv
    <3> DEFINE m == MaxAttempts * Cardinality(AuditsOf(audits, e))
    <3>4. m \in Nat
      BY Numbers
    <3>5. Cardinality(LogPlaces(log, e)) + Cardinality(BufferPlaces(buffer, e))
            <= attempts[e] + crashes + m + 0
      BY <3>1, <3>3 DEF SendsCounted
    <3> HIDE DEF m
    <3>6. Cardinality(LogPlaces(log, e)) + Cardinality(BufferPlaces(buffer', e))
            <= attempts[e] + crashes + m + 1
      BY <1>0, <2>3, <3>4, <3>5, Numbers
    <3> QED
      BY <2>1, <3>2, <3>6 DEF SendsCounted, m
  <2> QED
    BY <1>0, <2>1, <2>3, <2>4, <2>5 DEF SendsInv
<1>6. ASSUME NEW p \in Publishers, BrokerAppends(p) \/ ProducerGivesUp(p)
     PROVE  SendsInv'
  <2> DEFINE x == Head(buffer[p])
  <2>1. /\ crashes' = crashes /\ audits' = audits /\ status' = status
        /\ attempts' = attempts /\ held' = held
        /\ log' = log \/ log' = Append(log, x)
        /\ buffer' = [buffer EXCEPT ![p] = Tail(@)] /\ buffer[p] # <<>>
        /\ buffer \in [Publishers -> Seq(Events)] /\ log \in Seq(Events)
    BY <1>6 DEF IInv, TypeOK, BrokerAppends, ProducerGivesUp, Answer
  <2>2. x \in Events
    BY <2>1, TailElements
  <2> HIDE DEF x
  <2>3. ASSUME NEW f \in Events
        PROVE  /\ IsFiniteSet(BufferPlaces(buffer', f))
               /\ Cardinality(BufferPlaces(buffer', f)) <= Cardinality(BufferPlaces(buffer, f))
               /\ x = f => Cardinality(BufferPlaces(buffer', f)) + 1
                             <= Cardinality(BufferPlaces(buffer, f))
    BY <1>0, <2>1, BufferTail DEF x
  <2>4. ASSUME NEW f \in Events
        PROVE  Cardinality(LogPlaces(log', f)) + Cardinality(BufferPlaces(buffer', f))
                 <= Cardinality(LogPlaces(log, f)) + Cardinality(BufferPlaces(buffer, f))
    <3>1. /\ x = f => Cardinality(LogPlaces(Append(log, x), f)) = Cardinality(LogPlaces(log, f)) + 1
          /\ x # f => LogPlaces(Append(log, x), f) = LogPlaces(log, f)
      BY <2>1, <2>2, LogAppend
    <3>2. Cardinality(BufferPlaces(buffer', f)) \in Nat
      BY <2>3, FS_CardinalityType
    <3>3. /\ Cardinality(BufferPlaces(buffer, f)) \in Nat
          /\ Cardinality(LogPlaces(log, f)) \in Nat
      BY Numbers
    <3>4. CASE log' = log
      BY <2>3, <3>2, <3>3, <3>4
    <3>5. CASE log' = Append(log, x) /\ x = f
      BY <2>3, <3>1, <3>2, <3>3, <3>5
    <3>6. CASE log' = Append(log, x) /\ x # f
      BY <2>3, <3>1, <3>2, <3>3, <3>6
    <3> QED
      BY <2>1, <3>4, <3>5, <3>6
  <2>5. ASSUME NEW f \in Events, status'[f] # "DELETED"
        PROVE  SendsCounted(f)'
    <3>1. Uncounted(f)' = Uncounted(f)
      BY <2>1 DEF Uncounted
    <3>2. SendsCounted(f)
      BY <2>1, <2>5 DEF SendsInv
    <3> DEFINE m == MaxAttempts * Cardinality(AuditsOf(audits, f))
    <3>3. m \in Nat
      BY Numbers
    <3>4. Cardinality(LogPlaces(log, f)) + Cardinality(BufferPlaces(buffer, f))
            <= attempts[f] + crashes + m + Uncounted(f)
      BY <3>2 DEF SendsCounted
    <3> HIDE DEF m
    <3>5. Cardinality(LogPlaces(log', f)) \in Nat /\ Cardinality(BufferPlaces(buffer', f)) \in Nat
      BY <2>3, FS_CardinalityType, LogPlacesFinite DEF IInv, TypeOK
    <3>6. Cardinality(LogPlaces(log', f)) + Cardinality(BufferPlaces(buffer', f))
            <= attempts[f] + crashes + m + Uncounted(f)
      BY <1>0, <2>4, <3>3, <3>4, <3>5, Numbers
    <3> QED
      BY <2>1, <3>1, <3>6 DEF SendsCounted, m
  <2> QED
    BY <1>0, <2>1, <2>3, <2>5 DEF SendsInv
<1>7. ASSUME NEW p \in Publishers, Publish(p)
     PROVE  SendsInv'
  <2>0. held[p] \in Events /\ status[held[p]] = "PENDING"
    BY <1>7 DEF IInv, TypeOK, AnswerMatches, OneHolder, Publish, Published, Failed
  <2> PICK e \in Events : e = held[p]
    BY <2>0
  <2>1. /\ e \in Events /\ status[e] = "PENDING"
        /\ buffer' = buffer /\ log' = log /\ crashes' = crashes /\ audits' = audits
        /\ held' = [held EXCEPT ![p] = None]
        /\ \A f \in Events : f # e => status'[f] = status[f] /\ attempts'[f] = attempts[f]
        /\ \/ status'[e] = "PUBLISHED" /\ attempts'[e] = attempts[e]
           \/ status'[e] # "FAILED" /\ attempts'[e] = attempts[e] + 1
           \/ status'[e] = "FAILED" /\ attempts'[e] = attempts[e] + 1 /\ attempts'[e] >= MaxAttempts
    <3>1. e \in Events /\ status[e] = "PENDING"
      BY <2>0
    <3>2. CASE Published(p)
      BY <3>1, <3>2 DEF IInv, TypeOK, Published, Release
    <3>3. CASE Failed(p)
      BY <3>1, <3>3 DEF IInv, TypeOK, Failed, Release
    <3> QED
      BY <1>7, <3>2, <3>3 DEF Publish
  <2>2. \A f \in Events : f # e => Uncounted(f)' = Uncounted(f)
    <3>1. \A f \in Events, q \in Publishers : f # e => (held'[q] = f <=> held[q] = f)
      BY <2>1, OutboxAssumption DEF IInv, TypeOK
    <3> QED
      BY <2>1, <3>1 DEF Uncounted
  <2>3. attempts[e] + Uncounted(e) <= attempts'[e] + Uncounted(e)'
    <3>1. CASE status'[e] = "PUBLISHED" /\ attempts'[e] = attempts[e]
      <4>1. Uncounted(e)' = 1
        BY <3>1 DEF Uncounted
      <4> QED
        BY <1>0, <2>1, <3>1, <4>1
    <3>2. CASE attempts'[e] = attempts[e] + 1
      BY <1>0, <2>1, <3>2
    <3> QED
      BY <2>1, <3>1, <3>2
  <2>4. ASSUME NEW f \in Events, status'[f] # "DELETED"
        PROVE  SendsCounted(f)'
    <3>1. status[f] # "DELETED"
      BY <2>1, <2>4
    <3>2. attempts[f] + crashes + Uncounted(f) <= attempts'[f] + crashes' + Uncounted(f)'
      BY <1>0, <2>1, <2>2, <2>3
    <3> QED
      BY <1>0, <1>a, <2>1, <3>1, <3>2, SettlingKeepsCount
  <2>5. \A f \in Events : status'[f] = "FAILED" => attempts'[f] = MaxAttempts
    <3>1. \A f \in Events : attempts'[f] <= MaxAttempts
      BY OutboxAssumption DEF IInv, TypeOK
    <3>2. status'[e] = "FAILED" => attempts'[e] = MaxAttempts
      BY <1>0, <2>1, <3>1, OutboxAssumption
    <3> QED
      BY <1>0, <2>1, <3>2
  <2> QED
    BY <1>0, <2>1, <2>4, <2>5 DEF SendsInv
<1>8. ASSUME NEW p \in Publishers, Crash(p)
     PROVE  SendsInv'
  <2>1. /\ log' = log /\ crashes' = crashes + 1 /\ audits' = audits
        /\ status' = status /\ attempts' = attempts
        /\ held' = [held EXCEPT ![p] = None]
    BY <1>8 DEF Crash, Release
  <2>2. \A q \in Publishers : buffer'[q] = buffer[q] \/ buffer'[q] = <<>>
    BY <1>8 DEF IInv, TypeOK, Crash
  <2>3. \A f \in Events : /\ IsFiniteSet(BufferPlaces(buffer', f))
                          /\ Cardinality(BufferPlaces(buffer', f)) <= Cardinality(BufferPlaces(buffer, f))
    BY <1>0, <2>2, BufferLost
  <2>4. \A f \in Events : Cardinality(BufferPlaces(buffer', f)) \in Nat
    BY <2>3, FS_CardinalityType
  <2>5. ASSUME NEW f \in Events, status'[f] # "DELETED"
        PROVE  SendsCounted(f)'
    <3>1. attempts[f] + crashes + Uncounted(f) <= attempts'[f] + crashes' + Uncounted(f)'
      BY <1>0, <2>1
    <3> QED
      BY <1>0, <2>1, <2>3, <2>4, <2>5, <3>1, SettlingKeepsCount
  <2> QED
    BY <1>0, <2>1, <2>3, <2>5 DEF SendsInv
<1>9. CASE UNCHANGED vars
  <2>1. \A f \in Events : SendsCounted(f)' = SendsCounted(f)
    BY <1>9 DEF vars, SendsCounted, Uncounted
  <2> QED
    BY <1>0, <1>9, <2>1 DEF vars, SendsInv
<1> QED
  BY <1>1, <1>2, <1>3, <1>4, <1>5, <1>6, <1>7, <1>8, <1>9 DEF Next

\* A record is on the log more than once only for attempts that ended without
\* an answer: one extra copy at most for each failed attempt, each lost
\* transaction and each attempt of a round that an operator re-armed.
THEOREM DuplicatesAreAccounted == Spec => []DuplicatesAccounted
<1>1. ASSUME IInv, SendsInv
      PROVE  DuplicatesAccounted
  <2>1. ASSUME NEW e \in Events, status[e] # "DELETED"
        PROVE  Copies(e) <= 1 + attempts[e] + crashes
                              + MaxAttempts * Cardinality({a \in audits : a.event = e})
    <3> DEFINE m == MaxAttempts * Cardinality(AuditsOf(audits, e))
    <3>1. m \in Nat /\ SendsCounted(e)
      BY <1>1, <2>1, Numbers DEF SendsInv
    <3>2. Cardinality(LogPlaces(log, e)) + Cardinality(BufferPlaces(buffer, e))
            <= attempts[e] + crashes + m + Uncounted(e)
      BY <3>1 DEF SendsCounted
    <3> HIDE DEF m
    <3>3. Cardinality(LogPlaces(log, e)) <= 1 + attempts[e] + crashes + m
      BY <1>1, <3>1, <3>2, Numbers
    <3> QED
      BY <3>3 DEF m, Copies, LogPlaces, AuditsOf
  <2> QED
    BY <2>1 DEF DuplicatesAccounted
<1> QED
  BY <1>1, Invariant, InitSends, StepSends, PTL DEF Spec
=============================================================================

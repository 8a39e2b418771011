------------------------- MODULE BrowserPageProofs -------------------------
(***************************************************************************)
(* One page of the console, for any number of versions, polls and keys.    *)
(* The three parts share only online, so each has an invariant of its own; *)
(* a step of one leaves those of the others alone, except for the network  *)
(* events and the reload, which are steps of all three.                    *)
(***************************************************************************)
EXTENDS BrowserPage, TLAPS

(* GuardOnline is bounded by MaxLost; a timer may be armed besides.        *)
LoopsBounded ==
    /\ Loops <= MaxLost + 1
    /\ timer => Loops <= MaxLost

GuardInv == GuardTypeOK /\ LoopsBounded /\ PollingNeverStops

(* A retry under way is what the page shows as recovering, and the timer   *)
(* is armed only while there is none.                                      *)
RetryShown ==
    /\ retrying = mapRecovering
    /\ retryTimer => mapError /\ ~mapRecovering

MapInv == MapTypeOK /\ RetryShown /\ RecoveryScheduled

(* The request the buttons are busy with carries the key that is kept.     *)
AwaitedIsKept ==
    awaited # None =>
        /\ awaited.key = retry[awaited.step]
        /\ awaited.step = "pick" => task = None
        /\ awaited.step = "dispatch" => awaited.task = task

TaskHasKey == task # None <=> retry["dispatch"] # None

KeysMade ==
    /\ \A r \in applied \cup abandoned : r.key <= keys
    /\ \A s \in Steps : retry[s] # None => retry[s] <= keys

(* What OneOpenTask says, of requests that may still run as well.          *)
PicksKept ==
    \A p \in applied \cup abandoned :
        p.step = "pick" /\ p.key > since =>
            \/ p.key \in {retry["pick"], task}
            \/ \E d \in applied : d.step = "dispatch" /\ d.task = p.key

CommandsInv ==
    /\ CommandsTypeOK
    /\ AwaitedIsKept
    /\ TaskHasKey
    /\ KeysMade
    /\ OneEffectPerIntention
    /\ PicksKept

IInv == online \in BOOLEAN /\ GuardInv /\ MapInv /\ CommandsInv
-----------------------------------------------------------------------------
LEMMA FirstCheck ==
    LET first == [by |-> "poll", answer |-> None]
    IN  first \in Check /\ first # None /\ first.by = "poll"
<1>1. [by |-> "poll", answer |-> None] \in Check
  BY DEF Check
<1>. QED
  BY <1>1, GuardAssumption

LEMMA PollPreserves ==
    ASSUME GuardInv, NEW t \in BOOLEAN, NEW n \in Nat, NEW isOnline \in BOOLEAN,
           Poll(isOnline, t, n),
           LET loops == IF check # None /\ check.by = "poll" THEN n + 1 ELSE n
           IN  loops <= MaxLost /\ (t => loops + 1 <= MaxLost)
    PROVE  /\ check' \in Check \cup {None} /\ timer' \in BOOLEAN /\ lost' \in 0 .. MaxLost
           /\ LoopsBounded'
           /\ isOnline => (check' # None /\ check'.by = "poll") \/ timer' \/ lost' > 0
  BY GuardAssumption
  DEF Poll, Arm, GuardInv, GuardTypeOK, LoopsBounded, Loops, Check, Versions

LEMMA GuardStep == ASSUME IInv, GuardNext, UNCHANGED online PROVE GuardInv'
<1>1. CASE TimerFires
  <2>1. CASE timer /\ Poll(online, FALSE, lost)
    <3>1. Loops <= MaxLost /\ lost \in Nat
      BY <2>1, GuardAssumption DEF IInv, GuardInv, GuardTypeOK, LoopsBounded
    <3>. QED
      BY <1>1, <2>1, <3>1, PollPreserves
      DEF IInv, TimerFires, GuardInv, GuardTypeOK, Loops, PollingNeverStops
  <2>2. CASE lost > 0 /\ Poll(online, timer, lost - 1)
    <3>1. /\ lost - 1 \in Nat /\ timer \in BOOLEAN
          /\ Loops - 1 <= MaxLost /\ (timer => Loops <= MaxLost)
      BY <2>2, GuardAssumption DEF IInv, GuardInv, GuardTypeOK, LoopsBounded, Loops
    <3>2. Loops - 1 = IF check # None /\ check.by = "poll" THEN lost - 1 + 1 ELSE lost - 1
      BY DEF IInv, GuardInv, GuardTypeOK, Loops
    <3>. QED
      BY <1>1, <2>2, <3>1, <3>2, PollPreserves, GuardAssumption
      DEF IInv, TimerFires, GuardInv, GuardTypeOK, Loops, PollingNeverStops
  <2>. QED
    BY <1>1, <2>1, <2>2 DEF TimerFires
<1>2. CASE Visible
  BY <1>2, GuardAssumption DEF IInv, Visible, GuardInv, GuardTypeOK, LoopsBounded, Loops, Check,
     PollingNeverStops, Versions
<1>3. CASE VersionRoute
  BY <1>3, GuardAssumption DEF IInv, VersionRoute, GuardInv, GuardTypeOK, LoopsBounded, Loops,
     Check, PollingNeverStops, Versions
<1>4. CASE CheckFails
  BY <1>4, GuardAssumption DEF IInv, CheckFails, CheckOver, Arm, GuardInv, GuardTypeOK,
     LoopsBounded, Loops, Check, PollingNeverStops, Versions
<1>5. CASE SameVersion
  BY <1>5, GuardAssumption DEF IInv, SameVersion, CheckOver, Arm, GuardInv, GuardTypeOK,
     LoopsBounded, Loops, Check, PollingNeverStops, Versions
<1>6. CASE Deploy
  BY <1>6, GuardAssumption DEF IInv, Deploy, GuardInv, GuardTypeOK, LoopsBounded, Loops, Check,
     PollingNeverStops, Versions
<1>. QED
  BY <1>1, <1>2, <1>3, <1>4, <1>5, <1>6 DEF GuardNext

LEMMA MapStep == ASSUME IInv, MapNext PROVE MapInv'
<1>. USE DEF IInv, MapInv, MapTypeOK, RetryShown, RecoveryScheduled
<1>1. CASE FailLoad
  BY <1>1 DEF FailLoad, Recover
<1>2. CASE Load
  BY <1>2 DEF Load, Recover
<1>3. CASE Replace
  BY <1>3 DEF Replace
<1>4. CASE RetryByHand
  BY <1>4 DEF RetryByHand, RetryMap, Recover
<1>5. CASE RetryTimerFires
  BY <1>5 DEF RetryTimerFires, RetryMap
<1>. QED
  BY <1>1, <1>2, <1>3, <1>4, <1>5 DEF MapNext
-----------------------------------------------------------------------------
LEMMA ClickPreserves == ASSUME IInv, NEW step \in Steps, Click(step) PROVE CommandsInv'
<1>. DEFINE key == KeyFor(step)
<1>1. /\ key \in Keys /\ retry' = [retry EXCEPT ![step] = key]
      /\ keys' = IF key > keys THEN key ELSE keys
      /\ awaited' = [step |-> step, key |-> key,
                     task |-> IF step = "dispatch" THEN task ELSE None]
      /\ UNCHANGED <<task, abandoned, applied, confirmed, since>>
      /\ step = "dispatch" <=> step # "receive" /\ task # None
  BY DEF Click
<1>2. /\ keys \in Nat /\ keys' \in Nat /\ keys <= keys' /\ key <= keys' /\ keys' <= MaxKeys
      /\ retry[step] # None => key = retry[step]
      /\ retry[step] = None => key = keys + 1
  BY <1>1, CommandsAssumption DEF IInv, CommandsInv, CommandsTypeOK, KeyFor, Keys, KeysMade
<1>3. \A s \in Steps : retry'[s] = IF s = step THEN key ELSE retry[s]
  BY <1>1 DEF IInv, CommandsInv, CommandsTypeOK
<1>4. CommandsTypeOK'
  BY <1>1, <1>2, CommandsAssumption DEF IInv, CommandsInv, CommandsTypeOK, Request, Keys
<1>5. AwaitedIsKept' /\ TaskHasKey'
  BY <1>1, <1>3, CommandsAssumption
  DEF IInv, CommandsInv, CommandsTypeOK, AwaitedIsKept, TaskHasKey, Steps, Keys
<1>6. KeysMade'
  BY <1>1, <1>2, <1>3
  DEF IInv, CommandsInv, CommandsTypeOK, KeysMade, Request, Keys
<1>7. OneEffectPerIntention'
  BY <1>1, <1>2, <1>3, CommandsAssumption
  DEF IInv, CommandsInv, CommandsTypeOK, OneEffectPerIntention, Request, Keys
<1>8. PicksKept'
  BY <1>1, <1>2, <1>3, CommandsAssumption
  DEF IInv, CommandsInv, CommandsTypeOK, PicksKept, Request, Keys, Steps
<1>. QED
  BY <1>4, <1>5, <1>6, <1>7, <1>8 DEF CommandsInv

LEMMA ApiRunsPreserves ==
    ASSUME IInv, NEW r \in abandoned \cup {awaited}, ApiRuns(r) PROVE CommandsInv'
<1>1. /\ r # None /\ r \in Request
      /\ applied' = applied \cup {r} /\ abandoned' = abandoned \ {r}
      /\ UNCHANGED <<retry, task, awaited, keys, confirmed, since>>
  BY DEF ApiRuns, IInv, CommandsInv, CommandsTypeOK
<1>2. \A q \in applied' \cup abandoned' : q \in applied \cup abandoned \/ q = awaited
  BY <1>1
<1>3. CommandsTypeOK' /\ AwaitedIsKept' /\ TaskHasKey'
  BY <1>1 DEF IInv, CommandsInv, CommandsTypeOK, AwaitedIsKept, TaskHasKey
<1>4. awaited # None => awaited \in Request /\ awaited.key = retry[awaited.step]
  BY DEF IInv, CommandsInv, CommandsTypeOK, AwaitedIsKept
<1>5. KeysMade'
  <2>1. awaited # None => awaited.key <= keys
    BY <1>4, CommandsAssumption DEF IInv, CommandsInv, KeysMade, Request, Keys
  <2>. QED
    BY <1>1, <2>1 DEF IInv, CommandsInv, KeysMade
<1>6. OneEffectPerIntention'
  BY <1>1, <1>4 DEF IInv, CommandsInv, OneEffectPerIntention
<1>7. PicksKept'
  BY <1>1, <1>4 DEF IInv, CommandsInv, PicksKept
<1>. QED
  BY <1>3, <1>5, <1>6, <1>7 DEF CommandsInv

LEMMA DonePreserves == ASSUME IInv, Done PROVE CommandsInv'
<1>1. /\ awaited # None /\ awaited \in Request /\ awaited \in applied /\ awaited.step # "pick"
      /\ awaited.step \in Steps /\ awaited.key \in Keys
      /\ retry' = [retry EXCEPT ![awaited.step] = None]
      /\ task' = IF awaited.step = "dispatch" THEN None ELSE task
      /\ awaited' = None
      /\ confirmed' = confirmed \cup {awaited.key}
      /\ UNCHANGED <<abandoned, applied, keys, since>>
  BY DEF Done, IInv, CommandsInv, CommandsTypeOK, Request
<1>2. \A s \in Steps : retry'[s] = IF s = awaited.step THEN None ELSE retry[s]
  BY <1>1 DEF IInv, CommandsInv, CommandsTypeOK
<1>3. CommandsTypeOK'
  BY <1>1 DEF IInv, CommandsInv, CommandsTypeOK
<1>4. AwaitedIsKept' /\ TaskHasKey'
  BY <1>1, <1>2 DEF IInv, CommandsInv, AwaitedIsKept, TaskHasKey, Steps
<1>5. KeysMade'
  BY <1>1, <1>2 DEF IInv, CommandsInv, KeysMade
<1>6. OneEffectPerIntention'
  BY <1>1, <1>2
  DEF IInv, CommandsInv, CommandsTypeOK, AwaitedIsKept, OneEffectPerIntention, Request
<1>7. PicksKept'
  BY <1>1, <1>2 DEF IInv, CommandsInv, AwaitedIsKept, PicksKept, Steps
<1>. QED
  BY <1>3, <1>4, <1>5, <1>6, <1>7 DEF CommandsInv

LEMMA PickedPreserves == ASSUME IInv, Picked PROVE CommandsInv'
<1>. DEFINE dispatch == [step |-> "dispatch", key |-> keys + 1, task |-> awaited.key]
<1>1. /\ awaited # None /\ awaited \in Request /\ awaited.step = "pick" /\ awaited.key \in Keys
      /\ retry' = [retry EXCEPT !["pick"] = None, !["dispatch"] = keys + 1]
      /\ keys' = keys + 1 /\ keys < MaxKeys
      /\ task' = awaited.key
      /\ awaited' = IF online THEN dispatch ELSE None
      /\ confirmed' = confirmed \cup {awaited.key}
      /\ UNCHANGED <<abandoned, applied, since>>
  BY DEF Picked, IInv, CommandsInv, CommandsTypeOK, Request
<1>2. /\ keys \in Nat /\ keys + 1 \in Keys /\ awaited.key = retry["pick"]
      /\ task = None /\ retry["dispatch"] = None
  BY <1>1, CommandsAssumption
  DEF IInv, CommandsInv, CommandsTypeOK, AwaitedIsKept, TaskHasKey, Keys
<1>3. retry'["pick"] = None /\ retry'["dispatch"] = keys + 1 /\ retry'["receive"] = retry["receive"]
  BY <1>1 DEF IInv, CommandsInv, CommandsTypeOK, Steps
<1>4. CommandsTypeOK'
  <2>1. awaited' \in Request \cup {None}
    BY <1>1, <1>2 DEF Request, Steps
  <2>2. retry' \in [Steps -> Keys \cup {None}]
    BY <1>1, <1>2 DEF IInv, CommandsInv, CommandsTypeOK
  <2>3. keys' \in 0 .. MaxKeys /\ since' \in 0 .. keys'
    BY <1>1, <1>2, CommandsAssumption DEF IInv, CommandsInv, CommandsTypeOK
  <2>. QED
    BY <1>1, <2>1, <2>2, <2>3 DEF IInv, CommandsInv, CommandsTypeOK
<1>5. AwaitedIsKept' /\ TaskHasKey'
  BY <1>1, <1>2, <1>3, CommandsAssumption DEF AwaitedIsKept, TaskHasKey, Keys
<1>6. KeysMade'
  <2>1. \A s \in Steps : retry'[s] # None => retry'[s] <= keys + 1
    BY <1>2, <1>3, CommandsAssumption DEF IInv, CommandsInv, CommandsTypeOK, KeysMade, Steps, Keys
  <2>2. \A r \in applied \cup abandoned : r.key <= keys + 1
    BY <1>2 DEF IInv, CommandsInv, CommandsTypeOK, KeysMade, Request, Keys
  <2>. QED
    BY <1>1, <2>1, <2>2 DEF KeysMade
<1>7. OneEffectPerIntention'
  <2>1. ASSUME NEW r \in applied \cup abandoned, r.key > since
        PROVE  r.key \in confirmed' \/ r.key = retry'[r.step]
    <3>1. r.step \in Steps /\ r.key \in Keys /\ (r.key \in confirmed \/ r.key = retry[r.step])
      BY <2>1 DEF IInv, CommandsInv, CommandsTypeOK, OneEffectPerIntention, Request
    <3>2. None \notin Keys
      BY CommandsAssumption DEF Keys
    <3>. QED
      BY <1>1, <1>2, <1>3, <3>1, <3>2 DEF Steps
  <2>. QED
    BY <1>1, <2>1 DEF OneEffectPerIntention
<1>8. PicksKept'
  <2>1. ASSUME NEW p \in applied \cup abandoned, p.step = "pick", p.key > since
        PROVE  \/ p.key = awaited.key
               \/ \E d \in applied : d.step = "dispatch" /\ d.task = p.key
    <3>1. p.key # None
      BY CommandsAssumption DEF IInv, CommandsInv, CommandsTypeOK, Request, Keys
    <3>. QED
      BY <1>2, <2>1, <3>1 DEF IInv, CommandsInv, PicksKept
  <2>. QED
    BY <1>1, <2>1 DEF PicksKept
<1>. QED
  BY <1>4, <1>5, <1>6, <1>7, <1>8 DEF CommandsInv

(* A request that is given up may still run, under the key that is kept.   *)
LEMMA GiveUpAdds ==
    ASSUME IInv, GiveUp
    PROVE  /\ abandoned' \subseteq Request /\ applied' \subseteq Request
           /\ keys' = keys
           /\ \A r \in abandoned' :
                r \in abandoned \/ (r \in Request /\ r = awaited /\ awaited # None)
  BY DEF GiveUp, IInv, CommandsInv, CommandsTypeOK

LEMMA FailedPreserves == ASSUME IInv, Failed PROVE CommandsInv'
<1>1. /\ GiveUp /\ awaited' = None
      /\ UNCHANGED <<applied, keys, confirmed, retry, task, since>>
  BY DEF Failed, GiveUp
<1>2. \A r \in applied' \cup abandoned' :
        r \in applied \cup abandoned \/ (r \in Request /\ r = awaited /\ awaited # None)
  BY <1>1, GiveUpAdds
<1>3. CommandsTypeOK' /\ AwaitedIsKept' /\ TaskHasKey'
  BY <1>1, GiveUpAdds DEF IInv, CommandsInv, CommandsTypeOK, AwaitedIsKept, TaskHasKey
<1>4. awaited # None => awaited.key = retry[awaited.step] /\ awaited.key \in Keys
                        /\ awaited.step \in Steps
  BY DEF IInv, CommandsInv, CommandsTypeOK, AwaitedIsKept, Request
<1>5. KeysMade'
  <2>1. awaited # None => awaited.key <= keys
    BY <1>4, CommandsAssumption DEF IInv, CommandsInv, KeysMade, Keys
  <2>. QED
    BY <1>1, <1>2, <2>1 DEF IInv, CommandsInv, KeysMade
<1>6. OneEffectPerIntention'
  BY <1>1, <1>2, <1>4 DEF IInv, CommandsInv, OneEffectPerIntention
<1>7. PicksKept'
  BY <1>1, <1>2, <1>4 DEF IInv, CommandsInv, PicksKept
<1>. QED
  BY <1>3, <1>5, <1>6, <1>7 DEF CommandsInv

LEMMA ReloadCommandsPreserves == ASSUME IInv, ReloadCommands PROVE CommandsInv'
<1>1. /\ GiveUp /\ awaited' = None /\ task' = None /\ since' = keys
      /\ retry' = [s \in Steps |-> None]
      /\ UNCHANGED <<applied, keys, confirmed>>
  BY DEF ReloadCommands, GiveUp
<1>2. \A r \in applied' \cup abandoned' :
        r \in applied \cup abandoned \/ (r \in Request /\ r = awaited /\ awaited # None)
  BY <1>1, GiveUpAdds
<1>3. CommandsTypeOK'
  BY <1>1, GiveUpAdds, CommandsAssumption DEF IInv, CommandsInv, CommandsTypeOK
<1>4. AwaitedIsKept' /\ TaskHasKey'
  BY <1>1 DEF AwaitedIsKept, TaskHasKey, Steps
<1>5. \A r \in applied' \cup abandoned' : r.key <= keys /\ ~(r.key > keys)
  <2>1. awaited # None => awaited \in Request /\ awaited.key <= keys
    BY CommandsAssumption
    DEF IInv, CommandsInv, CommandsTypeOK, AwaitedIsKept, KeysMade, Request, Keys
  <2>2. \A r \in applied \cup abandoned : r \in Request /\ r.key <= keys
    BY DEF IInv, CommandsInv, CommandsTypeOK, KeysMade
  <2>3. ASSUME NEW r \in Request PROVE r.key \in Nat
    <3>1. r.key \in Keys
      BY DEF Request
    <3>. QED
      BY <3>1 DEF Keys
  <2>4. keys \in Nat
    BY DEF IInv, CommandsInv, CommandsTypeOK
  <2>5. \A r \in applied' \cup abandoned' : r \in Request /\ r.key <= keys
    BY <1>2, <2>1, <2>2
  <2>. QED
    BY <2>3, <2>4, <2>5
<1>6. KeysMade' /\ OneEffectPerIntention' /\ PicksKept'
  BY <1>1, <1>5 DEF KeysMade, OneEffectPerIntention, PicksKept
<1>. QED
  BY <1>3, <1>4, <1>6 DEF CommandsInv

LEMMA CommandsStep == ASSUME IInv, CommandsNext PROVE CommandsInv'
  BY ClickPreserves, ApiRunsPreserves, DonePreserves, PickedPreserves, FailedPreserves
  DEF CommandsNext
-----------------------------------------------------------------------------
LEMMA GuardStays == ASSUME GuardInv, UNCHANGED <<online, guardVars>> PROVE GuardInv'
  BY DEF guardVars, GuardInv, GuardTypeOK, LoopsBounded, Loops, PollingNeverStops

LEMMA MapStays == ASSUME MapInv, UNCHANGED <<online, mapVars>> PROVE MapInv'
  BY DEF mapVars, MapInv, MapTypeOK, RetryShown, RecoveryScheduled

LEMMA CommandsStay == ASSUME CommandsInv, UNCHANGED commandVars PROVE CommandsInv'
  BY DEF commandVars, CommandsInv, CommandsTypeOK, AwaitedIsKept, TaskHasKey, KeysMade,
     OneEffectPerIntention, PicksKept

LEMMA GoOnlinePreserves == ASSUME IInv, GoOnline PROVE IInv'
<1>1. GuardInv'
  <2>1. lost \in Nat
    BY GuardAssumption DEF IInv, GuardInv, GuardTypeOK
  <2>2. Loops <= MaxLost /\ Poll(TRUE, FALSE, lost) /\ UNCHANGED <<server, page, current>>
    BY DEF GoOnline, GuardOnline
  <2>3. /\ check' \in Check \cup {None} /\ timer' \in BOOLEAN /\ lost' \in 0 .. MaxLost
        /\ LoopsBounded'
        /\ (check' # None /\ check'.by = "poll") \/ timer' \/ lost' > 0
    BY <2>1, <2>2, PollPreserves DEF IInv, Loops
  <2>. QED
    BY <2>2, <2>3 DEF IInv, GuardInv, GuardTypeOK, PollingNeverStops
<1>2. MapInv'
  BY DEF GoOnline, MapOnline, RetryMap, mapVars, IInv, MapInv, MapTypeOK, RetryShown,
     RecoveryScheduled
<1>. QED
  BY <1>1, <1>2, CommandsStay DEF GoOnline, IInv

LEMMA GoOfflinePreserves == ASSUME IInv, GoOffline PROVE IInv'
<1>1. GuardInv'
  BY DEF GoOffline, GuardOffline, IInv, GuardInv, GuardTypeOK, LoopsBounded, Loops,
     PollingNeverStops
<1>2. MapInv'
  BY DEF GoOffline, MapOffline, mapVars, IInv, MapInv, MapTypeOK, RetryShown, RecoveryScheduled
<1>. QED
  BY <1>1, <1>2, CommandsStay DEF GoOffline, IInv

LEMMA ReloadPreserves == ASSUME IInv, Reload PROVE IInv'
<1>1. GuardInv'
  <2>1. /\ server' = server /\ page' = server /\ current' = None /\ online' = online
        /\ timer' = FALSE /\ lost' = 0
        /\ check' = IF online THEN [by |-> "poll", answer |-> None] ELSE None
    BY DEF Reload, ReloadGuard
  <2>2. GuardTypeOK'
    <3>1. check' \in Check \cup {None}
      BY <2>1, FirstCheck
    <3>2. lost' = 0 /\ 0 \in 0 .. MaxLost
      BY <2>1, GuardAssumption
    <3>. QED
      BY <2>1, <3>1, <3>2 DEF IInv, GuardInv, GuardTypeOK
  <2>3. LoopsBounded'
    BY <2>1, GuardAssumption DEF LoopsBounded, Loops
  <2>4. PollingNeverStops'
    BY <2>1, FirstCheck DEF PollingNeverStops
  <2>. QED
    BY <2>2, <2>3, <2>4 DEF GuardInv
<1>2. MapInv'
  BY DEF Reload, ReloadMap, MapInv, MapTypeOK, RetryShown, RecoveryScheduled
<1>. QED
  BY <1>1, <1>2, ReloadCommandsPreserves DEF Reload, IInv

LEMMA InitIInv == Init => IInv
<1>. SUFFICES ASSUME Init PROVE IInv
  OBVIOUS
<1>1. GuardInv
  <2>1. /\ server = 1 /\ page = 1 /\ current = None /\ timer = FALSE /\ lost = 0
        /\ check = [by |-> "poll", answer |-> None]
    BY DEF Init, GuardInit
  <2>2. GuardTypeOK
    <3>1. check \in Check \cup {None}
      BY <2>1, FirstCheck
    <3>2. 1 \in Versions /\ 0 \in 0 .. MaxLost
      BY GuardAssumption DEF Versions
    <3>. QED
      BY <2>1, <3>1, <3>2 DEF GuardTypeOK
  <2>3. LoopsBounded
    BY <2>1, GuardAssumption DEF LoopsBounded, Loops
  <2>4. PollingNeverStops
    BY <2>1, FirstCheck DEF PollingNeverStops
  <2>. QED
    BY <2>2, <2>3, <2>4 DEF GuardInv
<1>2. MapInv
  BY DEF Init, MapInit, MapInv, MapTypeOK, RetryShown, RecoveryScheduled
<1>3. CommandsInv
  BY CommandsAssumption
  DEF Init, CommandsInit, CommandsInv, CommandsTypeOK, AwaitedIsKept, TaskHasKey, KeysMade,
      OneEffectPerIntention, PicksKept, Steps
<1>. QED
  BY <1>1, <1>2, <1>3 DEF Init, IInv

LEMMA NextIInv == IInv /\ [Next]_vars => IInv'
<1>. SUFFICES ASSUME IInv, [Next]_vars PROVE IInv'
  OBVIOUS
<1>1. CASE GuardNext /\ GuardOnly
  BY <1>1, GuardStep, MapStays, CommandsStay DEF GuardOnly, IInv
<1>2. CASE MapNext /\ MapOnly
  <2>1. online' = online
    BY <1>2 DEF MapNext, FailLoad, Load, Replace, RetryByHand, RetryTimerFires
  <2>. QED
    BY <1>2, <2>1, MapStep, GuardStays, CommandsStay DEF MapOnly, IInv
<1>3. CASE CommandsNext /\ UNCHANGED <<online, guardVars, mapVars>>
  BY <1>3, CommandsStep, GuardStays, MapStays DEF IInv
<1>4. CASE UNCHANGED vars
  BY <1>4, GuardStays, MapStays, CommandsStay DEF vars, IInv
<1>. QED
  BY <1>1, <1>2, <1>3, <1>4, GoOnlinePreserves, GoOfflinePreserves, ReloadPreserves DEF Next

LEMMA IInvHolds == Spec => []IInv
  BY InitIInv, NextIInv, PTL DEF Spec

(* The variables have their types; in particular the timers that are armed *)
(* stay within the number of times the network came back.                  *)
THEOREM TypeCorrect == Spec => []TypeOK
<1>1. IInv => TypeOK
  BY DEF IInv, GuardInv, MapInv, CommandsInv, TypeOK
<1>. QED
  BY <1>1, IInvHolds, PTL

(* While the browser is online a poll waits for its answer or its timer,   *)
(* however often the network came and went.                                *)
THEOREM PollingGoesOn == Spec => []PollingNeverStops
<1>1. IInv => PollingNeverStops
  BY DEF IInv, GuardInv
<1>. QED
  BY <1>1, IInvHolds, PTL

(* A map that is not there is always on its way back, whatever retries,    *)
(* late events of old instances and network events came in between.        *)
THEOREM MapIsOnItsWay == Spec => []RecoveryScheduled
<1>1. IInv => RecoveryScheduled
  BY DEF IInv, MapInv
<1>. QED
  BY <1>1, IInvHolds, PTL

(* For any number of commands, lost answers, late requests and reloads,    *)
(* what one page has sent is confirmed or is repeated under its own key.   *)
THEOREM IntentionsHaveOneEffect == Spec => []OneEffectPerIntention
<1>1. IInv => OneEffectPerIntention
  BY DEF IInv, CommandsInv
<1>. QED
  BY <1>1, IInvHolds, PTL

(* Of the picks of one page at most one waits for its dispatch, whatever   *)
(* was answered late or not at all.                                        *)
THEOREM ShippingIsFinished == Spec => []OneOpenTask
<1>1. IInv => OneOpenTask
  BY DEF IInv, CommandsInv, PicksKept, OneOpenTask
<1>. QED
  BY <1>1, IInvHolds, PTL
=============================================================================

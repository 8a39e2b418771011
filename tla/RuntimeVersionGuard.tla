------------------------ MODULE RuntimeVersionGuard ------------------------
(***************************************************************************)
(* The guard that reloads an open console when a new version of it is      *)
(* deployed: RuntimeVersionGuard.tsx, and api/runtime-version/route.ts,    *)
(* whose version is new in every process.                                  *)
(*                                                                         *)
(* poll() asks for the version and arms a timer for the next poll when the *)
(* answer is in; it keeps the identifier of the last timer only, so a      *)
(* timer that is armed over another can no longer be cancelled.  A check   *)
(* that is already under way makes every other return at once.             *)
(*                                                                         *)
(* Left out: the badge with the version, and the unmounting of the guard,  *)
(* which is part of the root layout.                                       *)
(***************************************************************************)
EXTENDS BrowserNetwork

CONSTANTS
    MaxVersion,   \* versions deployed (bound)
    MaxLost       \* timers whose identifier was overwritten (bound)

Versions == 1 .. MaxVersion
Check == [by : {"poll", "visible"}, answer : Versions \cup {None}]

ASSUME GuardAssumption ==
    /\ MaxVersion \in Nat \ {0} /\ MaxLost \in Nat
    /\ None \notin Nat /\ None \notin Check

VARIABLES
    server,       \* the version of the web process
    page,         \* the version the page's own code is from
    current,      \* currentVersion
    check,        \* the check under way: who awaits it, what was answered
    timer,        \* the timer the guard knows is armed
    lost          \* how many other timers are armed

guardVars == <<server, page, current, check, timer, lost>>

GuardInit ==
    /\ server = 1 /\ page = 1
    /\ current = None
    /\ check = [by |-> "poll", answer |-> None]
    /\ timer = FALSE
    /\ lost = 0

(* The continuation of poll() when its check is over, with t the timer and *)
(* n the lost timers that are still armed.                                 *)
Arm(isOnline, t, n) ==
    /\ timer' = (t \/ isOnline)
    /\ lost' = IF isOnline /\ t THEN n + 1 ELSE n

Poll(isOnline, t, n) ==
    IF isOnline /\ check = None
    THEN /\ check' = [by |-> "poll", answer |-> None]
         /\ timer' = t
         /\ lost' = n
    ELSE /\ Arm(isOnline, t, n)
         /\ UNCHANGED check

TimerFires ==
    /\ \/ timer /\ Poll(online, FALSE, lost)
       \/ lost > 0 /\ Poll(online, timer, lost - 1)
    /\ UNCHANGED <<server, page, current>>

(* The tab comes to the front: a check that no poll waits for.             *)
Visible ==
    /\ online /\ check = None
    /\ check' = [by |-> "visible", answer |-> None]
    /\ UNCHANGED <<server, page, current, timer, lost>>

(* The answer comes from a cache that was filled when the page was loaded. *)
VersionRouteCached ==
    /\ check # None /\ check.answer = None
    /\ check' = [check EXCEPT !.answer = page]
    /\ UNCHANGED <<server, page, current, timer, lost>>
VersionRoute ==
    /\ check # None /\ check.answer = None
    /\ check' = [check EXCEPT !.answer = server]
    /\ UNCHANGED <<server, page, current, timer, lost>>

(* checkVersion is over: what a poll does then.                            *)
CheckOver ==
    /\ check' = None
    /\ IF check.by = "poll" THEN Arm(online, timer, lost) ELSE UNCHANGED <<timer, lost>>

(* The request fails, or its answer is no version.                         *)
CheckFails ==
    /\ check # None
    /\ CheckOver
    /\ UNCHANGED <<server, page, current>>

SameVersion ==
    /\ check # None /\ check.answer # None
    /\ current \in {None, check.answer}
    /\ current' = check.answer
    /\ CheckOver
    /\ UNCHANGED <<server, page>>

NewVersion ==
    /\ check # None /\ check.answer # None
    /\ current \notin {None, check.answer}

(* window.location.reload(): the page begins again with the code the       *)
(* server has now.                                                         *)
ReloadGuard ==
    /\ page' = server
    /\ current' = None
    /\ check' = IF online THEN [by |-> "poll", answer |-> None] ELSE None
    /\ timer' = FALSE /\ lost' = 0
    /\ UNCHANGED server

(* The polls that go round besides the one whose timer is known.           *)
Loops == IF check # None /\ check.by = "poll" THEN lost + 1 ELSE lost

(* onOnline and onOffline cancel the timer they know.  MaxLost bounds how  *)
(* often the browser comes back online while polls are under way.          *)
GuardOnlineSilent ==
    /\ timer' = FALSE
    /\ UNCHANGED <<server, page, current, check, lost>>
GuardOnline ==
    /\ Loops <= MaxLost
    /\ Poll(TRUE, FALSE, lost)
    /\ UNCHANGED <<server, page, current>>

GuardOffline ==
    /\ timer' = FALSE
    /\ UNCHANGED <<server, page, current, check, lost>>

Deploy ==
    /\ server < MaxVersion
    /\ server' = server + 1
    /\ UNCHANGED <<page, current, check, timer, lost>>

GuardNext ==
    TimerFires \/ Visible \/ VersionRoute \/ CheckFails \/ SameVersion \/ Deploy
-----------------------------------------------------------------------------
GuardTypeOK ==
    /\ server \in Versions /\ page \in Versions
    /\ current \in Versions \cup {None}
    /\ check \in Check \cup {None}
    /\ timer \in BOOLEAN
    /\ lost \in 0 .. MaxLost

(* A page that is online never stops looking for a new version: a poll     *)
(* waits for its answer or for its timer, however the network came and     *)
(* went while a check was under way (RuntimeVersionGuard.tsx:37-42).       *)
PollingNeverStops ==
    online => (check # None /\ check.by = "poll") \/ timer \/ lost > 0
=============================================================================

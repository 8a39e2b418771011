---------------------------- MODULE BrowserPage ----------------------------
(***************************************************************************)
(* One page of the console: the version guard, the map and the commands    *)
(* share the network of the browser, and the guard may load the page again *)
(* at any moment, which begins the map anew and forgets the keys that were *)
(* kept for uncertain commands.                                            *)
(***************************************************************************)
EXTENDS RuntimeVersionGuard, FleetMapRecovery, ConsoleCommands

vars == <<online, guardVars, mapVars, commandVars>>

Init == online = TRUE /\ GuardInit /\ MapInit /\ CommandsInit

GoOnline ==
    /\ ~online
    /\ online' = TRUE
    /\ GuardOnline
    /\ MapOnline
    /\ UNCHANGED commandVars

GoOffline ==
    /\ online
    /\ online' = FALSE
    /\ GuardOffline /\ MapOffline
    /\ UNCHANGED commandVars

ReloadMap ==
    /\ map' = "loading"
    /\ replacing' = FALSE /\ retrying' = FALSE /\ retryTimer' = FALSE
    /\ mapError' = FALSE /\ mapRecovering' = FALSE

Reload == NewVersion /\ ReloadGuard /\ ReloadMap /\ ReloadCommands /\ UNCHANGED online

GuardOnly == UNCHANGED <<online, mapVars, commandVars>>
MapOnly == UNCHANGED <<guardVars, commandVars>>

Next ==
    \/ GuardNext /\ GuardOnly
    \/ MapNext /\ MapOnly
    \/ CommandsNext /\ UNCHANGED <<online, guardVars, mapVars>>
    \/ GoOnline \/ GoOffline \/ Reload

(* Timers fire and effects run; while the browser is online a check gets   *)
(* through now and then, and of the maps that load again and again under   *)
(* their time limit one arrives.  Nobody has to click.                     *)
Fairness ==
    /\ WF_vars(TimerFires /\ GuardOnly)
    /\ SF_vars(VersionRoute /\ GuardOnly)
    /\ SF_vars(SameVersion /\ GuardOnly)
    /\ SF_vars(Reload)
    /\ WF_vars(RetryTimerFires /\ MapOnly)
    /\ WF_vars(Replace /\ MapOnly)
    /\ WF_vars(FailLoad /\ MapOnly)
    /\ SF_vars(map = "loading" /\ Load /\ MapOnly)

Spec == Init /\ [][Next]_vars
FairSpec == Spec /\ Fairness

(* The variables have the types their comments say.                        *)
TypeOK == online \in BOOLEAN /\ GuardTypeOK /\ MapTypeOK /\ CommandsTypeOK

(* A page in a browser that stays online comes to know the version that is *)
(* deployed, whatever checks failed and whatever polls were cancelled or   *)
(* doubled before (RuntimeVersionGuard.tsx:24-42).                         *)
NewVersionSeen == <>[]online => <>[](current = server)

(* A browser that stays online gets its map back again and again, however  *)
(* often it failed and whoever retried it (FleetMap.tsx:78, 90, 142).      *)
MapComesBack == <>[]online => []<>(map = "loaded")
=============================================================================

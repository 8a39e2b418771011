-------------------------- MODULE FleetMapRecovery --------------------------
(***************************************************************************)
(* The map of the console and how it comes back: FleetMap.tsx.  A map      *)
(* instance loads or fails; a failure arms a retry with a growing delay,   *)
(* going online retries at once, and a retry replaces the instance when    *)
(* React runs the effect of the changed mapRetry, which is a step of its   *)
(* own: until then the old instance may still report.                      *)
(*                                                                         *)
(* Left out: how long a retry waits (5 seconds doubled up to 60, with a    *)
(* jitter), layers, popups and the focus after a manual retry.  mapReady   *)
(* is map = "loaded".                                                      *)
(***************************************************************************)
EXTENDS BrowserNetwork

VARIABLES
    map,          \* the instance: loading, failed (failureHandled), loaded
    replacing,    \* mapRetry was raised and its effect has not run
    retrying,     \* retryingRef
    mapError, mapRecovering,
    retryTimer    \* the timer of the recovery effect is armed

mapVars == <<map, replacing, retrying, mapError, mapRecovering, retryTimer>>

MapInit ==
    /\ map = "loading"
    /\ replacing = FALSE /\ retrying = FALSE
    /\ mapError = FALSE /\ mapRecovering = FALSE
    /\ retryTimer = FALSE

(* The effect of mapError, mapRecovering and mapRetryDelay: its cleanup    *)
(* cancels the timer, and it arms a new one while the browser is online.   *)
Recover == retryTimer' = (mapError' /\ ~mapRecovering' /\ online')

(* The retry stays under way although it has failed.                       *)
FailLoadStuck ==
    /\ map = "loading"
    /\ map' = "failed"
    /\ mapError' = TRUE /\ mapRecovering' = FALSE
    /\ UNCHANGED <<online, replacing, retrying>>
    /\ Recover

(* failLoad: an error event, or 12 seconds without a load.                 *)
FailLoad ==
    /\ map = "loading"
    /\ map' = "failed"
    /\ mapError' = TRUE /\ mapRecovering' = FALSE /\ retrying' = FALSE
    /\ UNCHANGED <<online, replacing>>
    /\ Recover

(* The load event, which a failed instance may still raise.                *)
Load ==
    /\ map # "loaded"
    /\ map' = "loaded"
    /\ mapError' = FALSE /\ mapRecovering' = FALSE
    /\ retrying' = FALSE
    /\ UNCHANGED <<online, replacing>>
    /\ Recover

RetryMap ==
    IF retrying
    THEN UNCHANGED <<replacing, retrying, mapRecovering>>
    ELSE replacing' = TRUE /\ retrying' = TRUE /\ mapRecovering' = TRUE

(* The effect of mapRetry: the old instance is removed, a new one loads.   *)
Replace ==
    /\ replacing
    /\ replacing' = FALSE
    /\ map' = "loading"
    /\ UNCHANGED <<online, retrying, mapError, mapRecovering, retryTimer>>

(* The button of the error message.                                        *)
RetryByHand ==
    /\ mapError /\ ~mapRecovering /\ online
    /\ RetryMap
    /\ UNCHANGED <<online, map, mapError>>
    /\ Recover

(* The timer has fired; offline it is not armed again.                     *)
RetryTimerFires ==
    /\ retryTimer
    /\ UNCHANGED <<online, map, mapError>>
    /\ IF online THEN RetryMap ELSE UNCHANGED <<replacing, retrying, mapRecovering>>
    /\ retryTimer' = FALSE

(* The listeners of the recovery effect; online is set by the composition. *)
MapOnlineWait == UNCHANGED mapVars
MapOnline ==
    IF mapError /\ ~mapRecovering
    THEN /\ RetryMap
         /\ UNCHANGED <<map, mapError>>
         /\ retryTimer' = FALSE
    ELSE UNCHANGED mapVars

MapOffline == UNCHANGED mapVars

MapNext == FailLoad \/ Load \/ Replace \/ RetryByHand \/ RetryTimerFires
-----------------------------------------------------------------------------
MapTypeOK ==
    /\ map \in {"loading", "failed", "loaded"}
    /\ replacing \in BOOLEAN /\ retrying \in BOOLEAN
    /\ mapError \in BOOLEAN /\ mapRecovering \in BOOLEAN
    /\ retryTimer \in BOOLEAN

(* A map that is not there is on its way back: it is loading under its     *)
(* time limit or about to be replaced, or a retry is armed, or the browser *)
(* is offline and the online event will retry; and retryingRef lets that   *)
(* retry through (FleetMap.tsx:78, 90, 135-144).                           *)
RecoveryScheduled ==
    \/ map \in {"loading", "loaded"}
    \/ replacing
    \/ retryTimer /\ ~retrying
    \/ mapError /\ ~mapRecovering /\ ~retrying /\ ~online
=============================================================================

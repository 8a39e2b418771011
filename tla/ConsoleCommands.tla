-------------------------- MODULE ConsoleCommands --------------------------
(***************************************************************************)
(* The commands of the console and how it repeats them: page.tsx:129-152.  *)
(* A command is sent under a key that is kept until the API has confirmed  *)
(* it, so that the operator's next click repeats the command instead of    *)
(* giving another one.  Shipping goods is two commands, a pick and a       *)
(* dispatch of its task; the task and the key of its dispatch are kept     *)
(* between them.                                                           *)
(*                                                                         *)
(* The API runs a key once and repeats its answer (module Warehouse shows  *)
(* this of dispatches).  A request whose answer the browser does not get,  *)
(* because of the connection or the time limit of the backend route, may   *)
(* still be run by the API later.                                          *)
(*                                                                         *)
(* Receiving and shipping goods share one busy flag.  Receiving stands for *)
(* every command of one request: creating and dispatching an order,        *)
(* recovering an event, acknowledging an alert, changing a policy, each    *)
(* with a busy flag of its own.  Messages, confirmations and reloading the *)
(* lists are left out.                                                     *)
(***************************************************************************)
EXTENDS BrowserNetwork

CONSTANT MaxKeys      \* crypto.randomUUID() calls (bound)

ASSUME CommandsAssumption == MaxKeys \in Nat /\ None \notin Nat

VARIABLES
    retry,        \* the retry references: the key of each step, or None
    task,         \* the task of warehouseDispatchRetryTaskRef, by its pick's key
    awaited,      \* the request the buttons are busy with, or None
    abandoned,    \* requests nobody waits for that the API may still run
    applied,      \* what the API has run
    keys,         \* how many keys were made
    \* History:
    confirmed,    \* keys whose command the console knows has been run
    since         \* how many keys were made before the page was loaded

commandVars == <<retry, task, awaited, abandoned, applied, keys, confirmed, since>>

Steps == {"receive", "pick", "dispatch"}
Keys == 1 .. MaxKeys
Request == [step : Steps, key : Keys, task : Keys \cup {None}]

CommandsInit ==
    /\ retry = [s \in Steps |-> None]
    /\ task = None
    /\ awaited = None
    /\ abandoned = {} /\ applied = {}
    /\ keys = 0 /\ since = 0
    /\ confirmed = {}

(* The key that is kept, or a new one.                                     *)
KeyForNew(step) == keys + 1
KeyFor(step) == IF retry[step] # None THEN retry[step] ELSE keys + 1

(* A click on a button that is neither busy nor offline.                   *)
Click(step) ==
    LET key == KeyFor(step) IN
    /\ online
    /\ awaited = None
    /\ step = "dispatch" <=> step # "receive" /\ task # None
    /\ key \in Keys
    /\ retry' = [retry EXCEPT ![step] = key]
    /\ keys' = IF key > keys THEN key ELSE keys
    /\ awaited' = [step |-> step, key |-> key,
                   task |-> IF step = "dispatch" THEN task ELSE None]
    /\ UNCHANGED <<task, abandoned, applied, confirmed, since>>

(* The API runs a request; one it has run already it only answers.         *)
ApiRuns(r) ==
    /\ r # None
    /\ applied' = applied \cup {r}
    /\ abandoned' = abandoned \ {r}
    /\ UNCHANGED <<retry, task, awaited, keys, confirmed, since>>

(* A good answer to a command of one request, or to a dispatch.            *)
Done ==
    LET r == awaited IN
    /\ r # None /\ r \in applied /\ r.step # "pick"
    /\ retry' = [retry EXCEPT ![r.step] = None]
    /\ task' = IF r.step = "dispatch" THEN None ELSE task
    /\ awaited' = None
    /\ confirmed' = confirmed \cup {r.key}
    /\ UNCHANGED <<abandoned, applied, keys, since>>

(* A good answer to a pick: the task is kept with the key of its dispatch, *)
(* which is sent at once unless the browser has gone offline.              *)
Picked ==
    LET r == awaited
        dispatch == [step |-> "dispatch", key |-> keys + 1, task |-> r.key]
    IN
    /\ r # None /\ r \in applied /\ r.step = "pick"
    /\ keys < MaxKeys
    /\ keys' = keys + 1
    /\ retry' = [retry EXCEPT !["pick"] = None, !["dispatch"] = keys + 1]
    /\ task' = r.key
    /\ awaited' = IF online THEN dispatch ELSE None
    /\ confirmed' = confirmed \cup {r.key}
    /\ UNCHANGED <<abandoned, applied, since>>

(* Anything else: a refusal, or no answer.  The key, and the task, stay.   *)
GiveUp ==
    /\ abandoned' = abandoned \cup ({awaited} \ (applied \cup {None}))
    /\ awaited' = None
    /\ UNCHANGED <<applied, keys, confirmed>>

FailedForgetful ==
    /\ awaited # None
    /\ GiveUp
    /\ task' = None
    /\ retry' = [retry EXCEPT !["dispatch"] = None]
    /\ UNCHANGED since
Failed ==
    /\ awaited # None
    /\ GiveUp
    /\ UNCHANGED <<retry, task, since>>

(* The page is loaded again: its references are gone, and so is what it    *)
(* knew of requests under way.                                             *)
ReloadCommands ==
    /\ retry' = [s \in Steps |-> None]
    /\ task' = None
    /\ GiveUp
    /\ since' = keys

CommandsNext ==
    \/ \E step \in Steps : Click(step)
    \/ \E r \in abandoned \cup {awaited} : ApiRuns(r)
    \/ Picked \/ Done \/ Failed
-----------------------------------------------------------------------------
CommandsTypeOK ==
    /\ retry \in [Steps -> Keys \cup {None}]
    /\ task \in Keys \cup {None}
    /\ awaited \in Request \cup {None}
    /\ abandoned \subseteq Request /\ applied \subseteq Request
    /\ keys \in 0 .. MaxKeys /\ since \in 0 .. keys
    /\ confirmed \subseteq Keys

(* However answers are lost and requests run late, whatever this page has  *)
(* sent is confirmed, or carries the key the next click repeats: one       *)
(* intention of the operator has one effect as long as the page lives      *)
(* (page.tsx:129-152).                                                     *)
OneEffectPerIntention ==
    \A r \in applied \cup abandoned :
        r.key > since => r.key \in confirmed \/ r.key = retry[r.step]

(* Shipping never reserves goods twice: of the tasks this page has picked, *)
(* at most the one it will dispatch next, or whose pick it will repeat, is *)
(* not dispatched (page.tsx:135).                                          *)
OneOpenTask ==
    \A p \in applied :
        p.step = "pick" /\ p.key > since =>
            \/ p.key \in {retry["pick"], task}
            \/ \E d \in applied : d.step = "dispatch" /\ d.task = p.key
=============================================================================

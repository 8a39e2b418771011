------------------------------ MODULE EventRelay ------------------------------
(***************************************************************************)
(* What the outbox promises to the services that consume its topics, with  *)
(* publishers, attempts and locks left out.  An event reaches a topic only *)
(* if its business transaction committed; it may be delivered any number   *)
(* of times, in any order relative to other events; it is confirmed, which *)
(* ends the API's responsibility for it, only after it was delivered.      *)
(***************************************************************************)
CONSTANT Events

VARIABLES
    committed,  \* events whose transaction committed
    delivered,  \* events that a topic holds at least once
    confirmed   \* events the relay no longer works on

relayVars == <<committed, delivered, confirmed>>

RelayTypeOK ==
    /\ committed \in SUBSET Events
    /\ delivered \in SUBSET committed
    /\ confirmed \in SUBSET delivered

RelayInit ==
    /\ committed = {}
    /\ delivered = {}
    /\ confirmed = {}

Commit(e) ==
    /\ e \notin committed
    /\ committed' = committed \cup {e}
    /\ UNCHANGED <<delivered, confirmed>>

Deliver(e) ==
    /\ e \in committed
    /\ delivered' = delivered \cup {e}
    /\ UNCHANGED <<committed, confirmed>>

Confirm(e) ==
    /\ e \in delivered
    /\ confirmed' = confirmed \cup {e}
    /\ UNCHANGED <<committed, delivered>>

RelayNext == \E e \in Events : Commit(e) \/ Deliver(e) \/ Confirm(e)

RelaySpec == RelayInit /\ [][RelayNext]_relayVars
=============================================================================

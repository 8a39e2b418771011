---------------------------- MODULE ConsoleSync ----------------------------
(***************************************************************************)
(* How an open console keeps its deliveries like those of the API:         *)
(* page.tsx:65-119.  Snapshots are loaded page by page beside a stream of  *)
(* updates; a load that hears an update under way is merged with the rows  *)
(* on the screen, others replace them.  A source that connects again loads *)
(* a snapshot for what it missed.                                          *)
(*                                                                         *)
(* A delivery is the number of its last update, 0 before it exists.  The   *)
(* stream of one connection keeps its order and loses nothing while it     *)
(* lives; what was under way when it is cut is lost.  The browser connects *)
(* again by itself after a cut, but not after an answer that refuses the   *)
(* stream, which is what backend/[...path]/route.ts says while the API is  *)
(* not there.                                                              *)
(*                                                                         *)
(* Left out: alerts and telemetry points, which arrive in the same way; a  *)
(* workspace other than overview and orders; deliveries that are deleted,  *)
(* delivered or beyond the 50 of the map; the message texts.               *)
(***************************************************************************)
EXTENDS BrowserNetwork, SequencesExt

CONSTANTS
    Deliveries,
    MaxUpdates,   \* updates committed (bound)
    MaxLoads,     \* loads started (bound)
    MaxCuts       \* connections cut or refused (bound)

ASSUME SyncAssumption ==
    /\ None \notin Nat
    /\ MaxUpdates \in Nat /\ MaxLoads \in Nat /\ MaxCuts \in Nat

VARIABLES
    server,             \* the rows of the API
    source,             \* the EventSource: none, connecting, open, refused
    wire,               \* what the stream has sent and the page not heard
    connectedOnce,      \* sourceConnectedOnce
    streamResyncing,
    items,              \* the rows on the screen
    knownDeliveryIds, requestedMapIds,
    routes,             \* the deliveries whose route and track are loaded
    loads,              \* the loads under way, by their number
    mapRequests,        \* the requests for routes and tracks under way
    error,              \* what the workspace says it cannot reach: none, api, map
    \* Counters and history:
    updates, started, cuts,
    streamed,           \* the last update of a delivery the stream brought
    missed              \* deliveries updated while the source reconnected,
                        \* unless the resync has failed and the page said so

rowVars == <<items, knownDeliveryIds, streamed>>
mapVars == <<requestedMapIds, routes, mapRequests>>
sourceVars == <<source, wire, connectedOnce, cuts>>
serverVars == <<server, updates>>
syncVars == <<online, serverVars, sourceVars, streamResyncing, rowVars, mapVars,
              loads, error, started, missed>>

Revisions == 0 .. MaxUpdates + 1
Connected == [connected |-> TRUE]
Update == [connected : {FALSE}, id : Deliveries, rev : Revisions]

(* A load: the rows read so far, whether the stream spoke since it began   *)
(* (deliveryStreamVersion has changed), whether its rows are on the screen *)
(* and it only waits for its map request, and whether it is the resync.    *)
NewLoad(isResync) ==
    [rows |-> [d \in Deliveries |-> None], heard |-> FALSE,
     shown |-> FALSE, resync |-> isResync]

Shown(rows) == {d \in Deliveries : rows[d] # 0}
-----------------------------------------------------------------------------
(* loadMapData, called by a load or by the stream for its own deliveries   *)
(* and by the effect of mapItems for the others on the screen.  by is the  *)
(* load that waits, Effect, or None for the stream, which does not wait.   *)
Effect == 0

LoadMapData(own, by, others) ==
    LET first == own \ requestedMapIds
        rest == others \ (requestedMapIds \cup first)
        request(ids, who) == IF ids = {} THEN <<>> ELSE <<[ids |-> ids, by |-> who]>>
    IN  IF online'
        THEN /\ requestedMapIds' = requestedMapIds \cup first \cup rest
             /\ mapRequests' = mapRequests \o request(first, by) \o request(rest, Effect)
        ELSE UNCHANGED <<requestedMapIds, mapRequests>>

Waits(n) == \E i \in DOMAIN mapRequests : mapRequests[i].by = n

(* The answer; the other one is a failure, after which the deliveries may  *)
(* be asked for again.                                                     *)
MapAnswered(i) ==
    /\ routes' = routes \cup mapRequests[i].ids
    /\ mapRequests' = RemoveAt(mapRequests, i)
    /\ UNCHANGED <<online, serverVars, sourceVars, streamResyncing, rowVars,
                   requestedMapIds, loads, error, started, missed>>

EndLoadFlagged(n) ==
    /\ loads' = [k \in DOMAIN loads \ {n} |-> loads[k]]
    /\ streamResyncing' = (streamResyncing /\ ~(loads[n].resync /\ loads[n].shown))
EndLoad(n) ==
    /\ loads' = [k \in DOMAIN loads \ {n} |-> loads[k]]
    /\ streamResyncing' = (streamResyncing /\ ~loads[n].resync)

FailLoad(n) ==
    /\ EndLoad(n)
    /\ error' = "api"
    /\ missed' = IF loads[n].resync THEN {} ELSE missed

(* What a failed request does besides: a load fails with it, the effect    *)
(* says so, the stream does not.                                           *)
MapErrorShown(by) ==
    CASE by = None -> UNCHANGED <<error, loads, streamResyncing, missed>>
      [] by = Effect -> error' = "map" /\ UNCHANGED <<loads, streamResyncing, missed>>
      [] OTHER -> FailLoad(by)

MapFailedSilently(i) ==
    /\ mapRequests' = RemoveAt(mapRequests, i)
    /\ MapErrorShown(mapRequests[i].by)
    /\ UNCHANGED <<online, serverVars, sourceVars, rowVars, requestedMapIds, routes,
                   started>>
MapFailed(i) ==
    /\ mapRequests' = RemoveAt(mapRequests, i)
    /\ requestedMapIds' = requestedMapIds \ mapRequests[i].ids
    /\ MapErrorShown(mapRequests[i].by)
    /\ UNCHANGED <<online, serverVars, sourceVars, rowVars, routes, started>>
-----------------------------------------------------------------------------
(* A page is read: one row, whatever other rows the page has.              *)
ReadPage(n) ==
    \E d \in Deliveries :
        /\ loads[n].rows[d] = None
        /\ loads' = [loads EXCEPT ![n].rows[d] = server[d]]
        /\ UNCHANGED <<online, serverVars, sourceVars, streamResyncing, rowVars,
                       mapVars, error, started, missed>>

(* What a load makes of the rows on the screen.                            *)
MergedAlways(load) == load.rows
Merged(load) ==
    IF load.heard
    THEN [d \in Deliveries |-> IF items[d] # 0 THEN items[d] ELSE load.rows[d]]
    ELSE load.rows

(* All pages are in: the rows are shown, and the load waits for the map of *)
(* its own deliveries.                                                     *)
ShowLoad(n) ==
    LET load == loads[n] IN
    /\ ~load.shown
    /\ \A d \in Deliveries : load.rows[d] # None
    /\ items' = Merged(load)
    /\ knownDeliveryIds' = Shown(items')
    /\ loads' = [loads EXCEPT ![n].shown = TRUE]
    /\ UNCHANGED <<online, serverVars, sourceVars, streamResyncing, routes, error,
                   started, streamed, missed>>
    /\ LoadMapData(Shown(load.rows), n, Shown(items'))

LoadSucceeds(n) ==
    /\ loads[n].shown /\ ~Waits(n)
    /\ EndLoad(n)
    /\ error' = IF error = "api" THEN "none" ELSE error
    /\ UNCHANGED <<online, serverVars, sourceVars, rowVars, mapVars, started, missed>>

LoadFails(n) ==
    /\ ~loads[n].shown
    /\ FailLoad(n)
    /\ UNCHANGED <<online, serverVars, sourceVars, rowVars, mapVars, started>>

Load(isResync) ==
    /\ started < MaxLoads
    /\ started' = started + 1
    /\ loads' = [n \in DOMAIN loads \cup {started'} |->
                     IF n = started' THEN NewLoad(isResync) ELSE loads[n]]
-----------------------------------------------------------------------------
(* The connected event: the first of a source finds a load under way, a    *)
(* later one loads again, unless a resync is still under way.              *)
ConnectedHeard ==
    /\ wire # <<>> /\ Head(wire) = Connected
    /\ wire' = Tail(wire)
    /\ connectedOnce' = TRUE
    /\ IF connectedOnce /\ ~streamResyncing
       THEN /\ streamResyncing' = TRUE
            /\ requestedMapIds' = {}
            /\ Load(TRUE)
       ELSE UNCHANGED <<streamResyncing, requestedMapIds, loads, started>>
    /\ UNCHANGED <<online, serverVars, source, cuts, rowVars, routes, mapRequests,
                   error, missed>>

(* The delivery-update event.                                              *)
UpdateHeard ==
    LET next == Head(wire) IN
    /\ wire # <<>> /\ ~next.connected
    /\ wire' = Tail(wire)
    /\ loads' = [n \in DOMAIN loads |-> [loads[n] EXCEPT !.heard = TRUE]]
    /\ items' = [items EXCEPT ![next.id] = next.rev]
    /\ knownDeliveryIds' = knownDeliveryIds \cup {next.id}
    /\ streamed' = [streamed EXCEPT ![next.id] = next.rev]
    /\ UNCHANGED <<online, serverVars, source, connectedOnce, cuts, streamResyncing,
                   routes, error, started, missed>>
    /\ LoadMapData({next.id} \ knownDeliveryIds, None, Shown(items'))

(* The source is cut, and connects again; or it is refused, and does not.  *)
Opened ==
    /\ source = "connecting"
    /\ source' = "open"
    /\ wire' = <<Connected>>
    /\ UNCHANGED <<online, serverVars, connectedOnce, cuts, streamResyncing, rowVars,
                   mapVars, loads, error, started, missed>>

Broken ==
    /\ cuts < MaxCuts
    /\ cuts' = cuts + 1
    /\ \/ source = "open" /\ source' = "connecting"
       \/ source = "connecting" /\ source' = "refused"
    /\ wire' = <<>>
    /\ UNCHANGED <<online, serverVars, connectedOnce, streamResyncing, rowVars,
                   mapVars, loads, error, started, missed>>

(* The network events run the effects of browserOnline.                    *)
GoOffline ==
    /\ online
    /\ online' = FALSE
    /\ source' = "none" /\ wire' = <<>>
    /\ UNCHANGED <<serverVars, connectedOnce, cuts, streamResyncing, rowVars, mapVars,
                   loads, error, started, missed>>

GoOnline ==
    /\ ~online
    /\ online' = TRUE
    /\ source' = "connecting" /\ connectedOnce' = FALSE
    /\ Load(FALSE)
    /\ LoadMapData({}, None, Shown(items))
    /\ missed' = {}
    /\ UNCHANGED <<serverVars, wire, cuts, streamResyncing, rowVars, routes, error>>

(* The operator refreshes the workspace or has dispatched an order.        *)
Refresh ==
    /\ online
    /\ Load(FALSE)
    /\ UNCHANGED <<online, serverVars, sourceVars, streamResyncing, rowVars, mapVars,
                   error, missed>>

(* A transaction of the API commits and its update is sent.                *)
Commit(d) ==
    /\ updates < MaxUpdates
    /\ updates' = updates + 1
    /\ server' = [server EXCEPT ![d] = @ + 1]
    /\ wire' = IF source = "open"
               THEN Append(wire, [connected |-> FALSE, id |-> d, rev |-> server'[d]])
               ELSE wire
    /\ missed' = IF source = "connecting" /\ connectedOnce THEN missed \cup {d} ELSE missed
    /\ UNCHANGED <<online, source, connectedOnce, cuts, streamResyncing, rowVars,
                   mapVars, loads, error, started>>
-----------------------------------------------------------------------------
SyncInit ==
    /\ online = TRUE
    /\ server \in [Deliveries -> {0, 1}]
    /\ source = "connecting" /\ wire = <<>> /\ connectedOnce = FALSE
    /\ streamResyncing = FALSE
    /\ items = [d \in Deliveries |-> 0]
    /\ knownDeliveryIds = {} /\ requestedMapIds = {}
    /\ routes = {} /\ mapRequests = <<>>
    /\ started = 1 /\ loads = [n \in {1} |-> NewLoad(FALSE)]
    /\ error = "none"
    /\ updates = 0 /\ cuts = 0
    /\ streamed = [d \in Deliveries |-> 0]
    /\ missed = {}

LoadStep ==
    \E n \in DOMAIN loads : ReadPage(n) \/ ShowLoad(n) \/ LoadSucceeds(n)
MapStep == \E i \in DOMAIN mapRequests : MapAnswered(i) \/ MapFailed(i)

SyncNext ==
    \/ LoadStep \/ MapStep
    \/ \E n \in DOMAIN loads : LoadFails(n)
    \/ ConnectedHeard \/ UpdateHeard
    \/ Opened \/ Broken \/ GoOffline \/ GoOnline \/ Refresh
    \/ \E d \in Deliveries : Commit(d)

SyncSpec == SyncInit /\ [][SyncNext]_syncVars
-----------------------------------------------------------------------------
SyncTypeOK ==
    /\ online \in BOOLEAN
    /\ server \in [Deliveries -> Revisions] /\ items \in [Deliveries -> Revisions]
    /\ source \in {"none", "connecting", "open", "refused"}
    /\ wire \in Seq({Connected} \cup Update)
    /\ requestedMapIds \subseteq Deliveries /\ routes \subseteq Deliveries
    /\ \A i \in DOMAIN mapRequests : mapRequests[i].ids \subseteq Deliveries
    /\ knownDeliveryIds = Shown(items)
    /\ missed \subseteq Deliveries

(* However many loads were under way when the stream brought an update,    *)
(* and however late they are answered, none of them puts an older row on   *)
(* the screen (page.tsx:79, progress.md:580).                              *)
StreamedRowsStay == \A d \in Deliveries : items[d] >= streamed[d]

(* A delivery that counts as requested has its route or a request under    *)
(* way: no failure leaves the map without a route nobody asks for again    *)
(* (page.tsx:65-73).                                                       *)
RequestedIsLoaded ==
    \A d \in requestedMapIds :
        d \in routes \/ \E i \in DOMAIN mapRequests : d \in mapRequests[i].ids

(* The flag that keeps a reconnection from loading a snapshot of its own   *)
(* belongs to a resync under way: none of the ways a resync ends leaves it *)
(* behind, which would be the last resync of the page (page.tsx:96).       *)
ResyncUnderWay == streamResyncing => \E n \in DOMAIN loads : loads[n].resync

(* "On SSE reconnection the snapshot is synchronised again, so that what   *)
(* was missed meanwhile is recovered" (progress.md:493): a console that is *)
(* connected, idle and without an error shows what it missed.              *)
MissedIsRecovered ==
    source = "open" /\ wire = <<>> /\ DOMAIN loads = {} /\ error = "none" =>
        \A d \in missed : items[d] = server[d]
=============================================================================

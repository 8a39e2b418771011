---------------------------- MODULE ConsoleProofs ----------------------------
(***************************************************************************)
(* The console in the browser of an operator.                              *)
(*                                                                         *)
(* What it shows (ConsoleSync), for any deliveries and any number of       *)
(* updates, loads and cuts.  Two parts of the state need an argument:      *)
(* which rows may be older than what the stream brought (Fresh), and which *)
(* load a request for the map belongs to (Waiting), on which the flag of   *)
(* the resync depends when such a request fails.  The lists of the console *)
(* (FleetView, AlertList) follow, for inputs of any size.                  *)
(*                                                                         *)
(* The session it works under (OperatorSession), for any number of logins  *)
(* and of requests in flight.  What makes its properties inductive is what *)
(* an answer in flight may still do to the cookies: Fits says it of one    *)
(* request, against the cookies as they are now.                           *)
(***************************************************************************)
EXTENDS ConsoleSync, FleetView, AlertList, OperatorSession, SequenceTheorems, TLAPS

LoadRecord ==
    [rows : [Deliveries -> Revisions \cup {None}], heard : BOOLEAN,
     shown : BOOLEAN, resync : BOOLEAN]
Request == [ids : SUBSET Deliveries, by : Nat \cup {None}]

Typed ==
    /\ SyncTypeOK
    /\ streamResyncing \in BOOLEAN
    /\ started \in Nat /\ DOMAIN loads \subseteq 1 .. started
    /\ loads \in [DOMAIN loads -> LoadRecord]
    /\ mapRequests \in Seq(Request)
    /\ streamed \in [Deliveries -> Revisions]
    /\ updates \in 0 .. MaxUpdates
    /\ \A d \in Deliveries : server[d] <= updates + 1

(* What is on the wire is something the API has committed.                 *)
OnTime(w) ==
    \A i \in DOMAIN w : ~w[i].connected => w[i].rev > 0 /\ w[i].rev <= server[w[i].id]

(* What the stream has brought is no newer than what the API has, and a    *)
(* load that has not heard the stream since it began read its rows later.  *)
Fresh ==
    /\ OnTime(wire)
    /\ \A d \in Deliveries : streamed[d] <= server[d]
    /\ \A n \in DOMAIN loads : \A d \in Deliveries :
           ~loads[n].heard /\ loads[n].rows[d] # None => streamed[d] <= loads[n].rows[d]
    /\ StreamedRowsStay

(* Only a load that has shown its rows waits for the map, for one request. *)
Waiting ==
    /\ \A i \in DOMAIN mapRequests :
           LET by == mapRequests[i].by
           IN  by \notin {None, Effect} => by \in DOMAIN loads /\ loads[by].shown
    /\ \A i, j \in DOMAIN mapRequests :
           i # j /\ mapRequests[i].by = mapRequests[j].by =>
               mapRequests[i].by \in {None, Effect}

SyncInv == Typed /\ Fresh /\ Waiting /\ RequestedIsLoaded /\ ResyncUnderWay
-----------------------------------------------------------------------------
(* A request that is over leaves the others, in their order.               *)
LEMMA Others ==
    ASSUME NEW S, NEW s \in Seq(S), NEW i \in 1 .. Len(s)
    PROVE  /\ RemoveAt(s, i) \in Seq(S)
           /\ \A j \in DOMAIN RemoveAt(s, i) :
                  /\ (IF j < i THEN j ELSE j + 1) \in DOMAIN s \ {i}
                  /\ RemoveAt(s, i)[j] = s[IF j < i THEN j ELSE j + 1]
           /\ \A k \in DOMAIN s \ {i} :
                  \E j \in DOMAIN RemoveAt(s, i) : RemoveAt(s, i)[j] = s[k]
<1>. DEFINE rest == RemoveAt(s, i)
<1>1. /\ SubSeq(s, 1, i - 1) \in Seq(S) /\ Len(SubSeq(s, 1, i - 1)) = i - 1
      /\ \A j \in 1 .. i - 1 : SubSeq(s, 1, i - 1)[j] = s[j]
  OBVIOUS
<1>2. /\ SubSeq(s, i + 1, Len(s)) \in Seq(S) /\ Len(SubSeq(s, i + 1, Len(s))) = Len(s) - i
      /\ \A j \in 1 .. Len(s) - i : SubSeq(s, i + 1, Len(s))[j] = s[i + j]
  OBVIOUS
<1>3. /\ rest \in Seq(S) /\ Len(rest) = Len(s) - 1
      /\ \A j \in 1 .. Len(s) - 1 : rest[j] = s[IF j < i THEN j ELSE j + 1]
  <2>. DEFINE before == SubSeq(s, 1, i - 1)
              after == SubSeq(s, i + 1, Len(s))
  <2>1. rest = before \o after
    BY DEF RemoveAt
  <2>2. /\ before \in Seq(S) /\ after \in Seq(S)
        /\ Len(before) = i - 1 /\ Len(after) = Len(s) - i
        /\ \A j \in 1 .. i - 1 : before[j] = s[j]
        /\ \A j \in 1 .. Len(s) - i : after[j] = s[i + j]
    BY <1>1, <1>2
  <2>. HIDE DEF before, after, rest
  <2>3. Len(s) \in Nat /\ Len(before) + Len(after) = Len(s) - 1
    BY <2>2
  <2>4. /\ rest \in Seq(S) /\ Len(rest) = Len(s) - 1
        /\ \A j \in 1 .. Len(s) - 1 :
               rest[j] = IF j <= i - 1 THEN before[j] ELSE after[j - (i - 1)]
    <3>1. /\ rest \in Seq(S) /\ Len(rest) = Len(before) + Len(after)
          /\ \A j \in 1 .. Len(before) + Len(after) :
                 rest[j] = IF j <= Len(before) THEN before[j] ELSE after[j - Len(before)]
      BY <2>1, <2>2, ConcatProperties
    <3>. QED
      BY <2>2, <2>3, <3>1
  <2>5. ASSUME NEW j \in 1 .. Len(s) - 1 PROVE rest[j] = s[IF j < i THEN j ELSE j + 1]
    <3>1. CASE j <= i - 1
      <4>1. j \in 1 .. i - 1 /\ j < i
        BY <2>3, <3>1
      <4>. QED
        BY <2>2, <2>4, <3>1, <4>1
    <3>2. CASE ~(j <= i - 1)
      <4>1. j - (i - 1) \in 1 .. Len(s) - i /\ i + (j - (i - 1)) = j + 1 /\ ~(j < i)
        BY <2>3, <3>2
      <4>. QED
        BY <2>2, <2>4, <3>2, <4>1
    <3>. QED
      BY <3>1, <3>2
  <2>. QED
    BY <2>4, <2>5
<1>. HIDE DEF rest
<1>4. DOMAIN rest = 1 .. Len(s) - 1 /\ Len(s) \in Nat /\ DOMAIN s = 1 .. Len(s)
  BY <1>3
<1>5. ASSUME NEW k \in DOMAIN s \ {i}
      PROVE  \E j \in DOMAIN rest : rest[j] = s[k]
  <2>1. CASE k < i
    BY <1>3, <1>4, <2>1
  <2>2. CASE k > i
    <3>1. k - 1 \in DOMAIN rest /\ ~(k - 1 < i) /\ k - 1 + 1 = k
      BY <1>4, <2>2
    <3>. QED
      BY <1>3, <1>4, <3>1
  <2>. QED
    BY <1>4, <2>1, <2>2
<1>6. ASSUME NEW j \in DOMAIN rest PROVE (IF j < i THEN j ELSE j + 1) \in DOMAIN s \ {i}
  BY <1>4
<1>. QED
  BY <1>3, <1>4, <1>5, <1>6 DEF rest

LEMMA RequestIds ==
    ASSUME NEW s \in Seq(Request)
    PROVE  \A i \in DOMAIN s : s[i].ids \subseteq Deliveries
<1>1. \A i \in DOMAIN s : s[i] \in Request
  OBVIOUS
<1>. QED
  BY <1>1 DEF Request

LEMMA OneMore ==
    ASSUME NEW s \in Seq(Request), NEW r \in Request, NEW t, t = s \o <<r>>
    PROVE  /\ t \in Seq(Request) /\ Len(t) = Len(s) + 1
           /\ \A i \in 1 .. Len(s) : t[i] = s[i]
           /\ t[Len(s) + 1] = r
  OBVIOUS

(* New requests: those of before stay, at most one of the new ones belongs *)
(* to by, and whatever counts as requested now is in one of them.          *)
LEMMA MapRequestsGrow ==
    ASSUME Typed, NEW own \in SUBSET Deliveries, NEW others \in SUBSET Deliveries,
           NEW by \in Nat \cup {None}, LoadMapData(own, by, others)
    PROVE  /\ requestedMapIds' \subseteq Deliveries
           /\ mapRequests' \in Seq(Request)
           /\ DOMAIN mapRequests \subseteq DOMAIN mapRequests'
           /\ \A i \in DOMAIN mapRequests : mapRequests'[i] = mapRequests[i]
           /\ \A i \in DOMAIN mapRequests' \ DOMAIN mapRequests :
                  mapRequests'[i].by \in {by, Effect}
           /\ \A i, j \in DOMAIN mapRequests' \ DOMAIN mapRequests :
                  i # j /\ mapRequests'[i].by = mapRequests'[j].by =>
                      mapRequests'[i].by = Effect
           /\ \A d \in requestedMapIds' \ requestedMapIds :
                  \E i \in DOMAIN mapRequests' : d \in mapRequests'[i].ids
<1>. DEFINE first == own \ requestedMapIds
            rest == others \ (requestedMapIds \cup first)
            one == [ids |-> first, by |-> by]
            two == [ids |-> rest, by |-> Effect]
            n == Len(mapRequests)
<1>0. /\ mapRequests \in Seq(Request) /\ requestedMapIds \subseteq Deliveries
      /\ n \in Nat /\ DOMAIN mapRequests = 1 .. n
  BY DEF Typed, SyncTypeOK
<1>1. /\ one \in Request /\ one.ids = first /\ one.by = by
      /\ two \in Request /\ two.ids = rest /\ two.by = Effect
  BY DEF Request, Effect
<1>2. CASE ~online'
  BY <1>0, <1>2 DEF LoadMapData
<1>3. CASE online'
  <2>1. /\ requestedMapIds' = requestedMapIds \cup first \cup rest
        /\ requestedMapIds' \subseteq Deliveries
        /\ mapRequests' = (mapRequests \o (IF first = {} THEN <<>> ELSE <<one>>))
                             \o (IF rest = {} THEN <<>> ELSE <<two>>)
    BY <1>0, <1>3 DEF LoadMapData
  <2>. HIDE DEF one, two, first, rest
  <2>2. CASE first = {} /\ rest = {}
    <3>1. mapRequests' = mapRequests
      BY <1>0, <2>1, <2>2
    <3>. QED
      BY <1>0, <2>1, <2>2, <3>1
  <2>3. CASE first # {} /\ rest = {}
    <3>1. mapRequests' = mapRequests \o <<one>>
      BY <1>0, <1>1, <2>1, <2>3
    <3>2. /\ mapRequests' \in Seq(Request) /\ Len(mapRequests') = n + 1
          /\ \A i \in 1 .. n : mapRequests'[i] = mapRequests[i]
          /\ mapRequests'[n + 1] = one
      BY <1>0, <1>1, <3>1, OneMore
    <3>. QED
      BY <1>0, <1>1, <2>1, <2>3, <3>2, SMTT(30)
  <2>4. CASE first = {} /\ rest # {}
    <3>1. mapRequests' = mapRequests \o <<two>>
      BY <1>0, <1>1, <2>1, <2>4
    <3>2. /\ mapRequests' \in Seq(Request) /\ Len(mapRequests') = n + 1
          /\ \A i \in 1 .. n : mapRequests'[i] = mapRequests[i]
          /\ mapRequests'[n + 1] = two
      BY <1>0, <1>1, <3>1, OneMore
    <3>. QED
      BY <1>0, <1>1, <2>1, <2>4, <3>2, SMTT(30)
  <2>5. CASE first # {} /\ rest # {}
    <3>. DEFINE half == mapRequests \o <<one>>
    <3>1. mapRequests' = half \o <<two>>
      BY <2>1, <2>5
    <3>2. /\ half \in Seq(Request) /\ Len(half) = n + 1
          /\ \A i \in 1 .. n : half[i] = mapRequests[i]
          /\ half[n + 1] = one
      BY <1>0, <1>1, OneMore
    <3>. HIDE DEF half
    <3>3. /\ mapRequests' \in Seq(Request) /\ Len(mapRequests') = Len(half) + 1
          /\ \A i \in 1 .. Len(half) : mapRequests'[i] = half[i]
          /\ mapRequests'[Len(half) + 1] = two
      BY <1>1, <3>1, <3>2, OneMore
    <3>4. /\ Len(mapRequests') = n + 2
          /\ \A i \in 1 .. n : mapRequests'[i] = mapRequests[i]
          /\ mapRequests'[n + 1] = one /\ mapRequests'[n + 2] = two
      BY <1>0, <3>2, <3>3
    <3>5. /\ DOMAIN mapRequests' = 1 .. n + 2
          /\ \A i \in DOMAIN mapRequests' \ DOMAIN mapRequests : i = n + 1 \/ i = n + 2
      BY <1>0, <3>3, <3>4
    <3>6. ASSUME NEW d \in requestedMapIds' \ requestedMapIds
          PROVE  \E i \in DOMAIN mapRequests' : d \in mapRequests'[i].ids
      <4>1. d \in one.ids \/ d \in two.ids
        BY <1>1, <2>1
      <4>2. n + 1 \in DOMAIN mapRequests' /\ n + 2 \in DOMAIN mapRequests'
        BY <1>0, <3>5
      <4>. QED
        BY <3>4, <4>1, <4>2
    <3>7. /\ \A i \in DOMAIN mapRequests' \ DOMAIN mapRequests :
                 mapRequests'[i].by \in {by, Effect}
          /\ \A i, j \in DOMAIN mapRequests' \ DOMAIN mapRequests :
                 i # j /\ mapRequests'[i].by = mapRequests'[j].by =>
                     mapRequests'[i].by = Effect
      BY <1>0, <1>1, <3>4, <3>5
    <3>8. DOMAIN mapRequests \subseteq DOMAIN mapRequests'
      BY <1>0, <3>5
    <3>. QED
      BY <1>0, <2>1, <3>3, <3>4, <3>6, <3>7, <3>8
  <2>. QED
    BY <2>2, <2>3, <2>4, <2>5
<1>. QED
  BY <1>2, <1>3

(* Both bring about what the invariant says of the requests, for a new one *)
(* that belongs to nobody, to the effect, or to a load that has shown its  *)
(* rows and had none.                                                      *)
LEMMA RequestsKeep ==
    ASSUME SyncInv, NEW own \in SUBSET Deliveries, NEW others \in SUBSET Deliveries,
           NEW by \in Nat \cup {None}, LoadMapData(own, by, others), UNCHANGED routes,
           \A n \in DOMAIN loads : n \in DOMAIN loads' /\ (loads[n].shown => loads'[n].shown),
           by \notin {None, Effect} =>
               by \in DOMAIN loads' /\ loads'[by].shown /\ ~Waits(by)
    PROVE  Waiting' /\ RequestedIsLoaded'
<1>1. Waiting'
  <2>1. ASSUME NEW i \in DOMAIN mapRequests', mapRequests'[i].by \notin {None, Effect}
        PROVE  mapRequests'[i].by \in DOMAIN loads' /\ loads'[mapRequests'[i].by].shown
    <3>1. CASE i \in DOMAIN mapRequests
      BY <2>1, <3>1, MapRequestsGrow DEF SyncInv, Waiting
    <3>2. CASE i \notin DOMAIN mapRequests
      <4>1. mapRequests'[i].by \in {by, Effect}
        BY <3>2, MapRequestsGrow DEF SyncInv
      <4>. QED
        BY <2>1, <4>1
    <3>. QED
      BY <3>1, <3>2
  <2>2. ASSUME NEW i \in DOMAIN mapRequests', NEW j \in DOMAIN mapRequests',
               i # j, mapRequests'[i].by = mapRequests'[j].by
        PROVE  mapRequests'[i].by \in {None, Effect}
    <3>1. CASE i \in DOMAIN mapRequests /\ j \in DOMAIN mapRequests
      BY <2>2, <3>1, MapRequestsGrow DEF SyncInv, Waiting
    <3>2. CASE i \notin DOMAIN mapRequests /\ j \notin DOMAIN mapRequests
      BY <2>2, <3>2, MapRequestsGrow DEF SyncInv
    <3>3. CASE i \in DOMAIN mapRequests /\ j \notin DOMAIN mapRequests
      BY <2>2, <3>3, MapRequestsGrow DEF SyncInv, Waits
    <3>4. CASE i \notin DOMAIN mapRequests /\ j \in DOMAIN mapRequests
      <4>1. mapRequests'[i].by \in {by, Effect} /\ mapRequests'[j] = mapRequests[j]
        BY <3>4, MapRequestsGrow DEF SyncInv
      <4>2. mapRequests'[i].by = by => by \in {None, Effect}
        BY <2>2, <3>4, <4>1 DEF Waits
      <4>. QED
        BY <4>1, <4>2
    <3>. QED
      BY <3>1, <3>2, <3>3, <3>4
  <2>. QED
    BY <2>1, <2>2 DEF Waiting, Effect
<1>2. RequestedIsLoaded'
  BY MapRequestsGrow DEF SyncInv, RequestedIsLoaded
<1>. QED
  BY <1>1, <1>2
-----------------------------------------------------------------------------
LEMMA LoadBegins ==
    ASSUME SyncInv, NEW resync \in BOOLEAN, Load(resync)
    PROVE  /\ started' \in Nat /\ DOMAIN loads' \subseteq 1 .. started'
           /\ loads' \in [DOMAIN loads' -> LoadRecord]
           /\ DOMAIN loads' = DOMAIN loads \cup {started'} /\ started' \notin DOMAIN loads
           /\ loads'[started'] = NewLoad(resync)
           /\ \A n \in DOMAIN loads : loads'[n] = loads[n]
<1>1. /\ started' \in Nat /\ started' \notin DOMAIN loads /\ started' = started + 1
      /\ DOMAIN loads \subseteq 1 .. started /\ started \in Nat
  BY DEF SyncInv, Typed, Load
<1>2. NewLoad(resync) \in LoadRecord
  BY DEF NewLoad, LoadRecord
<1>3. loads' = [n \in DOMAIN loads \cup {started'} |->
                   IF n = started' THEN NewLoad(resync) ELSE loads[n]]
  BY DEF Load
<1>4. loads \in [DOMAIN loads -> LoadRecord]
  BY DEF SyncInv, Typed
<1>. HIDE DEF LoadRecord
<1>. QED
  BY <1>1, <1>2, <1>3, <1>4

(* A load begins with the rows on the screen as they are: it has read      *)
(* nothing, and no request is its own.                                     *)
LEMMA LoadBeginsFresh ==
    ASSUME SyncInv, NEW resync \in BOOLEAN, Load(resync),
           UNCHANGED <<server, items, streamed>>,
           OnTime(wire')
    PROVE  Fresh'
<1>1. \A d \in Deliveries : loads'[started'].rows[d] = None
  <2>1. loads'[started'] = NewLoad(resync)
    BY LoadBegins
  <2>. QED
    BY <2>1 DEF NewLoad
<1>. QED
  BY <1>1, LoadBegins DEF SyncInv, Fresh, OnTime, StreamedRowsStay

(* What ends a load: its answer or a failure.                              *)
LEMMA LoadEnds ==
    ASSUME SyncInv, NEW n \in DOMAIN loads, EndLoad(n)
    PROVE  /\ DOMAIN loads' = DOMAIN loads \ {n} /\ DOMAIN loads' \subseteq 1 .. started
           /\ loads' \in [DOMAIN loads' -> LoadRecord]
           /\ \A k \in DOMAIN loads' : loads'[k] = loads[k]
           /\ streamResyncing' \in BOOLEAN
           /\ ResyncUnderWay'
<1>1. /\ DOMAIN loads' = DOMAIN loads \ {n}
      /\ \A k \in DOMAIN loads' : loads'[k] = loads[k]
      /\ loads' \in [DOMAIN loads' -> LoadRecord]
  BY DEF EndLoad, SyncInv, Typed
<1>2. streamResyncing' = (streamResyncing /\ ~loads[n].resync) /\ streamResyncing \in BOOLEAN
  BY DEF EndLoad, SyncInv, Typed
<1>3. ResyncUnderWay'
  BY <1>1, <1>2 DEF SyncInv, ResyncUnderWay
<1>. QED
  BY <1>1, <1>2, <1>3 DEF SyncInv, Typed

LEMMA FreshWithFewerLoads ==
    ASSUME SyncInv, UNCHANGED <<server, wire, items, streamed>>,
           DOMAIN loads' \subseteq DOMAIN loads,
           \A n \in DOMAIN loads' : loads'[n] = loads[n]
    PROVE  Fresh'
  BY DEF SyncInv, Fresh, OnTime, StreamedRowsStay

(* A page read: the rows of one load become newer.                         *)
LEMMA ReadPageKeeps == ASSUME SyncInv, NEW n \in DOMAIN loads, ReadPage(n) PROVE SyncInv'
<1>. USE SyncAssumption
<1>1. PICK d \in Deliveries : loads' = [loads EXCEPT ![n].rows[d] = server[d]]
  BY DEF ReadPage
<1>2. Typed'
  <2>1. loads' \in [DOMAIN loads' -> LoadRecord] /\ DOMAIN loads' = DOMAIN loads
    <3>1. loads[n] \in LoadRecord /\ server[d] \in Revisions
      BY DEF SyncInv, Typed, SyncTypeOK
    <3>. QED
      BY <1>1, <3>1 DEF SyncInv, Typed, LoadRecord
  <2>. QED
    BY <2>1 DEF SyncInv, Typed, SyncTypeOK, ReadPage, serverVars, sourceVars, rowVars, mapVars, Shown
<1>3. Fresh'
  BY <1>1 DEF SyncInv, Typed, SyncTypeOK, LoadRecord, Fresh, OnTime, StreamedRowsStay, ReadPage, serverVars,
     sourceVars, rowVars, mapVars
<1>4. Waiting'
  BY <1>1 DEF SyncInv, Typed, LoadRecord, Waiting, ReadPage, mapVars
<1>5. RequestedIsLoaded'
  BY DEF SyncInv, RequestedIsLoaded, ReadPage, mapVars
<1>6. ResyncUnderWay'
  BY <1>1 DEF SyncInv, Typed, LoadRecord, ResyncUnderWay, ReadPage
<1>. QED
  BY <1>2, <1>3, <1>4, <1>5, <1>6 DEF SyncInv

(* The rows of a load are shown: those of a load that heard the stream     *)
(* under the rows on the screen, others as they are.                       *)
LEMMA ShowLoadKeeps == ASSUME SyncInv, NEW n \in DOMAIN loads, ShowLoad(n) PROVE SyncInv'
<1>. USE SyncAssumption
<1>1. /\ loads[n] \in LoadRecord /\ loads[n].rows \in [Deliveries -> Revisions]
      /\ items \in [Deliveries -> Revisions]
  BY DEF SyncInv, Typed, SyncTypeOK, LoadRecord, ShowLoad
<1>2. items' \in [Deliveries -> Revisions]
  BY <1>1 DEF ShowLoad, Merged
<1>3. /\ loads' = [loads EXCEPT ![n].shown = TRUE]
      /\ Shown(loads[n].rows) \in SUBSET Deliveries /\ Shown(items') \in SUBSET Deliveries
      /\ LoadMapData(Shown(loads[n].rows), n, Shown(items'))
      /\ n \in Nat \cup {None}
  BY DEF ShowLoad, Shown, SyncInv, Typed
<1>4. Typed'
  <2>1. loads' \in [DOMAIN loads' -> LoadRecord] /\ DOMAIN loads' = DOMAIN loads
    BY <1>1, <1>3 DEF LoadRecord, SyncInv, Typed
  <2>2. requestedMapIds' \subseteq Deliveries /\ mapRequests' \in Seq(Request)
    BY <1>3, MapRequestsGrow DEF SyncInv
  <2>3. \A i \in DOMAIN mapRequests' : mapRequests'[i].ids \subseteq Deliveries
    BY <2>2, RequestIds
  <2>. QED
    BY <1>2, <2>1, <2>2, <2>3 DEF SyncInv, Typed, SyncTypeOK, ShowLoad, Shown, serverVars, sourceVars
<1>5. StreamedRowsStay'
  BY <1>1 DEF SyncInv, Fresh, OnTime, StreamedRowsStay, Merged, ShowLoad, Typed, Revisions
<1>6. Fresh'
  BY <1>3, <1>5 DEF SyncInv, Typed, LoadRecord, Fresh, OnTime, ShowLoad, serverVars, sourceVars
<1>7. ~Waits(n) /\ loads'[n].shown
  BY <1>1, <1>3 DEF SyncInv, Typed, Waiting, Waits, ShowLoad, Effect, LoadRecord
<1>8. Waiting' /\ RequestedIsLoaded'
  <2>1. \A k \in DOMAIN loads : k \in DOMAIN loads' /\ (loads[k].shown => loads'[k].shown)
    BY <1>3, <1>7
  <2>2. UNCHANGED routes
    BY DEF ShowLoad
  <2>. QED
    BY <1>3, <1>7, <2>1, <2>2, RequestsKeep
<1>9. ResyncUnderWay'
  BY <1>1, <1>3 DEF SyncInv, Typed, LoadRecord, ResyncUnderWay, ShowLoad
<1>. QED
  BY <1>4, <1>6, <1>8, <1>9 DEF SyncInv

LEMMA LoadSucceedsKeeps == ASSUME SyncInv, NEW n \in DOMAIN loads, LoadSucceeds(n) PROVE SyncInv'
<1>. USE SyncAssumption
<1>1. EndLoad(n) /\ ~Waits(n)
  BY DEF LoadSucceeds
<1>2. Typed'
  BY <1>1, LoadEnds DEF SyncInv, Typed, SyncTypeOK, LoadSucceeds, serverVars, sourceVars, rowVars,
     mapVars, Shown
<1>3. Fresh'
  BY <1>1, LoadEnds, FreshWithFewerLoads DEF LoadSucceeds, serverVars, sourceVars, rowVars
<1>4. Waiting'
  BY <1>1, LoadEnds DEF SyncInv, Waiting, Waits, LoadSucceeds, mapVars, Effect
<1>5. RequestedIsLoaded'
  BY DEF SyncInv, RequestedIsLoaded, LoadSucceeds, mapVars
<1>. QED
  BY <1>1, <1>2, <1>3, <1>4, <1>5, LoadEnds DEF SyncInv

LEMMA LoadFailsKeeps == ASSUME SyncInv, NEW n \in DOMAIN loads, LoadFails(n) PROVE SyncInv'
<1>. USE SyncAssumption
<1>1. EndLoad(n) /\ ~loads[n].shown /\ missed' \subseteq Deliveries
  BY DEF LoadFails, FailLoad, SyncInv, Typed, SyncTypeOK
<1>2. Typed'
  BY <1>1, LoadEnds DEF SyncInv, Typed, SyncTypeOK, LoadFails, serverVars, sourceVars, rowVars,
     mapVars, Shown
<1>3. Fresh'
  BY <1>1, LoadEnds, FreshWithFewerLoads DEF LoadFails, serverVars, sourceVars, rowVars
<1>4. Waiting'
  BY <1>1, LoadEnds DEF SyncInv, Waiting, LoadFails, mapVars, Effect
<1>5. RequestedIsLoaded'
  BY DEF SyncInv, RequestedIsLoaded, LoadFails, mapVars
<1>. QED
  BY <1>1, <1>2, <1>3, <1>4, <1>5, LoadEnds DEF SyncInv

(* A request is over, and with it at most the load that waited for it.     *)
LEMMA RequestOver ==
    ASSUME SyncInv, NEW i \in DOMAIN mapRequests, mapRequests' = RemoveAt(mapRequests, i),
           DOMAIN loads' \subseteq DOMAIN loads,
           \A n \in DOMAIN loads' : loads'[n] = loads[n],
           \A n \in DOMAIN loads \ DOMAIN loads' : n = mapRequests[i].by
    PROVE  /\ mapRequests' \in Seq(Request)
           /\ \A j \in DOMAIN mapRequests' : mapRequests'[j].ids \subseteq Deliveries
           /\ \A k \in DOMAIN mapRequests \ {i} :
                  \E j \in DOMAIN mapRequests' : mapRequests'[j] = mapRequests[k]
           /\ Waiting'
<1>. DEFINE old(j) == IF j < i THEN j ELSE j + 1
<1>0. mapRequests \in Seq(Request) /\ i \in 1 .. Len(mapRequests)
  BY DEF SyncInv, Typed
<1>1. /\ mapRequests' \in Seq(Request)
      /\ \A j \in DOMAIN mapRequests' :
             old(j) \in DOMAIN mapRequests \ {i} /\ mapRequests'[j] = mapRequests[old(j)]
      /\ \A k \in DOMAIN mapRequests \ {i} :
             \E j \in DOMAIN mapRequests' : mapRequests'[j] = mapRequests[k]
  BY <1>0, Others
<1>2. \A j, k \in DOMAIN mapRequests' : j # k => old(j) # old(k)
  BY <1>0, <1>1
<1>. HIDE DEF old
<1>3. ASSUME NEW j \in DOMAIN mapRequests', mapRequests'[j].by \notin {None, Effect}
      PROVE  mapRequests'[j].by \in DOMAIN loads' /\ loads'[mapRequests'[j].by].shown
  <2>1. /\ old(j) \in DOMAIN mapRequests /\ old(j) # i
        /\ mapRequests'[j].by = mapRequests[old(j)].by
    BY <1>1
  <2>2. mapRequests[old(j)].by \in DOMAIN loads /\ loads[mapRequests[old(j)].by].shown
    BY <1>3, <2>1 DEF SyncInv, Waiting
  <2>3. mapRequests[old(j)].by # mapRequests[i].by
    BY <1>3, <2>1 DEF SyncInv, Waiting
  <2>. QED
    BY <2>1, <2>2, <2>3
<1>4. ASSUME NEW j \in DOMAIN mapRequests', NEW k \in DOMAIN mapRequests',
             j # k, mapRequests'[j].by = mapRequests'[k].by
      PROVE  mapRequests'[j].by \in {None, Effect}
  <2>1. /\ old(j) \in DOMAIN mapRequests /\ old(k) \in DOMAIN mapRequests /\ old(j) # old(k)
        /\ mapRequests'[j].by = mapRequests[old(j)].by
        /\ mapRequests'[k].by = mapRequests[old(k)].by
    BY <1>1, <1>2, <1>4
  <2>. QED
    BY <1>4, <2>1 DEF SyncInv, Waiting
<1>5. Waiting'
  BY <1>3, <1>4 DEF Waiting, Effect
<1>. QED
  BY <1>1, <1>5, RequestIds

LEMMA MapAnsweredKeeps == ASSUME SyncInv, NEW i \in DOMAIN mapRequests, MapAnswered(i) PROVE SyncInv'
<1>. USE SyncAssumption
<1>1. /\ mapRequests' \in Seq(Request)
      /\ \A j \in DOMAIN mapRequests' : mapRequests'[j].ids \subseteq Deliveries
      /\ \A k \in DOMAIN mapRequests \ {i} :
             \E j \in DOMAIN mapRequests' : mapRequests'[j] = mapRequests[k]
      /\ Waiting'
  BY RequestOver DEF MapAnswered
<1>2. routes' = routes \cup mapRequests[i].ids /\ routes' \subseteq Deliveries
  BY DEF SyncInv, Typed, SyncTypeOK, MapAnswered
<1>3. Typed'
  BY <1>1, <1>2 DEF SyncInv, Typed, SyncTypeOK, MapAnswered, serverVars, sourceVars, rowVars, Shown
<1>4. Fresh'
  BY FreshWithFewerLoads DEF MapAnswered, serverVars, sourceVars, rowVars
<1>5. RequestedIsLoaded'
  BY <1>1, <1>2 DEF SyncInv, RequestedIsLoaded, MapAnswered
<1>6. ResyncUnderWay'
  BY DEF SyncInv, ResyncUnderWay, MapAnswered
<1>. QED
  BY <1>1, <1>3, <1>4, <1>5, <1>6 DEF SyncInv

(* The failure of a request lets its deliveries be asked for again, and    *)
(* ends the load that waited for it; the flag goes with the resync.        *)
LEMMA MapFailedKeeps == ASSUME SyncInv, NEW i \in DOMAIN mapRequests, MapFailed(i) PROVE SyncInv'
<1>. USE SyncAssumption
<1>. DEFINE by == mapRequests[i].by
<1>0. /\ mapRequests' = RemoveAt(mapRequests, i)
      /\ requestedMapIds' = requestedMapIds \ mapRequests[i].ids
  BY DEF MapFailed
<1>1. /\ DOMAIN loads' \subseteq DOMAIN loads /\ loads' \in [DOMAIN loads' -> LoadRecord]
      /\ \A n \in DOMAIN loads' : loads'[n] = loads[n]
      /\ \A n \in DOMAIN loads \ DOMAIN loads' : n = by
      /\ streamResyncing' \in BOOLEAN /\ missed' \subseteq Deliveries
      /\ ResyncUnderWay'
  <2>1. CASE by \in {None, Effect}
    <3>1. UNCHANGED <<loads, streamResyncing, missed>>
      BY <2>1 DEF MapFailed, MapErrorShown
    <3>. QED
      BY <3>1 DEF SyncInv, Typed, SyncTypeOK, ResyncUnderWay
  <2>2. CASE by \notin {None, Effect}
    <3>1. by \in DOMAIN loads
      BY <2>2 DEF SyncInv, Waiting
    <3>2. FailLoad(by)
      BY <2>2 DEF MapFailed, MapErrorShown
    <3>3. missed' \subseteq Deliveries
      BY <3>2 DEF FailLoad, SyncInv, Typed, SyncTypeOK
    <3>. QED
      BY <3>1, <3>2, <3>3, LoadEnds DEF FailLoad
  <2>. QED
    BY <2>1, <2>2
<1>2. /\ mapRequests' \in Seq(Request)
      /\ \A j \in DOMAIN mapRequests' : mapRequests'[j].ids \subseteq Deliveries
      /\ \A k \in DOMAIN mapRequests \ {i} :
             \E j \in DOMAIN mapRequests' : mapRequests'[j] = mapRequests[k]
      /\ Waiting'
  BY <1>0, <1>1, RequestOver
<1>. HIDE DEF by
<1>3. DOMAIN loads' \subseteq 1 .. started' /\ started' = started
  BY <1>1 DEF MapFailed, SyncInv, Typed
<1>4. Typed'
  BY <1>0, <1>1, <1>2, <1>3 DEF SyncInv, Typed, SyncTypeOK, MapFailed, serverVars, sourceVars,
     rowVars, Shown
<1>5. Fresh'
  BY <1>1, FreshWithFewerLoads DEF MapFailed, serverVars, sourceVars, rowVars
<1>6. RequestedIsLoaded'
  BY <1>0, <1>2 DEF SyncInv, RequestedIsLoaded, MapFailed
<1>. QED
  BY <1>1, <1>2, <1>4, <1>5, <1>6 DEF SyncInv
-----------------------------------------------------------------------------
(* What of the wire is left, or there is when it begins anew, is as much   *)
(* on time as what there was.                                              *)
OnWire == Seq({Connected} \cup Update)

LEMMA WireStays ==
    ASSUME SyncInv
    PROVE  /\ wire \in OnWire /\ OnTime(wire)
           /\ wire # <<>> => /\ Head(wire) \in {Connected} \cup Update
                            /\ Tail(wire) \in OnWire /\ OnTime(Tail(wire))
           /\ <<>> \in OnWire /\ OnTime(<<>>)
           /\ <<Connected>> \in OnWire /\ OnTime(<<Connected>>)
<1>1. wire \in OnWire /\ OnTime(wire)
  BY DEF SyncInv, Typed, SyncTypeOK, Fresh, OnWire, OnTime
<1>2. ASSUME wire # <<>>
      PROVE  /\ Head(wire) \in {Connected} \cup Update
             /\ Tail(wire) \in OnWire /\ OnTime(Tail(wire))
  <2>1. /\ Head(wire) \in {Connected} \cup Update /\ Tail(wire) \in OnWire
        /\ \A i \in DOMAIN Tail(wire) : i + 1 \in DOMAIN wire /\ Tail(wire)[i] = wire[i + 1]
    <3>. HIDE DEF Connected, Update
    <3>. QED
      BY <1>1, <1>2 DEF OnWire
  <2>. QED
    BY <1>1, <2>1 DEF OnTime
<1>3. <<>> \in OnWire /\ OnTime(<<>>)
  BY DEF OnWire, OnTime
<1>4. <<Connected>> \in OnWire
  BY DEF OnWire
<1>5. OnTime(<<Connected>>)
  BY DEF OnTime, Connected
<1>. QED
  BY <1>1, <1>2, <1>3, <1>4, <1>5

LEMMA ConnectedHeardKeeps == ASSUME SyncInv, ConnectedHeard PROVE SyncInv'
<1>. USE SyncAssumption
<1>1. /\ wire' \in OnWire /\ OnTime(wire') /\ connectedOnce' \in BOOLEAN
      /\ UNCHANGED <<online, server, updates, source, cuts, items, knownDeliveryIds, streamed,
                     routes, mapRequests, missed>>
  BY WireStays DEF ConnectedHeard, serverVars, rowVars
<1>2. CASE connectedOnce /\ ~streamResyncing
  <2>1. Load(TRUE) /\ streamResyncing' = TRUE /\ requestedMapIds' = {}
    BY <1>2 DEF ConnectedHeard
  <2>2. Typed'
    BY <1>1, <2>1, LoadBegins DEF SyncInv, Typed, SyncTypeOK, OnWire, Shown
  <2>3. Fresh'
    BY <1>1, <2>1, LoadBeginsFresh DEF OnTime
  <2>4. Waiting'
    BY <1>1, <2>1, LoadBegins DEF SyncInv, Waiting, Effect
  <2>5. loads'[started'].resync /\ started' \in DOMAIN loads'
    <3>1. loads'[started'] = NewLoad(TRUE) /\ started' \in DOMAIN loads'
      BY <2>1, LoadBegins
    <3>. QED
      BY <3>1 DEF NewLoad
  <2>. QED
    BY <2>1, <2>2, <2>3, <2>4, <2>5 DEF SyncInv, RequestedIsLoaded, ResyncUnderWay
<1>3. CASE ~(connectedOnce /\ ~streamResyncing)
  <2>1. UNCHANGED <<streamResyncing, requestedMapIds, loads, started>>
    BY <1>3 DEF ConnectedHeard
  <2>. QED
    BY <1>1, <2>1 DEF SyncInv, Typed, SyncTypeOK, OnWire, Shown, Fresh, OnTime, StreamedRowsStay,
       Waiting, RequestedIsLoaded, ResyncUnderWay
<1>. QED
  BY <1>2, <1>3

(* An update is heard: from now on no load under way may replace the row.  *)
LEMMA UpdateHeardKeeps == ASSUME SyncInv, UpdateHeard PROVE SyncInv'
<1>. USE SyncAssumption
<1>. DEFINE next == Head(wire)
<1>1. /\ wire' \in OnWire /\ OnTime(wire')
      /\ next.id \in Deliveries /\ next.rev \in Revisions /\ next.rev <= server[next.id]
      /\ next.rev > 0
  <2>1. wire # <<>> /\ ~next.connected /\ wire' = Tail(wire)
    BY DEF UpdateHeard
  <2>2. next \in Update
    BY <2>1, WireStays DEF Connected
  <2>3. wire \in OnWire /\ OnTime(wire) /\ 1 \in DOMAIN wire /\ next = wire[1]
    <3>. HIDE DEF next
    <3>1. wire \in OnWire /\ OnTime(wire)
      BY WireStays
    <3>. QED
      BY <2>1, <3>1 DEF OnWire, next
  <2>. HIDE DEF next
  <2>4. next.rev > 0 /\ next.rev <= server[next.id]
    BY <2>1, <2>3 DEF OnTime
  <2>5. next.id \in Deliveries /\ next.rev \in Revisions
    BY <2>2 DEF Update
  <2>. QED
    BY <2>1, <2>4, <2>5, WireStays
<1>2. /\ loads' = [n \in DOMAIN loads |-> [loads[n] EXCEPT !.heard = TRUE]]
      /\ items' = [items EXCEPT ![next.id] = next.rev]
      /\ knownDeliveryIds' = knownDeliveryIds \cup {next.id}
      /\ streamed' = [streamed EXCEPT ![next.id] = next.rev]
      /\ UNCHANGED <<online, server, updates, source, connectedOnce, cuts, streamResyncing,
                     routes, started, missed>>
      /\ LoadMapData({next.id} \ knownDeliveryIds, None, Shown(items'))
  BY DEF UpdateHeard, serverVars
<1>. HIDE DEF next
<1>3. /\ items' \in [Deliveries -> Revisions] /\ streamed' \in [Deliveries -> Revisions]
      /\ loads' \in [DOMAIN loads' -> LoadRecord] /\ DOMAIN loads' = DOMAIN loads
      /\ \A n \in DOMAIN loads : loads'[n].heard /\ loads'[n].shown = loads[n].shown
                                 /\ loads'[n].resync = loads[n].resync
  BY <1>1, <1>2 DEF SyncInv, Typed, SyncTypeOK, LoadRecord
<1>4. /\ Waiting' /\ RequestedIsLoaded'
      /\ requestedMapIds' \subseteq Deliveries /\ mapRequests' \in Seq(Request)
  <2>1. /\ {next.id} \ knownDeliveryIds \in SUBSET Deliveries /\ Shown(items') \in SUBSET Deliveries
    BY <1>1 DEF Shown
  <2>2. \A n \in DOMAIN loads : n \in DOMAIN loads' /\ (loads[n].shown => loads'[n].shown)
    BY <1>3
  <2>. QED
    BY <1>2, <2>1, <2>2, RequestsKeep, MapRequestsGrow DEF SyncInv
<1>5. Typed'
  <2>1. knownDeliveryIds' = Shown(items')
    BY <1>1, <1>2, SMTT(30) DEF SyncInv, Typed, SyncTypeOK, Shown, Revisions
  <2>2. \A i \in DOMAIN mapRequests' : mapRequests'[i].ids \subseteq Deliveries
    BY <1>4, RequestIds
  <2>. QED
    BY <1>1, <1>2, <1>3, <1>4, <2>1, <2>2 DEF SyncInv, Typed, SyncTypeOK, OnWire
<1>6. Fresh'
  <2>1. OnTime(wire)'
    BY <1>1, <1>2 DEF OnTime
  <2>2. StreamedRowsStay' /\ \A d \in Deliveries : streamed'[d] <= server'[d]
    BY <1>1, <1>2, <1>3, SMTT(30) DEF SyncInv, Typed, SyncTypeOK, Fresh, StreamedRowsStay, Revisions
  <2>. QED
    BY <1>3, <2>1, <2>2 DEF Fresh
<1>7. ResyncUnderWay'
  BY <1>2, <1>3 DEF SyncInv, ResyncUnderWay
<1>. QED
  BY <1>4, <1>5, <1>6, <1>7 DEF SyncInv

LEMMA OpenedKeeps == ASSUME SyncInv, Opened \/ Broken \/ GoOffline PROVE SyncInv'
<1>. USE SyncAssumption
<1>1. /\ wire' \in OnWire /\ OnTime(wire') /\ online' \in BOOLEAN
      /\ source' \in {"none", "connecting", "open", "refused"}
      /\ UNCHANGED <<server, updates, connectedOnce, streamResyncing, items,
                     knownDeliveryIds, streamed, requestedMapIds, routes, mapRequests, loads,
                     started, missed>>
  BY WireStays DEF Opened, Broken, GoOffline, SyncInv, Typed, SyncTypeOK, serverVars, rowVars, mapVars
<1>. QED
  BY <1>1 DEF SyncInv, Typed, SyncTypeOK, OnWire, Shown, Fresh, OnTime, StreamedRowsStay, Waiting,
     RequestedIsLoaded, ResyncUnderWay

LEMMA RefreshKeeps == ASSUME SyncInv, Refresh PROVE SyncInv'
<1>. USE SyncAssumption
<1>1. /\ Load(FALSE)
      /\ UNCHANGED <<online, server, updates, source, wire, connectedOnce, cuts,
                     streamResyncing, items, knownDeliveryIds, streamed, requestedMapIds,
                     routes, mapRequests, missed>>
  BY DEF Refresh, serverVars, sourceVars, rowVars, mapVars
<1>2. Typed'
  BY <1>1, LoadBegins DEF SyncInv, Typed, SyncTypeOK, Shown
<1>3. Fresh'
  BY <1>1, WireStays, LoadBeginsFresh DEF OnTime
<1>4. Waiting'
  BY <1>1, LoadBegins DEF SyncInv, Waiting, Effect
<1>5. ResyncUnderWay'
  BY <1>1, LoadBegins DEF SyncInv, ResyncUnderWay
<1>. QED
  BY <1>1, <1>2, <1>3, <1>4, <1>5 DEF SyncInv, RequestedIsLoaded

LEMMA GoOnlineKeeps == ASSUME SyncInv, GoOnline PROVE SyncInv'
<1>. USE SyncAssumption
<1>1. /\ Load(FALSE) /\ online' = TRUE /\ source' = "connecting" /\ missed' = {}
      /\ Shown(items) \in SUBSET Deliveries /\ {} \in SUBSET Deliveries
      /\ LoadMapData({}, None, Shown(items))
      /\ UNCHANGED <<server, updates, wire, cuts, streamResyncing, items,
                     knownDeliveryIds, streamed, routes>>
  BY DEF GoOnline, serverVars, rowVars, Shown
<1>2. /\ Waiting' /\ RequestedIsLoaded'
      /\ requestedMapIds' \subseteq Deliveries /\ mapRequests' \in Seq(Request)
  <2>1. \A n \in DOMAIN loads : n \in DOMAIN loads' /\ (loads[n].shown => loads'[n].shown)
    BY <1>1, LoadBegins
  <2>. QED
    BY <1>1, <2>1, RequestsKeep, MapRequestsGrow DEF SyncInv
<1>3. \A i \in DOMAIN mapRequests' : mapRequests'[i].ids \subseteq Deliveries
  BY <1>2, RequestIds
<1>4. Typed'
  BY <1>1, <1>2, <1>3, LoadBegins DEF SyncInv, Typed, SyncTypeOK, Shown
<1>5. Fresh'
  BY <1>1, WireStays, LoadBeginsFresh DEF OnTime
<1>6. ResyncUnderWay'
  BY <1>1, LoadBegins DEF SyncInv, ResyncUnderWay
<1>. QED
  BY <1>2, <1>4, <1>5, <1>6 DEF SyncInv

(* A commit only makes the API newer than all that was read or sent.       *)
LEMMA CommitKeeps == ASSUME SyncInv, NEW d \in Deliveries, Commit(d) PROVE SyncInv'
<1>. USE SyncAssumption
<1>1. /\ server' = [server EXCEPT ![d] = @ + 1] /\ updates' = updates + 1
      /\ updates < MaxUpdates /\ missed' \subseteq Deliveries
      /\ UNCHANGED <<online, source, connectedOnce, cuts, streamResyncing, items,
                     knownDeliveryIds, streamed, requestedMapIds, routes, mapRequests, loads,
                     started>>
  BY DEF Commit, SyncInv, Typed, SyncTypeOK, rowVars, mapVars
<1>2. /\ server' \in [Deliveries -> Revisions] /\ updates' \in 0 .. MaxUpdates
      /\ \A e \in Deliveries : /\ server'[e] >= server[e] /\ server[e] \in Nat
                               /\ server'[e] <= updates' + 1
      /\ server'[d] \in Revisions /\ server'[d] > 0
  <2>1. /\ server \in [Deliveries -> 0 .. MaxUpdates + 1] /\ updates \in 0 .. MaxUpdates
        /\ \A e \in Deliveries : server[e] <= updates + 1
    BY DEF SyncInv, Typed, SyncTypeOK, Revisions
  <2>2. server[d] + 1 \in Revisions /\ server[d] + 1 > 0 /\ updates + 1 \in 0 .. MaxUpdates
    BY <1>1, <2>1 DEF Revisions
  <2>. QED
    BY <1>1, <2>1, <2>2 DEF Revisions
<1>3. wire' \in OnWire /\ OnTime(wire)'
  <2>1. wire \in OnWire /\ OnTime(wire)
    BY WireStays
  <2>2. \A i \in DOMAIN wire : ~wire[i].connected =>
            /\ wire[i].rev > 0 /\ wire[i].rev <= server'[wire[i].id]
    <3>1. ASSUME NEW i \in DOMAIN wire, ~wire[i].connected
          PROVE  wire[i].id \in Deliveries /\ wire[i].rev \in Nat
      <4>1. wire[i] \in {Connected} \cup Update
        BY <2>1 DEF OnWire
      <4>2. wire[i] \in Update
        BY <3>1, <4>1 DEF Connected
      <4>3. wire[i].id \in Deliveries /\ wire[i].rev \in Revisions
        BY <4>2 DEF Update
      <4>. QED
        BY <4>3 DEF Revisions
    <3>2. ASSUME NEW i \in DOMAIN wire, ~wire[i].connected
          PROVE  wire[i].rev > 0 /\ wire[i].rev <= server'[wire[i].id]
      <4>1. /\ wire[i].id \in Deliveries /\ wire[i].rev \in Nat
            /\ wire[i].rev > 0 /\ wire[i].rev <= server[wire[i].id]
        BY <2>1, <3>1, <3>2 DEF OnTime
      <4>2. /\ server'[wire[i].id] >= server[wire[i].id]
            /\ server[wire[i].id] \in Nat /\ server'[wire[i].id] \in Revisions
        BY <1>2, <4>1
      <4>. QED
        BY <4>1, <4>2 DEF Revisions
    <3>. QED
      BY <3>2
  <2>3. CASE wire' = wire
    BY <2>1, <2>2, <2>3 DEF OnTime
  <2>4. CASE wire' = Append(wire, [connected |-> FALSE, id |-> d, rev |-> server'[d]])
    <3>. DEFINE update == [connected |-> FALSE, id |-> d, rev |-> server'[d]]
    <3>1. /\ update \in {Connected} \cup Update /\ ~update.connected
          /\ update.id = d /\ update.rev = server'[d]
      BY <1>2 DEF Update
    <3>. HIDE DEF update
    <3>2. /\ wire' \in OnWire
          /\ \A i \in DOMAIN wire' : (i \in DOMAIN wire /\ wire'[i] = wire[i]) \/ wire'[i] = update
      <4>1. wire' = Append(wire, update)
        BY <2>4 DEF update
      <4>. HIDE DEF Connected, Update
      <4>. QED
        BY <2>1, <3>1, <4>1 DEF OnWire
    <3>3. ASSUME NEW i \in DOMAIN wire', ~wire'[i].connected
          PROVE  wire'[i].rev > 0 /\ wire'[i].rev <= server'[wire'[i].id]
      <4>1. CASE i \in DOMAIN wire /\ wire'[i] = wire[i]
        BY <2>2, <3>3, <4>1
      <4>2. CASE wire'[i] = update
        BY <1>2, <3>1, <4>2 DEF Revisions
      <4>. QED
        BY <3>2, <4>1, <4>2
    <3>. QED
      BY <3>2, <3>3 DEF OnTime
  <2>. QED
    BY <2>3, <2>4 DEF Commit
<1>4. Typed'
  BY <1>1, <1>2, <1>3 DEF SyncInv, Typed, SyncTypeOK, OnWire, Shown
<1>5. Fresh'
  BY <1>1, <1>2, <1>3, SMTT(30) DEF SyncInv, Typed, SyncTypeOK, LoadRecord, Fresh, StreamedRowsStay, Revisions
<1>. QED
  BY <1>1, <1>4, <1>5 DEF SyncInv, Waiting, RequestedIsLoaded, ResyncUnderWay
-----------------------------------------------------------------------------
LEMMA InitHolds == SyncInit => SyncInv
<1>. SUFFICES ASSUME SyncInit PROVE SyncInv
  OBVIOUS
<1>. USE SyncAssumption
<1>1. loads \in [DOMAIN loads -> LoadRecord] /\ DOMAIN loads = {1} /\ ~loads[1].shown
      /\ \A d \in Deliveries : loads[1].rows[d] = None
  BY DEF SyncInit, NewLoad, LoadRecord
<1>2. /\ server \in [Deliveries -> Revisions] /\ items \in [Deliveries -> Revisions]
      /\ streamed \in [Deliveries -> Revisions]
      /\ \A d \in Deliveries : server[d] \in {0, 1} /\ items[d] = 0 /\ streamed[d] = 0
  BY DEF SyncInit, Revisions
<1>3. wire \in Seq({Connected} \cup Update) /\ OnTime(wire)
  BY DEF SyncInit, OnTime
<1>4. mapRequests \in Seq(Request) /\ DOMAIN mapRequests = {}
  BY DEF SyncInit
<1>5. SyncTypeOK
  BY <1>2, <1>3, <1>4 DEF SyncInit, SyncTypeOK, Shown
<1>6. /\ streamResyncing \in BOOLEAN /\ started \in Nat /\ DOMAIN loads \subseteq 1 .. started
      /\ updates = 0 /\ updates \in 0 .. MaxUpdates
  <2>1. streamResyncing \in BOOLEAN
    BY DEF SyncInit
  <2>2. started = 1 /\ updates = 0
    BY DEF SyncInit
  <2>3. updates \in 0 .. MaxUpdates
    BY <2>2
  <2>4. started \in Nat /\ DOMAIN loads \subseteq 1 .. started
    BY <1>1, <2>2
  <2>. QED
    BY <2>1, <2>2, <2>3, <2>4
<1>7. Typed
  BY <1>1, <1>2, <1>4, <1>5, <1>6 DEF Typed
<1>8. Fresh
  BY <1>1, <1>2, <1>3 DEF Fresh, StreamedRowsStay
<1>9. Waiting /\ RequestedIsLoaded /\ ResyncUnderWay
  BY <1>4 DEF SyncInit, Waiting, RequestedIsLoaded, ResyncUnderWay
<1>. QED
  BY <1>7, <1>8, <1>9 DEF SyncInv

LEMMA NextKeeps == SyncInv /\ [SyncNext]_syncVars => SyncInv'
<1>. SUFFICES ASSUME SyncInv, [SyncNext]_syncVars PROVE SyncInv'
  OBVIOUS
<1>1. CASE UNCHANGED syncVars
  BY <1>1 DEF SyncInv, Typed, SyncTypeOK, Fresh, OnTime, StreamedRowsStay, Waiting,
     RequestedIsLoaded, ResyncUnderWay, Shown, syncVars, serverVars, sourceVars, rowVars, mapVars
<1>. QED
  BY <1>1, ReadPageKeeps, ShowLoadKeeps, LoadSucceedsKeeps, LoadFailsKeeps, MapAnsweredKeeps,
     MapFailedKeeps, ConnectedHeardKeeps, UpdateHeardKeeps, OpenedKeeps, RefreshKeeps,
     GoOnlineKeeps, CommitKeeps
  DEF SyncNext, LoadStep, MapStep

LEMMA Invariant == SyncSpec => []SyncInv
  BY InitHolds, NextKeeps, PTL DEF SyncSpec

(* The console is type-correct, and what it knows is what it shows.        *)
THEOREM TypeCorrect == SyncSpec => []SyncTypeOK
<1>1. SyncInv => SyncTypeOK
  BY DEF SyncInv, Typed
<1>. QED
  BY <1>1, Invariant, PTL

(* No load, however late and however many there are, puts an older row in  *)
(* the place of one the stream brought.                                    *)
THEOREM NoOlderRow == SyncSpec => []StreamedRowsStay
<1>1. SyncInv => StreamedRowsStay
  BY DEF SyncInv, Fresh
<1>. QED
  BY <1>1, Invariant, PTL

(* What counts as requested is loaded or under way, for any overlap of     *)
(* requests and any of their failures.                                     *)
THEOREM NoRouteForgotten == SyncSpec => []RequestedIsLoaded
<1>1. SyncInv => RequestedIsLoaded
  BY DEF SyncInv
<1>. QED
  BY <1>1, Invariant, PTL

(* The flag of the resync is never left behind, whichever way a resync     *)
(* ends, so that the next reconnection loads a snapshot again.             *)
THEOREM FlagHasItsResync == SyncSpec => []ResyncUnderWay
<1>1. SyncInv => ResyncUnderWay
  BY DEF SyncInv
<1>. QED
  BY <1>1, Invariant, PTL

-----------------------------------------------------------------------------
(* The lists and the map: what they show, whatever their lengths.          *)

LEMMA FirstIsPrefix ==
    ASSUME NEW S, NEW list \in Seq(S), NEW n \in Nat
    PROVE  /\ First(list, n) \in Seq(S)
           /\ Len(First(list, n)) = IF n < Len(list) THEN n ELSE Len(list)
           /\ \A i \in 1 .. Len(First(list, n)) : First(list, n)[i] = list[i]
           /\ ToSet(First(list, n)) \subseteq ToSet(list)
<1>. DEFINE m == IF n < Len(list) THEN n ELSE Len(list)
<1>1. m \in 0 .. Len(list)
  OBVIOUS
<1>2. /\ SubSeq(list, 1, m) \in Seq(S)
      /\ Len(SubSeq(list, 1, m)) = m
      /\ \A i \in 1 .. m : SubSeq(list, 1, m)[i] = list[i]
  BY <1>1
<1>. QED
  BY <1>1, <1>2 DEF First, ToSet

(* The map of at most 50 and the list of the first 15 never lose the       *)
(* delivery the operator has selected: if it passes the scope and the      *)
(* query it is shown, without exceeding the limit and without showing what *)
(* they exclude (page.tsx:115, FleetTelemetryPanel.tsx:62-66).             *)
THEOREM WindowShowsSelected ==
    ASSUME NEW list \in Seq(Delivery), NEW selected \in Delivery,
           NEW limit \in Nat, limit >= 1
    PROVE  /\ Window(list, selected, limit) \in Seq(Delivery)
           /\ Len(Window(list, selected, limit)) <= limit
           /\ ToSet(Window(list, selected, limit)) \subseteq ToSet(list)
           /\ selected \in ToSet(list) => selected \in ToSet(Window(list, selected, limit))
<1>. DEFINE first == First(list, limit)
            rest == First(first, limit - 1)
<1>1. /\ first \in Seq(Delivery) /\ Len(first) <= limit
      /\ ToSet(first) \subseteq ToSet(list)
  BY FirstIsPrefix
<1>2. /\ rest \in Seq(Delivery) /\ Len(rest) <= limit - 1
      /\ ToSet(rest) \subseteq ToSet(first)
  BY <1>1, FirstIsPrefix
<1>3. CASE selected \in ToSet(list) \ ToSet(first)
  <2>1. Window(list, selected, limit) = <<selected>> \o rest
    BY <1>3 DEF Window
  <2>2. /\ <<selected>> \o rest \in Seq(Delivery)
        /\ Len(<<selected>> \o rest) = 1 + Len(rest)
        /\ (<<selected>> \o rest)[1] = selected
        /\ \A i \in 2 .. 1 + Len(rest) : (<<selected>> \o rest)[i] = rest[i - 1]
    BY <1>2
  <2>3. ToSet(<<selected>> \o rest) = {selected} \cup ToSet(rest)
    <3>1. ASSUME NEW e \in ToSet(rest) PROVE e \in ToSet(<<selected>> \o rest)
      <4>1. PICK k \in 1 .. Len(rest) : rest[k] = e
        BY <1>2, <3>1 DEF ToSet
      <4>2. k + 1 \in 2 .. 1 + Len(rest) /\ (k + 1) - 1 = k
        BY <1>2, <4>1
      <4>3. (<<selected>> \o rest)[k + 1] = e
        BY <2>2, <4>1, <4>2
      <4>4. k + 1 \in 1 .. Len(<<selected>> \o rest)
        BY <1>2, <2>2
      <4>5. DOMAIN (<<selected>> \o rest) = 1 .. Len(<<selected>> \o rest)
        BY <2>2
      <4>. QED
        BY <4>3, <4>4, <4>5 DEF ToSet
    <3>2. ASSUME NEW e \in ToSet(<<selected>> \o rest)
          PROVE  e \in {selected} \cup ToSet(rest)
      <4>1. PICK k \in 1 .. 1 + Len(rest) : (<<selected>> \o rest)[k] = e
        BY <1>2, <2>2 DEF ToSet
      <4>2. CASE k = 1
        BY <2>2, <4>1, <4>2
      <4>3. CASE k # 1
        <5>1. k \in 2 .. 1 + Len(rest) /\ k - 1 \in 1 .. Len(rest)
          BY <1>2, <4>3
        <5>. QED
          BY <1>2, <2>2, <4>1, <5>1 DEF ToSet
      <4>. QED
        BY <4>2, <4>3
    <3>3. selected \in ToSet(<<selected>> \o rest)
      BY <1>2, <2>2 DEF ToSet
    <3>. QED
      BY <3>1, <3>2, <3>3
  <2>. QED
    BY <1>1, <1>2, <1>3, <2>1, <2>2, <2>3, SMTT(30)
<1>4. CASE selected \notin ToSet(list) \ ToSet(first)
  BY <1>1, <1>4 DEF Window
<1>. QED
  BY <1>3, <1>4

(* A delivery the console leaves out of the moving ones for its stale      *)
(* position is labelled stale in the list and on the map: the clock they   *)
(* read is never behind the one the scopes count with (page.tsx:108,       *)
(* FleetTelemetryPanel.tsx:42-50, FleetMap.tsx:40-47).                     *)
THEOREM StaleIsLabelled ==
    ASSUME NEW id \in Delivery, NEW row \in Row, NEW telemetry \in Seq(Point),
           NEW freshnessNow \in Nat, NEW now \in Nat, freshnessNow <= now,
           Stale(id, row, telemetry, freshnessNow)
    PROVE  Freshness(id, row, telemetry, now).stale
<1>1. ASSUME NEW t \in Heard(id, row, telemetry) PROVE AgeMinutes(t, now) >= 5
  <2>1. t \in Nat
    <3>1. ASSUME NEW i \in DOMAIN telemetry PROVE telemetry[i].occurredAt \in Time
      <4>1. telemetry[i] \in Point
        OBVIOUS
      <4>. QED
        BY <4>1 DEF Point
    <3>2. row.lastTelemetryAt \in Time \cup {NoTime}
      BY DEF Row
    <3>. QED
      BY <3>1, <3>2, TimesAreMilliseconds DEF Heard
  <2>2. freshnessNow - t >= 300000
    BY DEF Stale
  <2>3. now > t /\ now - t >= 300000 /\ now - t \in Nat
    BY <2>1, <2>2
  <2>4. \A a \in Nat : a >= 300000 => a \div 60000 >= 5
    OBVIOUS
  <2>. QED
    BY <2>3, <2>4 DEF AgeMinutes
<1>. QED
  BY <1>1 DEF Freshness

(* The estimated line of a vehicle without points never leaves its planned *)
(* route: for every progress from 0 to 1 it is at least the origin and at  *)
(* most the whole route (FleetMap.tsx:35-38).                              *)
THEOREM ReachedOnRoute ==
    ASSUME NEW n \in Nat, n >= 1, NEW total \in Nat, total >= 1,
           NEW done \in 0 .. total
    PROVE  Reached(n, done, total) \in 1 .. n
<1>. DEFINE p == done * (n - 1)
            q == (-p) \div total
<1>1. p \in Nat /\ p <= total * (n - 1)
  OBVIOUS
<1>2. q \in Int /\ total * q <= -p /\ -p < total * (q + 1)
  BY <1>1
<1>3. -q <= n - 1
  <2>1. SUFFICES ASSUME -q >= n PROVE FALSE
    BY <1>2
  <2>2. q + 1 <= -(n - 1)
    BY <1>2, <2>1
  <2>3. total * (q + 1) <= total * (-(n - 1))
    BY <1>2, <2>2
  <2>4. total * (-(n - 1)) = -(total * (n - 1))
    OBVIOUS
  <2>. QED
    BY <1>1, <1>2, <2>3, <2>4
<1>. QED
  BY <1>2, <1>3 DEF Reached

-----------------------------------------------------------------------------
(* The order of the alert list is one that a list can be sorted by, and    *)
(* puts what is urgent first.                                              *)

(* A comparison is an integer.                                             *)
LEMMA CompareType ==
    ASSUME NEW sort \in Sorts, NEW l \in Alert, NEW r \in Alert
    PROVE  Compare(sort, l, r) \in Int
  BY MissingIsNoTime
     DEF Compare, ByPriority, ByAcknowledgement, BySeverity, Closed, Duration,
         Acknowledged, Flag, Alert

(* The priority is antisymmetric, and "not before" is transitive.          *)
LEMMA ByPriorityOrder ==
    ASSUME NEW x \in Alert, NEW y \in Alert, NEW z \in Alert
    PROVE  /\ ByPriority(x, y) = -ByPriority(y, x)
           /\ ByPriority(x, y) >= 0 /\ ByPriority(y, z) >= 0 => ByPriority(x, z) >= 0
  BY MissingIsNoTime
     DEF ByPriority, Closed, ByAcknowledgement, Acknowledged, BySeverity, Flag, Alert

(* Every order of the list is a strict weak order: no two alerts are each  *)
(* before the other, and "not before" is transitive.  A comparator that is *)
(* none makes the result of sort depend on the browser                     *)
(* (AlertOperationsPanel.tsx:59-86).                                       *)
THEOREM ComparatorConsistent ==
    ASSUME NEW sort \in Sorts, NEW x \in Alert, NEW y \in Alert, NEW z \in Alert
    PROVE  /\ ~(Before(sort, x, y) /\ Before(sort, y, x))
           /\ ~Before(sort, x, y) /\ ~Before(sort, y, z) => ~Before(sort, x, z)
<1>1. /\ ByPriority(x, y) \in Int /\ ByPriority(y, x) \in Int
      /\ ByPriority(y, z) \in Int /\ ByPriority(x, z) \in Int
  BY MissingIsNoTime DEF ByPriority, ByAcknowledgement, BySeverity, Closed,
                         Acknowledged, Flag, Alert
<1>2. ByPriority(x, y) = -ByPriority(y, x)
  BY ByPriorityOrder
<1>3. ByPriority(x, y) >= 0 /\ ByPriority(y, z) >= 0 => ByPriority(x, z) >= 0
  BY ByPriorityOrder
<1>. QED
  BY <1>1, <1>2, <1>3 DEF Before, Compare, Duration, Sorts, Alert

(* In a list sorted by priority an alert that is active, critical and not  *)
(* acknowledged has only such alerts before it: however long the list is,  *)
(* the first page is filled with them (AlertOperationsPanel.tsx:71-88).    *)
THEOREM UrgentFirst ==
    ASSUME NEW list \in Seq(Alert), SortedBy("PRIORITY", list),
           NEW i \in DOMAIN list, NEW j \in DOMAIN list, i < j, Urgent(list[j])
    PROVE  Urgent(list[i])
<1>1. list[i] \in Alert /\ list[j] \in Alert
  OBVIOUS
<1>2. ~Before("PRIORITY", list[j], list[i])
  BY DEF SortedBy
<1>3. ByPriority(list[j], list[i]) >= 0
  BY <1>1, <1>2, CompareType DEF Before, Compare, Sorts
<1>. QED
  BY <1>1, <1>3, MissingIsNoTime
     DEF Urgent, ByPriority, ByAcknowledgement, BySeverity, Acknowledged, Flag, Alert

-----------------------------------------------------------------------------
(* The session *)

Requests == Sent \cup Exchange \cup Call \cup Answer
Kinds == {"login", "callback", "logout", "page", "read", "command"}

(* The old cookie is never set, and is cleared with the new one's renewal. *)
NeverRevives(edit) ==
    /\ edit.legacy \in {Absent, "keep"}
    /\ edit.access \in Tokens => edit.legacy = Absent

(* An edit that changes nothing about a good session.                      *)
Harmless(edit) ==
    \/ edit.access = "keep" /\ edit.legacy = "keep"
    \/ edit.access = Token(jar) /\ edit.legacy = Absent
    \/ Token(jar) \notin fresh

BringsNone(edit) == edit.access \in {Absent, "keep"}

(* A request sent before the last logout or change of session (older) is   *)
(* only bound to what its route does; any other one also to the cookies.   *)
FitsRoute(r) ==
    /\ r.phase \in {"exchanging", "tokens"} => r.login = r.attempt
    /\ r.phase \in {"reading", "upstream", "answered"} => NeverRevives(r.edit)
    /\ r.phase = "answered" /\ r.kind = "logout" =>
           r.edit \in {NoEdit, NoCookies} /\ r.body = "none"

FitsLogout(r) ==
    /\ r.phase = "sent" /\ r.kind # "callback" => Token(r.jar) = Absent
    /\ r.phase \in {"reading", "upstream"} => BringsNone(r.edit)
    /\ r.phase = "answered" => r.kind = "callback" \/ BringsNone(r.edit)

FitsSession(r) ==
    /\ r.phase = "sent" /\ r.kind \in {"page", "read", "command"} =>
           Token(r.jar) = Token(jar) \/ Token(jar) \notin fresh
    /\ r.phase \in {"reading", "upstream"} => Harmless(r.edit)
    /\ r.phase = "answered" /\ r.reason = "none" => Harmless(r.edit)

Fits(s, r) ==
    /\ FitsRoute(r)
    /\ s \notin older => FitsSession(r) /\ (left => FitsLogout(r))

OneCookie == jar.access = Absent \/ jar.legacy = Absent

SessionInv ==
    /\ TypeOK
    /\ OneCookie
    /\ NoCodeWasted
    /\ LogoutIsFinal
    /\ \A s \in Slots : requests[s] # Absent => Fits(s, requests[s])
-----------------------------------------------------------------------------
LEMMA PhaseOf ==
    ASSUME NEW r \in Requests
    PROVE  /\ r.phase = "sent" => r \in Sent
           /\ r.phase \in {"exchanging", "tokens"} => r \in Exchange
           /\ r.phase \in {"reading", "upstream"} => r \in Call
           /\ r.phase \in {"answered", "relaying"} => r \in Answer
           /\ r.kind \in Kinds
  BY DEF Requests, Sent, Exchange, Call, Answer, Kinds

LEMMA AbsentIsNoRequest == ASSUME TypeOK, NEW s \in Slots, requests[s] # Absent
                         PROVE  requests[s] \in Requests
  BY DEF TypeOK, Requests

LEMMA AppliedIs ==
    ASSUME jar \in Jar, NEW edit \in Edit
    PROVE  /\ Applied(edit) \in Jar
           /\ Applied(edit).access = IF edit.access = "keep" THEN jar.access ELSE edit.access
           /\ Applied(edit).legacy = IF edit.legacy = "keep" THEN jar.legacy ELSE edit.legacy
  BY SessionAssumption DEF Jar, Edit, Applied, Cookies

LEMMA EditsAre ==
    /\ NoEdit \in Edit /\ NoCookies \in Edit /\ ClearSession \in Edit
    /\ FinishEdit \in Edit
    /\ \A j \in Jar : Migrated(j) \in Edit
  BY SessionAssumption DEF NoEdit, NoCookies, ClearSession, FinishEdit, Migrated, Edit, Jar, Tokens

LEMMA AnsweredIs ==
    ASSUME NEW r \in Requests, NEW edit \in Edit
    PROVE  /\ Answered(r, edit) \in Answer
           /\ Answered(r, edit).edit = edit /\ Answered(r, edit).phase = "answered"
           /\ Answered(r, edit).kind = r.kind /\ Answered(r, edit).body = "none"
           /\ Answered(r, edit).reason = "none"
  BY PhaseOf, SessionAssumption DEF Answered, Answer, Kinds

(* A step of the server gives one request a new form.                      *)
LEMMA StepPreserves ==
    ASSUME SessionInv, NEW s \in Slots, NEW r \in Requests \cup {Absent}, Step(s, r),
           r # Absent => Fits(s, r)
    PROVE  SessionInv'
<1>1. TypeOK'
  BY DEF SessionInv, TypeOK, Step, Requests
<1>2. OneCookie' /\ NoCodeWasted' /\ LogoutIsFinal'
  BY DEF SessionInv, OneCookie, NoCodeWasted, LogoutIsFinal, Step
<1>3. ASSUME NEW z \in Slots, requests'[z] # Absent PROVE Fits(z, requests[z])'
  <2>1. Fits(z, requests'[z])
    <3>1. CASE z = s
      BY <1>3, <3>1 DEF SessionInv, TypeOK, Step
    <3>2. CASE z # s
      BY <1>3, <3>2 DEF SessionInv, TypeOK, Step
    <3>. QED
      BY <3>1, <3>2
  <2>2. UNCHANGED <<jar, fresh, left, older>>
    BY DEF Step
  <2>. QED
    BY <2>1, <2>2 DEF Token, Fits, FitsRoute, FitsSession, FitsLogout, Harmless
<1>. QED
  BY <1>1, <1>2, <1>3 DEF SessionInv

(* What it takes for the answers of a route to fit.                        *)
LEMMA AnswerFits ==
    ASSUME SessionInv, NEW s \in Slots, requests[s] # Absent, NEW edit \in Edit,
           NEW reason \in {"none", "logout", "login", "keys"},
           NEW r \in Answer, r = [Answered(requests[s], edit) EXCEPT !.reason = reason],
           NeverRevives(edit),
           r.kind = "logout" => edit \in {NoEdit, NoCookies},
           s \notin older /\ reason = "none" => Harmless(edit),
           s \notin older /\ left => r.kind = "callback" \/ BringsNone(edit)
    PROVE  Fits(s, r) /\ r \in Requests
<1>1. requests[s] \in Requests
  BY AbsentIsNoRequest DEF SessionInv
<1>2. r.edit = edit /\ r.phase = "answered" /\ r.body = "none" /\ r.reason = reason
  BY <1>1, AnsweredIs DEF Answer
<1>. QED
  BY <1>2 DEF Fits, FitsRoute, FitsSession, FitsLogout, Requests

LEMMA PlainAnswer ==
    ASSUME SessionInv, NEW s \in Slots, requests[s] # Absent, NEW edit \in {NoEdit, FinishEdit},
           Step(s, Answered(requests[s], edit)), requests[s].kind # "logout" \/ edit = NoEdit
    PROVE  SessionInv'
<1>. DEFINE r == Answered(requests[s], edit)
<1>1. requests[s] \in Requests /\ edit \in Edit
  BY AbsentIsNoRequest, EditsAre DEF SessionInv
<1>2. r \in Answer /\ r.edit = edit /\ r.kind = requests[s].kind /\ r.reason = "none"
  BY <1>1, AnsweredIs
<1>3. r = [Answered(requests[s], edit) EXCEPT !.reason = "none"]
  BY <1>2 DEF Answered
<1>4. NeverRevives(edit) /\ Harmless(edit) /\ BringsNone(edit)
  BY SessionAssumption DEF NeverRevives, Harmless, BringsNone, NoEdit, FinishEdit, Tokens
<1>5. Fits(s, r) /\ r \in Requests
  BY <1>1, <1>2, <1>3, <1>4, AnswerFits
<1>. QED
  BY <1>5, StepPreserves

(* A session that is refused was not good, or the keys could not be had.   *)
LEMMA RefusedFits ==
    ASSUME SessionInv, NEW s \in Slots, requests[s] # Absent, Step(s, Refused(requests[s])),
           requests[s].phase = "sent", requests[s].kind \in {"page", "read", "command"}
    PROVE  SessionInv'
<1>. DEFINE q == requests[s]
            reason == IF Verified(Token(q.jar)) THEN "keys" ELSE "none"
            r == Refused(q)
<1>1. q \in Requests /\ ClearSession \in Edit
  BY AbsentIsNoRequest, EditsAre DEF SessionInv
<1>2. r = [Answered(q, ClearSession) EXCEPT !.reason = reason]
  BY DEF Refused
<1>3. r \in Answer /\ r.kind = q.kind
  BY <1>1, <1>2, AnsweredIs DEF Answer
<1>4. NeverRevives(ClearSession) /\ BringsNone(ClearSession)
  BY SessionAssumption DEF NeverRevives, BringsNone, ClearSession, Tokens
<1>5. ASSUME s \notin older, reason = "none" PROVE Harmless(ClearSession)
  BY <1>5 DEF SessionInv, Fits, FitsSession, Verified, Harmless
<1>6. Fits(s, r) /\ r \in Requests
  BY <1>1, <1>2, <1>3, <1>4, <1>5, AnswerFits
<1>. QED
  BY <1>6, StepPreserves

(* The migration moves the token the request came with.                    *)
LEMMA MigrationFits ==
    ASSUME SessionInv, NEW s \in Slots, requests[s] # Absent,
           requests[s].phase = "sent", requests[s].kind \in {"page", "read", "command"}
    PROVE  LET edit == Migrated(requests[s].jar) IN
           /\ edit \in Edit /\ NeverRevives(edit)
           /\ s \notin older => Harmless(edit)
           /\ s \notin older /\ left => BringsNone(edit)
<1>. DEFINE j == requests[s].jar
            edit == Migrated(j)
<1>1. requests[s] \in Sent
  BY AbsentIsNoRequest, PhaseOf DEF SessionInv
<1>2. j \in Jar /\ edit \in Edit
  BY <1>1, EditsAre DEF Sent
<1>3. j.access \in Tokens \cup {Absent} /\ j.legacy \in Tokens \cup {Absent}
  BY <1>2 DEF Jar
<1>4. CASE edit = NoEdit
  BY <1>2, <1>4, SessionAssumption
  DEF NoEdit, NeverRevives, Harmless, BringsNone, Tokens
<1>5. CASE edit # NoEdit
  <2>1. /\ j.access = Absent /\ j.legacy \in Tokens
        /\ edit.access = j.legacy /\ edit.legacy = Absent
        /\ Token(j) = j.legacy /\ Token(j) # Absent
    BY <1>3, <1>5, SessionAssumption DEF Migrated, Token, Tokens
  <2>2. NeverRevives(edit)
    BY <2>1 DEF NeverRevives
  <2>3. ASSUME s \notin older
        PROVE  (Token(j) = Token(jar) \/ Token(jar) \notin fresh) /\ ~left
    BY <2>1, <2>3 DEF SessionInv, Fits, FitsSession, FitsLogout
  <2>. QED
    BY <1>2, <2>1, <2>2, <2>3 DEF Harmless
<1>. QED
  BY <1>4, <1>5
-----------------------------------------------------------------------------
LEMMA ServeLoginPreserves == ASSUME SessionInv, NEW s \in Slots, ServeLogin(s) PROVE SessionInv'
<1>1. requests[s] # Absent /\ requests[s].kind = "login"
  BY DEF ServeLogin, Serving
<1>2. PICK a \in Attempts : Step(s, Answered(requests[s], [NoEdit EXCEPT !.login = a]))
  BY DEF ServeLogin
<1>. DEFINE edit == [NoEdit EXCEPT !.login = a]
            r == Answered(requests[s], edit)
<1>3. requests[s] \in Requests
  BY <1>1, AbsentIsNoRequest DEF SessionInv
<1>4. edit \in Edit /\ edit.access = "keep" /\ edit.legacy = "keep"
  BY DEF NoEdit, Edit
<1>5. r \in Answer /\ r.kind = "login"
  BY <1>1, <1>3, <1>4, AnsweredIs
<1>6. r = [r EXCEPT !.reason = "none"]
  BY DEF Answered
<1>7. NeverRevives(edit) /\ Harmless(edit) /\ BringsNone(edit)
  BY <1>4, SessionAssumption DEF NeverRevives, Harmless, BringsNone, Tokens
<1>8. Fits(s, r) /\ r \in Requests
  BY <1>1, <1>4, <1>5, <1>6, <1>7, AnswerFits
<1>. QED
  BY <1>2, <1>8, StepPreserves

LEMMA ServeCallbackPreserves == ASSUME SessionInv, NEW s \in Slots, ServeCallback(s) PROVE SessionInv'
<1>. DEFINE q == requests[s]
            r == [phase |-> "exchanging", kind |-> "callback",
                  attempt |-> q.attempt, login |-> q.jar.login]
<1>1. q # Absent /\ q.kind = "callback" /\ q.phase = "sent"
  BY DEF ServeCallback, Serving
<1>2. q \in Sent
  BY <1>1, AbsentIsNoRequest, PhaseOf DEF SessionInv
<1>3. CASE StateMatches(q)
  <2>1. r \in Exchange /\ r.login = r.attempt
    BY <1>2, <1>3 DEF Sent, Jar, Exchange, StateMatches
  <2>2. Fits(s, r)
    BY <2>1 DEF Fits, FitsRoute, FitsSession, FitsLogout
  <2>3. Step(s, r)
    BY <1>3 DEF ServeCallback
  <2>. QED
    BY <2>1, <2>2, <2>3, StepPreserves DEF Requests
<1>4. CASE ~StateMatches(q)
  BY <1>1, <1>4, PlainAnswer DEF ServeCallback
<1>. QED
  BY <1>3, <1>4

LEMMA RefuseTokensPreserves == ASSUME SessionInv, NEW s \in Slots, RefuseTokens(s) PROVE SessionInv'
  BY PlainAnswer DEF RefuseTokens, Serving

LEMMA AcceptTokensPreserves == ASSUME SessionInv, NEW s \in Slots, AcceptTokens(s) PROVE SessionInv'
<1>. DEFINE q == requests[s]
            edit == [login |-> Absent, access |-> q.attempt, legacy |-> Absent]
            r == [Answered(q, edit) EXCEPT !.reason = "login"]
<1>1. q # Absent /\ q.kind = "callback" /\ q.phase = "tokens"
  BY DEF AcceptTokens, Serving
<1>2. q \in Requests /\ q \in Exchange
  BY <1>1, AbsentIsNoRequest, PhaseOf DEF SessionInv
<1>3. edit \in Edit
  BY <1>2 DEF Edit, Exchange, Tokens
<1>4. r \in Answer /\ r.kind = "callback"
  BY <1>1, <1>2, <1>3, AnsweredIs DEF Answer
<1>5. NeverRevives(edit)
  BY DEF NeverRevives
<1>6. Fits(s, r) /\ r \in Requests
  BY <1>1, <1>3, <1>4, <1>5, AnswerFits
<1>. QED
  BY <1>6, StepPreserves DEF AcceptTokens

LEMMA ServeLogoutPreserves == ASSUME SessionInv, NEW s \in Slots, ServeLogout(s) PROVE SessionInv'
<1>. DEFINE q == requests[s]
            edit == IF SameOrigin(q) THEN LogoutEdit ELSE NoEdit
            reason == IF q.own THEN "logout" ELSE "none"
            r == [Answered(q, edit) EXCEPT !.reason = reason]
<1>1. q # Absent /\ q.kind = "logout" /\ q.phase = "sent"
  BY DEF ServeLogout, Serving
<1>2. q \in Requests /\ edit \in Edit
  BY <1>1, AbsentIsNoRequest, EditsAre DEF SessionInv, LogoutEdit
<1>3. r \in Answer /\ r.kind = "logout"
  BY <1>1, <1>2, AnsweredIs DEF Answer
<1>4. NeverRevives(edit) /\ BringsNone(edit)
  BY SessionAssumption DEF NeverRevives, BringsNone, LogoutEdit, NoCookies, NoEdit, Tokens
<1>5. reason = "none" => Harmless(edit)
  BY DEF SameOrigin, Harmless, NoEdit
<1>6. Fits(s, r) /\ r \in Requests
  BY <1>1, <1>2, <1>3, <1>4, <1>5, AnswerFits DEF LogoutEdit
<1>. QED
  BY <1>6, StepPreserves DEF ServeLogout

LEMMA ServePagePreserves == ASSUME SessionInv, NEW s \in Slots, ServePage(s) PROVE SessionInv'
<1>. DEFINE q == requests[s]
            t == Token(q.jar)
            edit == Migrated(q.jar)
            r == Answered(q, edit)
<1>1. q # Absent /\ q.kind = "page" /\ q.phase = "sent"
  BY DEF ServePage, Serving
<1>2. CASE Step(s, Answered(q, NoEdit))
  BY <1>1, <1>2, PlainAnswer
<1>3. CASE Step(s, r)
  <2>1. q \in Requests
    BY <1>1, AbsentIsNoRequest DEF SessionInv
  <2>2. /\ edit \in Edit /\ NeverRevives(edit)
        /\ s \notin older => Harmless(edit)
        /\ s \notin older /\ left => BringsNone(edit)
    BY <1>1, MigrationFits
  <2>3. r \in Answer /\ r.kind = "page" /\ r = [r EXCEPT !.reason = "none"]
    BY <1>1, <2>1, <2>2, AnsweredIs DEF Answered
  <2>4. Fits(s, r) /\ r \in Requests
    BY <1>1, <2>2, <2>3, AnswerFits
  <2>. QED
    BY <1>3, <2>4, StepPreserves
<1>4. CASE Step(s, Refused(q))
  BY <1>1, <1>4, RefusedFits
<1>. QED
  BY <1>2, <1>3, <1>4 DEF ServePage

LEMMA ServeBackendPreserves == ASSUME SessionInv, NEW s \in Slots, ServeBackend(s) PROVE SessionInv'
<1>. DEFINE q == requests[s]
            edit == Migrated(q.jar)
            phase == IF q.kind = "read" THEN "upstream" ELSE "reading"
            r == [phase |-> phase, kind |-> q.kind, edit |-> edit, total |-> 0]
<1>1. q # Absent /\ q.kind \in {"read", "command"} /\ q.phase = "sent"
  BY DEF ServeBackend, Serving
<1>2. CASE Step(s, Answered(q, NoEdit))
  BY <1>1, <1>2, PlainAnswer
<1>3. CASE Step(s, Refused(q))
  BY <1>1, <1>3, RefusedFits
<1>4. CASE Step(s, r)
  <2>1. /\ edit \in Edit /\ NeverRevives(edit)
        /\ s \notin older => Harmless(edit)
        /\ s \notin older /\ left => BringsNone(edit)
    BY <1>1, MigrationFits
  <2>2. r \in Call
    BY <1>1, <2>1, SessionAssumption DEF Call
  <2>3. Fits(s, r)
    BY <2>1 DEF Fits, FitsRoute, FitsSession, FitsLogout
  <2>. QED
    BY <1>4, <2>2, <2>3, StepPreserves DEF Requests
<1>. QED
  BY <1>2, <1>3, <1>4 DEF ServeBackend

(* A call carries its edit until it is answered.                           *)
LEMMA CallKeepsEdit ==
    ASSUME SessionInv, NEW s \in Slots, requests[s] # Absent,
           requests[s].phase \in {"reading", "upstream"},
           NEW r \in Requests, r.edit = requests[s].edit,
           r.phase \in {"reading", "upstream", "answered"}, r.kind # "logout"
    PROVE  Fits(s, r)
<1>1. Fits(s, requests[s])
  BY DEF SessionInv
<1>. QED
  BY <1>1 DEF Fits, FitsRoute, FitsSession, FitsLogout

LEMMA ReadBodyPreserves == ASSUME SessionInv, NEW s \in Slots, ReadBody(s) PROVE SessionInv'
<1>. DEFINE q == requests[s]
<1>1. q # Absent /\ q.kind = "command" /\ q.phase = "reading"
  BY DEF ReadBody, Serving
<1>2. q \in Call
  BY <1>1, AbsentIsNoRequest, PhaseOf DEF SessionInv
<1>3. CASE Step(s, [q EXCEPT !.phase = "upstream"])
  <2>. DEFINE r == [q EXCEPT !.phase = "upstream"]
  <2>1. r \in Requests /\ r.edit = q.edit /\ r.phase = "upstream" /\ r.kind = "command"
    BY <1>1, <1>2 DEF Call, Requests
  <2>2. Fits(s, r)
    BY <1>1, <2>1, CallKeepsEdit
  <2>. QED
    BY <1>3, <2>1, <2>2, StepPreserves
<1>4. ASSUME NEW total \in q.total + 1 .. q.total + MaxChunk,
             ~TooLong(total, MaxRequest), Step(s, [q EXCEPT !.total = total])
      PROVE  SessionInv'
  <2>. DEFINE r == [q EXCEPT !.total = total]
  <2>1. total \in 0 .. MaxRequest + MaxChunk
    BY <1>2, <1>4, SessionAssumption DEF Call, TooLong
  <2>2. r \in Requests /\ r.edit = q.edit /\ r.phase = "reading" /\ r.kind = "command"
    BY <1>1, <1>2, <2>1 DEF Call, Requests
  <2>3. Fits(s, r)
    BY <1>1, <2>2, CallKeepsEdit
  <2>. QED
    BY <1>4, <2>2, <2>3, StepPreserves
<1>5. CASE Step(s, Answered(q, NoEdit))
  BY <1>1, <1>5, PlainAnswer
<1>. QED
  BY <1>3, <1>4, <1>5 DEF ReadBody

LEMMA BodyBreaksPreserves == ASSUME SessionInv, NEW s \in Slots, BodyBreaks(s) PROVE SessionInv'
  BY PlainAnswer DEF BodyBreaks, Serving

LEMMA UpstreamFailsPreserves == ASSUME SessionInv, NEW s \in Slots, UpstreamFails(s) PROVE SessionInv'
  BY PlainAnswer DEF UpstreamFails, Serving

LEMMA UpstreamAnswersPreserves ==
    ASSUME SessionInv, NEW s \in Slots, UpstreamAnswers(s) PROVE SessionInv'
<1>. DEFINE q == requests[s]
<1>1. q # Absent /\ q.kind \in {"read", "command"} /\ q.phase = "upstream"
  BY DEF UpstreamAnswers, Serving
<1>2. PICK body \in {"none", "counted", "stream"} :
          Step(s, [Answered(q, q.edit) EXCEPT !.body = body])
  BY DEF UpstreamAnswers
<1>. DEFINE r == [Answered(q, q.edit) EXCEPT !.body = body]
<1>3. q \in Requests /\ q.edit \in Edit
  BY <1>1, AbsentIsNoRequest, PhaseOf DEF SessionInv, Call
<1>4. r \in Answer /\ r.edit = q.edit /\ r.phase = "answered" /\ r.kind # "logout"
  BY <1>1, <1>3, AnsweredIs DEF Answer
<1>5. Fits(s, r) /\ r \in Requests
  BY <1>1, <1>4, CallKeepsEdit DEF Requests
<1>. QED
  BY <1>2, <1>5, StepPreserves

LEMMA LosePreserves == ASSUME SessionInv, NEW s \in Slots, Lose(s) PROVE SessionInv'
<1>1. TypeOK' /\ OneCookie' /\ NoCodeWasted' /\ LogoutIsFinal'
  BY DEF SessionInv, TypeOK, Lose, OneCookie, NoCodeWasted, LogoutIsFinal
<1>2. ASSUME NEW z \in Slots, requests'[z] # Absent PROVE Fits(z, requests[z])'
  <2>1. z # s /\ requests'[z] = requests[z]
    BY <1>2 DEF SessionInv, TypeOK, Lose
  <2>2. Fits(z, requests[z]) /\ (z \notin older' => z \notin older)
    BY <1>2, <2>1 DEF SessionInv, Lose
  <2>3. UNCHANGED <<jar, fresh, left>>
    BY DEF Lose
  <2>. QED
    BY <2>1, <2>2, <2>3 DEF Token, Fits, FitsRoute, FitsSession, FitsLogout, Harmless
<1>. QED
  BY <1>1, <1>2 DEF SessionInv

LEMMA RelayPreserves == ASSUME SessionInv, NEW s \in Slots, Relay(s) PROVE SessionInv'
<1>. DEFINE q == requests[s]
<1>1. q # Absent /\ q.kind \in {"read", "command"} /\ q.phase = "relaying"
  BY DEF Relay, Serving
<1>2. CASE Lose(s)
  BY <1>2, LosePreserves
<1>3. ASSUME NEW total \in q.total + 1 .. q.total + MaxChunk,
             ~TooLong(total, MaxAnswer), Step(s, [q EXCEPT !.total = total])
      PROVE  SessionInv'
  <2>. DEFINE r == [q EXCEPT !.total = total]
  <2>1. q \in Answer
    BY <1>1, AbsentIsNoRequest, PhaseOf DEF SessionInv
  <2>2. total \in 0 .. MaxAnswer + MaxChunk
    BY <1>3, <2>1, SessionAssumption DEF Answer, TooLong
  <2>3. r \in Answer /\ r.phase = "relaying"
    BY <1>1, <2>1, <2>2 DEF Answer
  <2>4. Fits(s, r)
    BY <2>3 DEF Fits, FitsRoute, FitsSession, FitsLogout
  <2>. QED
    BY <1>3, <2>3, <2>4, StepPreserves DEF Requests
<1>. QED
  BY <1>2, <1>3 DEF Relay

LEMMA RelayBreaksPreserves == ASSUME SessionInv, NEW s \in Slots, RelayBreaks(s) PROVE SessionInv'
  BY LosePreserves DEF RelayBreaks
-----------------------------------------------------------------------------
(* The browser and the identity provider.                                  *)

LEMMA SendPreserves ==
    ASSUME SessionInv, NEW s \in Slots, NEW kind \in Kinds, NEW own \in BOOLEAN,
           NEW attempt \in Attempts \cup {Absent}, Send(s, kind, own, attempt)
    PROVE  SessionInv'
<1>. DEFINE j == [c \in Cookies |-> IF c \in Reads(kind) THEN jar[c] ELSE Absent]
            r == [phase |-> "sent", kind |-> kind, own |-> own, attempt |-> attempt, jar |-> j]
<1>1. Step(s, r)
  BY DEF Send, Step
<1>2. /\ j \in Jar
      /\ kind \in {"page", "read", "command"} => Token(j) = Token(jar)
      /\ kind \in {"login", "logout"} => Token(j) = Absent
  BY DEF SessionInv, TypeOK, Jar, Cookies, Reads, Token, Kinds
<1>3. left => Token(jar) = Absent
  BY DEF SessionInv, LogoutIsFinal, Token
<1>4. Fits(s, r)
  BY <1>2, <1>3 DEF Fits, FitsRoute, FitsSession, FitsLogout, Kinds
<1>5. r \in Requests
  BY <1>2 DEF Requests, Sent, Kinds
<1>. QED
  BY <1>1, <1>4, <1>5, StepPreserves

LEMMA SendAnyPreserves == ASSUME SessionInv, NEW s \in Slots, SendAny(s) PROVE SessionInv'
  BY SendPreserves DEF SendAny, SendCallback, Kinds

(* What an answer that is delivered may do to the cookies.                 *)
LEMMA DeliverFacts ==
    ASSUME SessionInv, NEW s \in Slots, Deliver(s)
    PROVE  /\ requests[s] \in Answer /\ Fits(s, requests[s])
           /\ requests[s].phase = "answered"
           /\ jar' \in Jar
           /\ jar'.access = IF requests[s].edit.access = "keep" THEN jar.access
                            ELSE requests[s].edit.access
           /\ jar'.legacy = IF requests[s].edit.legacy = "keep" THEN jar.legacy
                            ELSE requests[s].edit.legacy
<1>1. requests[s] # Absent /\ requests[s].phase = "answered" /\ jar' = Applied(requests[s].edit)
  BY DEF Deliver
<1>2. requests[s] \in Answer
  BY <1>1, AbsentIsNoRequest, PhaseOf DEF SessionInv
<1>3. requests[s].edit \in Edit /\ jar \in Jar
  BY <1>2 DEF Answer, SessionInv, TypeOK
<1>4. Fits(s, requests[s])
  BY <1>1 DEF SessionInv
<1>. HIDE DEF SessionInv
<1>. QED
  BY <1>1, <1>2, <1>3, <1>4, AppliedIs

LEMMA DeliverPreserves == ASSUME SessionInv, NEW s \in Slots, Deliver(s) PROVE SessionInv'
<1>. DEFINE r == requests[s]
            edit == r.edit
            logout == r.kind = "logout" /\ edit # NoEdit
            renewed == edit.access \in Tokens /\ (r.kind = "callback" \/ s \in older)
            next == IF r.body = "none" THEN Absent
                    ELSE [r EXCEPT !.phase = "relaying", !.edit = NoEdit]
<1>1. /\ r \in Answer /\ Fits(s, r) /\ r.phase = "answered" /\ edit \in Edit /\ jar' \in Jar
      /\ jar'.access = IF edit.access = "keep" THEN jar.access ELSE edit.access
      /\ jar'.legacy = IF edit.legacy = "keep" THEN jar.legacy ELSE edit.legacy
  BY DeliverFacts DEF Answer
<1>2. NeverRevives(edit) /\ (logout => edit = NoCookies)
  BY <1>1 DEF Fits, FitsRoute
<1>3. left' = (logout \/ (left /\ ~renewed))
  BY DEF Deliver
<1>4. requests' = [requests EXCEPT ![s] = next] /\ fresh' = fresh
  BY DEF Deliver
<1>5. older' = IF logout \/ Token(jar') # Token(jar)
               THEN {z \in Slots \ {s} : requests[z] # Absent} ELSE older \ {s}
  BY DEF Deliver
<1>6. next \in Answer \cup {Absent}
  BY <1>1, EditsAre DEF Answer
<1>7. codes' \in [Attempts -> {"none", "asked", "issued", "spent", "wasted"}] /\ NoCodeWasted'
  BY DEF Deliver, SessionInv, TypeOK, NoCodeWasted
<1>8. TypeOK'
  <2>1. requests' \in [Slots -> Requests \cup {Absent}]
    BY <1>4, <1>6 DEF SessionInv, TypeOK, Requests
  <2>2. left' \in BOOLEAN
    BY <1>3 DEF SessionInv, TypeOK
  <2>3. older' \subseteq Slots /\ fresh' \subseteq Tokens
    BY <1>4, <1>5 DEF SessionInv, TypeOK
  <2>. QED
    BY <1>1, <1>7, <2>1, <2>2, <2>3 DEF TypeOK, Requests
<1>9. OneCookie'
  BY <1>1, <1>2, SessionAssumption DEF SessionInv, OneCookie, NeverRevives, Edit
<1>10. LogoutIsFinal'
  <2>1. CASE logout
    BY <1>1, <1>2, <2>1, SessionAssumption DEF LogoutIsFinal, NoCookies
  <2>2. CASE left /\ ~renewed
    <3>1. jar.access = Absent /\ jar.legacy = Absent
      BY <2>2 DEF SessionInv, LogoutIsFinal
    <3>2. edit.access \in {Absent, "keep"}
      BY <1>1, <2>2 DEF Fits, FitsLogout, BringsNone, Edit
    <3>. QED
      BY <1>1, <1>2, <3>1, <3>2 DEF NeverRevives, LogoutIsFinal
  <2>. QED
    BY <1>3, <2>1, <2>2 DEF LogoutIsFinal
<1>11. ASSUME NEW z \in Slots, requests'[z] # Absent PROVE Fits(z, requests[z])'
  <2>1. CASE z = s
    <3>1. requests'[z] = next /\ next.phase = "relaying"
      BY <1>1, <1>4, <1>11, <2>1 DEF SessionInv, TypeOK, Answer
    <3>. QED
      BY <3>1 DEF Fits, FitsRoute, FitsSession, FitsLogout
  <2>2. CASE z # s
    <3>1. requests'[z] = requests[z]
      BY <1>4, <2>2 DEF SessionInv, TypeOK
    <3>2. Fits(z, requests[z])
      BY <1>11, <3>1 DEF SessionInv
    <3>3. z \notin older' =>
            z \notin older /\ ~logout /\ Token(jar') = Token(jar) /\ (left' => left)
      BY <1>3, <1>5, <1>11, <2>2, <3>1
    <3>4. FitsRoute(requests[z])'
      BY <3>1, <3>2 DEF Fits, FitsRoute
    <3>5. ASSUME z \notin older' PROVE FitsSession(requests[z])'
      BY <1>4, <3>1, <3>2, <3>3, <3>5 DEF Fits, FitsSession, Harmless
    <3>6. ASSUME z \notin older', left' PROVE FitsLogout(requests[z])'
      BY <3>1, <3>2, <3>3, <3>6 DEF Fits, FitsLogout, Token
    <3>. QED
      BY <3>4, <3>5, <3>6 DEF Fits
  <2>. QED
    BY <2>1, <2>2
<1>. QED
  BY <1>7, <1>8, <1>9, <1>10, <1>11 DEF SessionInv

(* Neither the lapse of a cookie nor that of a token ends a good session.  *)
LEMMA FadesPreserves ==
    ASSUME SessionInv, jar' \in Jar, fresh' \subseteq fresh, UNCHANGED <<requests, left, older>>,
           codes' \in [Attempts -> {"none", "asked", "issued", "spent", "wasted"}],
           NoCodeWasted', OneCookie', LogoutIsFinal',
           Token(jar') = Token(jar) \/ Token(jar') \notin fresh'
    PROVE  SessionInv'
<1>1. TypeOK'
  BY DEF SessionInv, TypeOK
<1>2. ASSUME NEW z \in Slots, requests'[z] # Absent PROVE Fits(z, requests[z])'
  <2>1. Fits(z, requests[z])
    BY <1>2 DEF SessionInv
  <2>2. FitsSession(requests[z]) => FitsSession(requests[z])'
    BY DEF FitsSession, Harmless
  <2>3. /\ FitsRoute(requests[z])' <=> FitsRoute(requests[z])
        /\ FitsLogout(requests[z])' <=> FitsLogout(requests[z])
    BY DEF FitsRoute, FitsLogout, Token
  <2>. QED
    BY <2>1, <2>2, <2>3 DEF Fits
<1>. QED
  BY <1>1, <1>2 DEF SessionInv

LEMMA LapsePreserves ==
    ASSUME SessionInv, NEW c \in Cookies, Lapse(c)
    PROVE  SessionInv' /\ (Token(jar) \in fresh => Token(jar') = Token(jar))
<1>1. /\ jar[c] # Absent /\ jar' = [jar EXCEPT ![c] = Absent]
      /\ c # "login" => jar[c] \notin fresh
      /\ UNCHANGED <<requests, codes, fresh, left, older>>
  BY DEF Lapse
<1>2. jar \in Jar /\ OneCookie /\ Absent \notin fresh
  BY SessionAssumption DEF SessionInv, TypeOK, Tokens
<1>3. CASE c = "login"
  <2>1. jar' \in Jar /\ jar'.access = jar.access /\ jar'.legacy = jar.legacy
    BY <1>1, <1>2, <1>3 DEF Jar
  <2>. QED
    BY <1>1, <2>1, FadesPreserves
    DEF SessionInv, TypeOK, Token, OneCookie, NoCodeWasted, LogoutIsFinal
<1>4. CASE c = "access"
  <2>1. /\ jar' \in Jar /\ jar'.access = Absent /\ jar'.legacy = jar.legacy
        /\ jar.legacy = Absent /\ jar.access \notin fresh
    BY <1>1, <1>2, <1>4 DEF Jar, OneCookie
  <2>. QED
    BY <1>1, <1>2, <2>1, FadesPreserves
    DEF SessionInv, TypeOK, Token, OneCookie, NoCodeWasted, LogoutIsFinal
<1>5. CASE c = "legacy"
  <2>1. /\ jar' \in Jar /\ jar'.legacy = Absent /\ jar'.access = jar.access
        /\ jar.access = Absent /\ jar.legacy \notin fresh
    BY <1>1, <1>2, <1>5 DEF Jar, OneCookie
  <2>. QED
    BY <1>1, <1>2, <2>1, FadesPreserves
    DEF SessionInv, TypeOK, Token, OneCookie, NoCodeWasted, LogoutIsFinal
<1>. QED
  BY <1>3, <1>4, <1>5 DEF Cookies

LEMMA ExpirePreserves == ASSUME SessionInv, NEW t \in Tokens, Expire(t) PROVE SessionInv'
  BY FadesPreserves DEF Expire, SessionInv, TypeOK, Token, OneCookie, NoCodeWasted, LogoutIsFinal

LEMMA SignInPreserves == ASSUME SessionInv, NEW a \in Attempts, SignIn(a) PROVE SessionInv'
  BY FadesPreserves DEF SignIn, SessionInv, TypeOK, Token, OneCookie, NoCodeWasted, LogoutIsFinal

LEMMA TokenEndpointPreserves ==
    ASSUME SessionInv, NEW s \in Slots, TokenEndpoint(s) PROVE SessionInv'
<1>. DEFINE q == requests[s]
            r == [q EXCEPT !.phase = "tokens"]
<1>1. q # Absent /\ q.phase = "exchanging"
  BY DEF TokenEndpoint
<1>2. q \in Exchange /\ q.login = q.attempt
  BY <1>1, AbsentIsNoRequest, PhaseOf DEF SessionInv, Fits, FitsRoute
<1>3. r \in Exchange /\ r.phase = "tokens" /\ r.login = r.attempt
  BY <1>2 DEF Exchange
<1>4. /\ codes' = [codes EXCEPT ![q.attempt] = "spent"]
      /\ requests' = [requests EXCEPT ![s] = r]
      /\ UNCHANGED <<jar, fresh, left, older>>
  BY <1>2 DEF TokenEndpoint
<1>5. TypeOK' /\ NoCodeWasted' /\ OneCookie' /\ LogoutIsFinal'
  BY <1>3, <1>4 DEF SessionInv, TypeOK, NoCodeWasted, OneCookie, LogoutIsFinal
<1>6. ASSUME NEW z \in Slots, requests'[z] # Absent PROVE Fits(z, requests[z])'
  <2>1. CASE z = s
    <3>1. requests'[z] = r
      BY <1>4, <2>1 DEF SessionInv, TypeOK
    <3>. QED
      BY <1>3, <3>1 DEF Fits, FitsRoute, FitsSession, FitsLogout
  <2>2. CASE z # s
    <3>1. requests'[z] = requests[z] /\ Fits(z, requests[z])
      BY <1>4, <1>6, <2>2 DEF SessionInv, TypeOK
    <3>. QED
      BY <1>4, <3>1 DEF Token, Fits, FitsRoute, FitsSession, FitsLogout, Harmless
  <2>. QED
    BY <2>1, <2>2
<1>. QED
  BY <1>5, <1>6 DEF SessionInv
-----------------------------------------------------------------------------
LEMMA SessionInitHolds == Init => SessionInv
<1>. SUFFICES ASSUME Init PROVE SessionInv
  OBVIOUS
<1>1. TypeOK
  BY DEF Init, TypeOK, Jar, Tokens
<1>2. OneCookie /\ NoCodeWasted /\ LogoutIsFinal
  BY DEF Init, OneCookie, NoCodeWasted, LogoutIsFinal
<1>. QED
  BY <1>1, <1>2 DEF Init, SessionInv

LEMMA SessionNextKeeps == SessionInv /\ [Next]_vars => SessionInv'
<1>. SUFFICES ASSUME SessionInv, [Next]_vars PROVE SessionInv'
  OBVIOUS
<1>1. ASSUME NEW s \in Slots,
             \/ SendAny(s) \/ Deliver(s) \/ Lose(s) \/ TokenEndpoint(s) \/ Serve(s)
             \/ RefuseTokens(s) \/ AcceptTokens(s) \/ ReadBody(s) \/ BodyBreaks(s)
             \/ UpstreamAnswers(s) \/ UpstreamFails(s) \/ Relay(s) \/ RelayBreaks(s)
      PROVE  SessionInv'
  BY <1>1, SendAnyPreserves, DeliverPreserves, LosePreserves, TokenEndpointPreserves,
     ServeLoginPreserves, ServeCallbackPreserves, ServeLogoutPreserves,
     ServePagePreserves, ServeBackendPreserves, RefuseTokensPreserves,
     AcceptTokensPreserves, ReadBodyPreserves, BodyBreaksPreserves,
     UpstreamAnswersPreserves, UpstreamFailsPreserves, RelayPreserves,
     RelayBreaksPreserves DEF Serve
<1>2. ASSUME NEW c \in Cookies, Lapse(c) PROVE SessionInv'
  BY <1>2, LapsePreserves
<1>3. ASSUME NEW a \in Attempts, SignIn(a) PROVE SessionInv'
  BY <1>3, SignInPreserves
<1>4. ASSUME NEW t \in Tokens, Expire(t) PROVE SessionInv'
  BY <1>4, ExpirePreserves
<1>5. CASE UNCHANGED vars
  BY <1>5, FadesPreserves
  DEF vars, SessionInv, TypeOK, Token, OneCookie, NoCodeWasted, LogoutIsFinal
<1>. QED
  BY <1>1, <1>2, <1>3, <1>4, <1>5 DEF Next

LEMMA SessionInvariant == Spec => []SessionInv
  BY SessionInitHolds, SessionNextKeeps, PTL DEF Spec

(* Only a delivered answer changes a good session.                         *)
LEMMA JarStep ==
    ASSUME SessionInv, [Next]_vars, Token(jar) \in fresh, Token(jar') # Token(jar)
    PROVE  \E s \in Slots : Deliver(s)
<1>1. CASE jar' = jar
  BY <1>1
<1>2. ASSUME NEW c \in Cookies, Lapse(c) PROVE FALSE
  BY <1>2, LapsePreserves
<1>3. ASSUME NEW s \in Slots,
             \/ SendAny(s) \/ Lose(s) \/ TokenEndpoint(s) \/ Serve(s)
             \/ RefuseTokens(s) \/ AcceptTokens(s) \/ ReadBody(s) \/ BodyBreaks(s)
             \/ UpstreamAnswers(s) \/ UpstreamFails(s) \/ Relay(s) \/ RelayBreaks(s)
      PROVE  jar' = jar
  <2>1. CASE SendAny(s) \/ Lose(s) \/ TokenEndpoint(s)
    BY <2>1 DEF SendAny, SendCallback, Send, Lose, TokenEndpoint
  <2>2. CASE Serve(s)
    BY <2>2 DEF Serve, ServeLogin, ServeCallback, ServeLogout, ServePage, ServeBackend, Step
  <2>3. CASE RefuseTokens(s) \/ AcceptTokens(s) \/ ReadBody(s) \/ BodyBreaks(s)
    BY <2>3 DEF RefuseTokens, AcceptTokens, ReadBody, BodyBreaks, Step
  <2>4. CASE UpstreamAnswers(s) \/ UpstreamFails(s) \/ Relay(s) \/ RelayBreaks(s)
    BY <2>4 DEF UpstreamAnswers, UpstreamFails, Relay, RelayBreaks, Step, Lose
  <2>. QED
    BY <1>3, <2>1, <2>2, <2>3, <2>4
<1>. QED
  BY <1>1, <1>2, <1>3 DEF Next, SignIn, Expire, vars

LEMMA DeliverKeeps ==
    ASSUME SessionInv, NEW s \in Slots, Deliver(s), Token(jar) \in fresh,
           Token(jar') # Token(jar)
    PROVE  s \in older \/ requests[s].reason # "none"
<1>. SUFFICES ASSUME s \notin older, requests[s].reason = "none" PROVE FALSE
  OBVIOUS
<1>1. Harmless(requests[s].edit)
  BY DeliverFacts DEF Fits, FitsSession
<1>2. Absent \notin fresh /\ "keep" \notin fresh
  BY SessionAssumption DEF SessionInv, TypeOK, Tokens
<1>. QED
  BY <1>1, <1>2, DeliverFacts, SessionAssumption DEF Harmless, Token

(* Every variable of the session keeps its type.                           *)
THEOREM SessionTypeCorrect == Spec => []TypeOK
<1>1. SessionInv => TypeOK
  BY DEF SessionInv
<1>. QED
  BY <1>1, SessionInvariant, PTL

(* However many logins and requests overlap, an authorization code only    *)
(* reaches the token endpoint with the verifier of its own login.          *)
THEOREM CodesAreNotWasted == Spec => []NoCodeWasted
<1>1. SessionInv => NoCodeWasted
  BY DEF SessionInv
<1>. QED
  BY <1>1, SessionInvariant, PTL

(* After a logout has reached the browser there is no session, in either   *)
(* cookie, before the next login, whatever was in flight when it arrived   *)
(* except a migration that was already on its way.                         *)
THEOREM LogoutEndsTheSession == Spec => []LogoutIsFinal
<1>1. SessionInv => LogoutIsFinal
  BY DEF SessionInv
<1>. QED
  BY <1>1, SessionInvariant, PTL

(* A good session ends only by one of the answers that may end it, in any  *)
(* order of any number of answers.                                         *)
THEOREM GoodSessionKept == Spec => SessionKept
<1>1. ASSUME SessionInv, [Next]_vars
      PROVE  [Token(jar) \in fresh /\ Token(jar') # Token(jar) =>
                \E s \in Slots :
                  /\ requests[s] # Absent /\ Deliver(s)
                  /\ s \in older \/ requests[s].reason # "none"]_vars
  BY <1>1, JarStep, DeliverKeeps DEF Deliver
<1>. QED
  BY <1>1, SessionInvariant, PTL DEF Spec, SessionKept
=============================================================================

-------------------------- MODULE OperatorSession --------------------------
(***************************************************************************)
(* The session of an operator between one browser and the web server.      *)
(*                                                                         *)
(* The server keeps nothing: the whole session is in the browser's cookies *)
(* and every answer of the server is a partial edit of them, applied when  *)
(* it reaches the browser.  A request carries the cookies as they were     *)
(* when it was sent.  Tabs, polls and redirects have several requests in   *)
(* flight, so an answer may edit cookies that its request never saw.       *)
(*                                                                         *)
(* Routes: auth/login, auth/callback, auth/logout, the page guard of       *)
(* proxy.ts, and backend/[...path], which relays the console's calls to    *)
(* the API.  The cookies for state, nonce and verifier are always set and  *)
(* cleared together; they are one cookie, "login", whose value is the      *)
(* attempt they belong to.  A code, its nonce and the access token it      *)
(* buys are named by their attempt too.  Bodies are counted in units.      *)
(*                                                                         *)
(* Left out: the bodies of error answers, content security policy, and a   *)
(* server that is not configured for authentication.                       *)
(***************************************************************************)
EXTENDS Naturals, FiniteSets

CONSTANTS
    Attempts,     \* logins that may be started (bounds the logins)
    OldToken,     \* the token a release before the __Host- cookies stored
    Slots,        \* requests the browser may have in flight (bounds them)
    MaxRequest,   \* maxRequestBodyBytes
    MaxAnswer,    \* maxResponseBodyBytes
    MaxChunk,     \* the longest chunk a body arrives in (bound)
    Absent

ASSUME SessionAssumption ==
    /\ MaxRequest \in Nat /\ MaxAnswer \in Nat /\ MaxChunk \in Nat
    /\ OldToken \notin Attempts
    /\ Absent \notin Attempts \cup {OldToken}
    /\ "keep" \notin Attempts \cup {OldToken, Absent}

VARIABLES
    jar,        \* the browser's cookies
    requests,   \* what is in flight, Absent for a free slot
    codes,      \* the authorization code of each attempt, at the provider
    fresh,      \* tokens whose exp is more than 30 seconds away
    \* History, read by no action of the code:
    left,       \* a logout arrived, and nothing has renewed the session since
    older       \* requests sent before the last logout or change of session

vars == <<jar, requests, codes, fresh, left, older>>

Tokens == Attempts \cup {OldToken}
Cookies == {"login", "access", "legacy"}
Jar == [login : Attempts \cup {Absent}, access : Tokens \cup {Absent},
        legacy : Tokens \cup {Absent}]
Edit == [login : Attempts \cup {Absent, "keep"}, access : Tokens \cup {Absent, "keep"},
         legacy : Tokens \cup {Absent, "keep"}]

(* A request on its way, with the cookies its route reads, and for a       *)
(* callback the code and state of an attempt; own says that its headers    *)
(* name the application's own origin.                                      *)
Sent == [phase : {"sent"}, kind : {"login", "callback", "logout", "page", "read", "command"},
         own : BOOLEAN, attempt : Attempts \cup {Absent}, jar : Jar]
(* A callback at the token endpoint, or with the tokens it answered.       *)
Exchange == [phase : {"exchanging", "tokens"}, kind : {"callback"},
             attempt : Attempts, login : Attempts]
(* A call of the backend whose token is good: its body is read, then the   *)
(* API answers it.  edit is the migration its answer will carry.           *)
Call == [phase : {"reading", "upstream"}, kind : {"read", "command"}, edit : Edit,
         total : 0 .. MaxRequest + MaxChunk]
(* The answer, and the body that follows its headers.  reason: (history)   *)
(* why a session may end with it, if there is a reason.                    *)
Answer == [phase : {"answered", "relaying"},
           kind : {"login", "callback", "logout", "page", "read", "command"},
           edit : Edit, body : {"none", "counted", "stream"},
           total : 0 .. MaxAnswer + MaxChunk,
           reason : {"none", "logout", "login", "keys"}]

NoEdit == [login |-> "keep", access |-> "keep", legacy |-> "keep"]
NoCookies == [login |-> Absent, access |-> Absent, legacy |-> Absent]
ClearSession == [login |-> "keep", access |-> Absent, legacy |-> Absent]

Applied(edit) ==
    [c \in Cookies |-> IF edit[c] = "keep" THEN jar[c] ELSE edit[c]]

(* currentToken || legacyToken                                             *)
Token(j) == IF j.access # Absent THEN j.access ELSE j.legacy

(* The token of the old cookie moves to the new one.                       *)
Migrated(j) ==
    IF j.access = Absent /\ j.legacy # Absent
    THEN [login |-> "keep", access |-> j.legacy, legacy |-> Absent]
    ELSE NoEdit

Reads(kind) ==
    CASE kind = "callback" -> {"login"}
      [] kind \in {"page", "read", "command"} -> {"access", "legacy"}
      [] OTHER -> {}

Init ==
    /\ jar \in [login : {Absent}, access : {Absent}, legacy : {Absent, OldToken}]
    /\ requests = [s \in Slots |-> Absent]
    /\ codes = [a \in Attempts |-> "none"]
    /\ fresh = Tokens
    /\ left = FALSE
    /\ older = {}

-----------------------------------------------------------------------------
(* The browser.                                                            *)

Send(s, kind, own, attempt) ==
    /\ requests[s] = Absent
    /\ requests' = [requests EXCEPT ![s] =
         [phase |-> "sent", kind |-> kind, own |-> own, attempt |-> attempt,
          jar |-> [c \in Cookies |-> IF c \in Reads(kind) THEN jar[c] ELSE Absent]]]
    /\ UNCHANGED <<jar, codes, fresh, left, older>>

(* Back from the provider: with the code and state of the attempt, also a  *)
(* second time, or with an error and no code.                              *)
SendCallback(s) ==
    \/ Send(s, "callback", TRUE, Absent)
    \/ \E a \in Attempts :
         /\ codes[a] \in {"issued", "spent", "wasted"}
         /\ Send(s, "callback", TRUE, a)

SendAny(s) ==
    \/ \E kind \in {"login", "page", "read"} : Send(s, kind, TRUE, Absent)
    \/ \E kind \in {"logout", "command"}, own \in BOOLEAN : Send(s, kind, own, Absent)
    \/ SendCallback(s)

(* The answer's Set-Cookie headers reach the browser; after a login's the  *)
(* tab goes to the provider.  The body of a backend answer follows.        *)
Deliver(s) ==
    LET r == requests[s]
        logout == r.kind = "logout" /\ r.edit # NoEdit
        renewed == r.edit.access \in Tokens /\ (r.kind = "callback" \/ s \in older)
    IN
    /\ r # Absent /\ r.phase = "answered"
    /\ jar' = Applied(r.edit)
    /\ requests' = [requests EXCEPT ![s] =
         IF r.body = "none" THEN Absent
         ELSE [r EXCEPT !.phase = "relaying", !.edit = NoEdit]]
    /\ codes' = IF r.kind = "login"
                THEN [codes EXCEPT ![r.edit.login] = "asked"] ELSE codes
    /\ left' = (logout \/ (left /\ ~renewed))
    /\ older' = IF logout \/ Token(jar') # Token(jar)
                THEN {z \in Slots \ {s} : requests[z] # Absent} ELSE older \ {s}
    /\ UNCHANGED fresh

(* The connection breaks, or the tab is closed: the answer is never seen.  *)
Lose(s) ==
    /\ requests[s] # Absent
    /\ requests' = [requests EXCEPT ![s] = Absent]
    /\ older' = older \ {s}
    /\ UNCHANGED <<jar, codes, fresh, left>>

(* Max-Age: 300 seconds for a login, at most the life of its token for a   *)
(* session.                                                                *)
Lapse(c) ==
    /\ jar[c] # Absent
    /\ c # "login" => jar[c] \notin fresh
    /\ jar' = [jar EXCEPT ![c] = Absent]
    /\ UNCHANGED <<requests, codes, fresh, left, older>>

-----------------------------------------------------------------------------
(* The identity provider.                                                  *)

SignIn(a) ==
    /\ codes[a] = "asked"
    /\ codes' = [codes EXCEPT ![a] = "issued"]
    /\ UNCHANGED <<jar, requests, fresh, left, older>>

(* A code buys tokens once, and only with the verifier of its attempt.     *)
TokenEndpoint(s) ==
    LET r == requests[s] IN
    /\ r # Absent /\ r.phase = "exchanging"
    /\ codes[r.attempt] = "issued"
    /\ IF r.login = r.attempt
       THEN /\ codes' = [codes EXCEPT ![r.attempt] = "spent"]
            /\ requests' = [requests EXCEPT ![s].phase = "tokens"]
       ELSE /\ codes' = [codes EXCEPT ![r.attempt] = "wasted"]
            /\ UNCHANGED requests
    /\ UNCHANGED <<jar, fresh, left, older>>

Expire(t) ==
    /\ t \in fresh
    /\ t \in Attempts => codes[t] = "spent"
    /\ fresh' = fresh \ {t}
    /\ UNCHANGED <<jar, requests, codes, left, older>>

-----------------------------------------------------------------------------
(* The server.                                                             *)

Step(s, r) ==
    /\ requests' = [requests EXCEPT ![s] = r]
    /\ UNCHANGED <<jar, codes, fresh, left, older>>

Answered(r, edit) ==
    [phase |-> "answered", kind |-> r.kind, edit |-> edit, body |-> "none",
     total |-> 0, reason |-> "none"]

(* verifyAccessToken: a good token may be refused as well, when the keys   *)
(* of the provider cannot be had within 5 seconds.                         *)
Verified(t) == t \in fresh

(* invalid_authentication, or the way to the login page: both cookies go.  *)
Refused(r) ==
    [Answered(r, ClearSession) EXCEPT
        !.reason = IF Verified(Token(r.jar)) THEN "keys" ELSE "none"]

Serving(s, kinds, phase) ==
    requests[s] # Absent /\ requests[s].kind \in kinds /\ requests[s].phase = phase

(* GET /auth/login: state, nonce and verifier of a new attempt.            *)
ServeLogin(s) ==
    /\ Serving(s, {"login"}, "sent")
    /\ \E a \in Attempts :
         /\ codes[a] = "none"
         /\ Step(s, Answered(requests[s], [NoEdit EXCEPT !.login = a]))

StateMatchesAny(r) == r.attempt # Absent /\ r.jar.login # Absent
StateMatches(r) == r.attempt # Absent /\ r.jar.login # Absent /\ r.attempt = r.jar.login

FinishEditAll == NoCookies
FinishEdit == [NoEdit EXCEPT !.login = Absent]

(* GET /auth/callback, up to the call of the token endpoint.               *)
ServeCallback(s) ==
    /\ Serving(s, {"callback"}, "sent")
    /\ LET r == requests[s] IN
       Step(s, IF StateMatches(r)
               THEN [phase |-> "exchanging", kind |-> "callback",
                     attempt |-> r.attempt, login |-> r.jar.login]
               ELSE Answered(r, FinishEdit))

(* The exchange is refused, fails, takes longer than 10 seconds, or its    *)
(* answer is too long, malformed or does not verify.                       *)
RefuseTokens(s) ==
    /\ Serving(s, {"callback"}, "exchanging") \/ Serving(s, {"callback"}, "tokens")
    /\ Step(s, Answered(requests[s], FinishEdit))

AcceptTokens(s) ==
    LET r == requests[s] IN
    /\ Serving(s, {"callback"}, "tokens")
    /\ r.login = r.attempt             \* the nonce of the ID token
    /\ Verified(r.attempt)
    /\ Step(s, [Answered(r, [login |-> Absent, access |-> r.attempt, legacy |-> Absent])
                   EXCEPT !.reason = "login"])

LogoutEditNew == [NoEdit EXCEPT !.login = Absent, !.access = Absent]
LogoutEdit == NoCookies

SameOrigin(r) == r.own

(* POST /auth/logout                                                       *)
ServeLogout(s) ==
    /\ Serving(s, {"logout"}, "sent")
    /\ LET r == requests[s] IN
       Step(s, [Answered(r, IF SameOrigin(r) THEN LogoutEdit ELSE NoEdit)
                  EXCEPT !.reason = IF r.own THEN "logout" ELSE "none"])

(* A page of the console: proxy.ts.                                        *)
ServePage(s) ==
    /\ Serving(s, {"page"}, "sent")
    /\ LET r == requests[s]
           t == Token(r.jar)
       IN \/ t = Absent /\ Step(s, Answered(r, NoEdit))
          \/ Verified(t) /\ Step(s, Answered(r, Migrated(r.jar)))
          \/ t # Absent /\ Step(s, Refused(r))

(* backend/[...path], up to the first read of the body.  A path that is    *)
(* not under api/ or a declared length over the limit is refused; a length *)
(* that is not declared is only found out by reading.                      *)
ServeBackend(s) ==
    /\ Serving(s, {"read", "command"}, "sent")
    /\ LET r == requests[s]
           t == Token(r.jar)
           phase == IF r.kind = "read" THEN "upstream" ELSE "reading"
       IN IF t = Absent \/ (r.kind = "command" /\ ~SameOrigin(r))
          THEN Step(s, Answered(r, NoEdit))
          ELSE \/ Step(s, Refused(r))
               \/ Verified(t) /\ Step(s, Answered(r, NoEdit))    \* 400 or 413
               \/ Verified(t) /\ Step(s, [phase |-> phase, kind |-> r.kind,
                                          edit |-> Migrated(r.jar), total |-> 0])

TooLong(total, limit) == total > limit

(* readBoundedBody: the next chunk, or the end of the body.                *)
ReadBody(s) ==
    LET r == requests[s] IN
    /\ Serving(s, {"command"}, "reading")
    /\ \/ Step(s, [r EXCEPT !.phase = "upstream"])
       \/ \E total \in r.total + 1 .. r.total + MaxChunk :
            Step(s, IF TooLong(total, MaxRequest) THEN Answered(r, NoEdit)
                    ELSE [r EXCEPT !.total = total])

BodyBreaks(s) ==
    /\ Serving(s, {"command"}, "reading")
    /\ Step(s, Answered(requests[s], NoEdit))

(* The API answers, with or without a body; it is relayed after the        *)
(* headers.                                                                *)
UpstreamAnswers(s) ==
    /\ Serving(s, {"read", "command"}, "upstream")
    /\ \E body \in {"none", "counted", "stream"} :
         Step(s, [Answered(requests[s], requests[s].edit) EXCEPT !.body = body])

(* 502: no answer within 15 seconds, or one whose declared length is over  *)
(* the limit.                                                              *)
UpstreamFails(s) ==
    /\ Serving(s, {"read", "command"}, "upstream")
    /\ Step(s, Answered(requests[s], NoEdit))

(* boundedResponseBody.pull: the next chunk, an error when it is too long, *)
(* or the end.  An event stream is passed through and not counted.         *)
Relay(s) ==
    LET r == requests[s] IN
    /\ Serving(s, {"read", "command"}, "relaying")
    /\ \/ Lose(s)
       \/ /\ r.body = "counted"
          /\ \E total \in r.total + 1 .. r.total + MaxChunk :
               IF TooLong(total, MaxAnswer) THEN Lose(s)
               ELSE Step(s, [r EXCEPT !.total = total])

(* The time limit of the fetch runs on while the body is relayed, and for  *)
(* an event stream too.                                                    *)
RelayBreaks(s) == Serving(s, {"read", "command"}, "relaying") /\ Lose(s)

Serve(s) ==
    \/ ServeLogin(s) \/ ServeCallback(s) \/ ServeLogout(s) \/ ServePage(s)
    \/ ServeBackend(s)

Next ==
    \/ \E s \in Slots :
         \/ SendAny(s) \/ Deliver(s) \/ Lose(s) \/ TokenEndpoint(s) \/ Serve(s)
         \/ RefuseTokens(s) \/ AcceptTokens(s) \/ ReadBody(s) \/ BodyBreaks(s)
         \/ UpstreamAnswers(s) \/ UpstreamFails(s) \/ Relay(s) \/ RelayBreaks(s)
    \/ \E c \in Cookies : Lapse(c)
    \/ \E a \in Attempts : SignIn(a)
    \/ \E t \in Tokens : Expire(t)

Spec == Init /\ [][Next]_vars
-----------------------------------------------------------------------------
(* The variables have the types their comments say.                        *)
TypeOK ==
    /\ jar \in Jar
    /\ requests \in [Slots -> Sent \cup Exchange \cup Call \cup Answer \cup {Absent}]
    /\ codes \in [Attempts -> {"none", "asked", "issued", "spent", "wasted"}]
    /\ fresh \subseteq Tokens
    /\ left \in BOOLEAN
    /\ older \subseteq Slots

(* A login that one tab starts while another is at the provider replaces   *)
(* its verifier: the code the other tab comes back with is never sent to   *)
(* the token endpoint with the wrong one (callback/route.ts:27).           *)
NoCodeWasted == \A a \in Attempts : codes[a] # "wasted"

(* Once a logout has reached the browser there is no session, in the new   *)
(* cookie or the old, until a login succeeds; only requests that were      *)
(* already on their way could bring one back (logout/route.ts:21).         *)
LogoutIsFinal == left => jar.access = Absent /\ jar.legacy = Absent

(* A session whose token is good is only ended, or exchanged for another,  *)
(* by a logout from a page of the console, a login that succeeded, an      *)
(* answer to a request that was sent before the session began, or one that *)
(* was refused while the keys could not be had: no failed login, page      *)
(* guard, refused call or request from elsewhere ends it (proxy.ts:27,     *)
(* route.ts:29, request-origin.ts:4).                                      *)
SessionKept ==
    [][Token(jar) \in fresh /\ Token(jar') # Token(jar) =>
         \E s \in Slots :
           /\ requests[s] # Absent /\ Deliver(s)
           /\ s \in older \/ requests[s].reason # "none"]_vars
=============================================================================

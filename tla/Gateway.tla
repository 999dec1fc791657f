------------------------------ MODULE Gateway ------------------------------
(***************************************************************************)
(* The auth gateway (internal/gateway/gateway.go) over the session store.  *)
(* Each request is a goroutine of its own: it passes the guards, takes an  *)
(* anti-CSRF token from the cache or fetches one, is forwarded with the    *)
(* identity's session, and, when the answer looks logged out, re-logs in,  *)
(* drops the cached token and, for an idempotent method, is sent once more.*)
(*                                                                         *)
(* The target is the environment: it knows which credentials are valid,    *)
(* may revoke them, checks anti-CSRF tokens, and may fail.  An anti-CSRF   *)
(* token is represented by the credentials it is bound to.                 *)
(***************************************************************************)
EXTENDS SessionStore

CONSTANTS Method, Idempotent,   \* methods, and those IsIdempotent accepts
          Covered,              \* methods the identity's CSRF policy names
          CsrfTTL,              \* csrfTTL
          RequireToken,         \* --gateway-token is set
          SingleSession,        \* a login at the target ends the previous session
          MaxRevokes,           \* bound: sessions the target ends on its own
          MaxFailures,          \* bound: logins that fail
          MaxFalseAlarms        \* bound: executed requests that look logged out

ASSUME GatewayAssumption ==
  /\ Idempotent \subseteq Method /\ Covered \subseteq Method
  /\ CsrfTTL \in Nat
  /\ RequireToken \in BOOLEAN /\ SingleSession \in BOOLEAN
  /\ MaxRevokes \in Nat /\ MaxFailures \in Nat /\ MaxFalseAlarms \in Nat

VARIABLES
  req,          \* the state of each request (serve's locals)
  cache,        \* csrfCache
  valid,        \* target: credentials it accepts
  issued,       \* target: logins it has answered
  revoked,      \* target: credentials it ended on its own
  failures,     \* logins that failed
  falseAlarms,  \* false alarms so far
  floor         \* history: the session of the last reauth that emptied the cache

target == <<valid, issued, revoked, failures, falseAlarms>>
gvars  == <<vars, req, cache, target, floor>>

Stage == {"new", "csrf", "csrfGet", "csrfFetch", "forward", "forwardGet", "sent",
          "answered", "reauth", "replied"}

\* csrf, sent, first and fetch name credentials; 0 is none.  round is 2 for the
\* retry, done counts executions at the target, excuse says why a logged-out
\* answer may reach the client.
NewRequest ==
  [stage |-> "new", ident |-> NoId, method |-> "none",
   round |-> 1, csrf |-> 0, fetch |-> 0, sent |-> 0, first |-> 0,
   resp |-> "none", done |-> 0, excuse |-> "none"]

NoToken == [tok |-> 0, at |-> 0]

GatewayInit ==
  /\ Init
  /\ req = [r \in Caller |-> NewRequest]
  /\ cache = [i \in Id |-> NoToken]
  /\ valid = [i \in Id |-> {}]
  /\ issued = {}
  /\ revoked = [i \in Id |-> {}]
  /\ failures = 0
  /\ falseAlarms = 0
  /\ floor = [i \in Id |-> 0]

At(r, stage)    == req[r].stage = stage
Managed(r)      == req[r].ident \in Id

AlwaysRetried(m) == m \in Method
NeverRetried(m)  == m \notin Method

IsIdempotent(m) == m \in Idempotent
NeedsToken(r)   == Managed(r) /\ req[r].method \in Covered

\* Where a (re)send starts.
Entrance(i, m) == IF i \in Id /\ m \in Covered THEN "csrf" ELSE "forward"

-----------------------------------------------------------------------------
(* Guards.                                                                 *)

Headers == [host : {"loopback", "other"}, origin : {"absent", "loopback", "other"},
            site : {"absent", "same-origin", "none", "cross-site"}, token : BOOLEAN]

Admissible(h) ==
  /\ h.host = "loopback"
  /\ h.origin \in {"absent", "loopback"}
  /\ h.site \in {"absent", "same-origin", "none"}
  /\ RequireToken => h.token

\* A request arrives for the identity of its listener; it is refused by a guard
\* (403), its body cannot be read (502), or it goes on.
Arrive(r, i, m) ==
  /\ At(r, "new")
  /\ \E h \in Headers :
       \/ /\ Admissible(h)
          /\ req' = [req EXCEPT ![r].ident = i, ![r].method = m,
                                ![r].stage = Entrance(i, m)]
       \/ req' = [req EXCEPT ![r].ident = i, ![r].method = m,
                             ![r].stage = "replied",
                             ![r].resp = IF Admissible(h) THEN "error" ELSE "refused"]
  /\ UNCHANGED <<vars, cache, target, floor>>

-----------------------------------------------------------------------------
(* The anti-CSRF token (csrfTokenFor).  A failure leaves the header as it was.*)

CacheFresh(ct) == ct # NoToken /\ now - ct.at < CsrfTTL

CsrfHit(r) ==
  /\ At(r, "csrf")
  /\ CacheFresh(cache[req[r].ident])
  /\ req' = [req EXCEPT ![r].csrf = cache[req[r].ident].tok, ![r].stage = "forward"]
  /\ UNCHANGED <<vars, cache, target, floor>>

CsrfMiss(r) ==
  /\ At(r, "csrf")
  /\ ~CacheFresh(cache[req[r].ident])
  /\ CallGet(r, req[r].ident)
  /\ req' = [req EXCEPT ![r].stage = "csrfGet"]
  /\ UNCHANGED <<cache, target, floor>>

\* Get returned: fetch the token page with that session.
CsrfSend(r) ==
  /\ At(r, "csrfGet")
  /\ Return(r)
  /\ \/ /\ res[r].kind = "ok"
        /\ req' = [req EXCEPT ![r].fetch = res[r].sess.tok, ![r].stage = "csrfFetch"]
     \/ /\ res[r].kind # "ok"
        /\ req' = [req EXCEPT ![r].stage = "forward"]
  /\ UNCHANGED <<cache, target, floor>>

\* The page arrives and its token is cached, or there is none in it.
CsrfFetched(r) ==
  /\ At(r, "csrfFetch")
  /\ \/ /\ cache' = [cache EXCEPT ![req[r].ident] = [tok |-> req[r].fetch, at |-> now]]
        /\ req' = [req EXCEPT ![r].csrf = req[r].fetch, ![r].stage = "forward"]
     \/ /\ req' = [req EXCEPT ![r].stage = "forward"]
        /\ UNCHANGED cache
  /\ UNCHANGED <<vars, target, floor>>

-----------------------------------------------------------------------------
(* Forwarding.                                                             *)

\* forward takes the session of a managed identity; other traffic has none.
Forward(r) ==
  /\ At(r, "forward")
  /\ \/ Managed(r) /\ CallGet(r, req[r].ident) /\ req' = [req EXCEPT ![r].stage = "forwardGet"]
     \/ ~Managed(r) /\ UNCHANGED vars /\ req' = [req EXCEPT ![r].stage = "sent"]
  /\ UNCHANGED <<cache, target, floor>>

\* forward returns an error: 502 the first time, the first answer on the retry.
ForwardFails(r, n) ==
  req' = [req EXCEPT ![r].stage = "replied", ![r].done = n,
                     ![r].resp = IF req[r].round = 1 THEN "error" ELSE @,
                     ![r].excuse = IF @ = "none" THEN "failed" ELSE @]

ForwardSend(r) ==
  /\ At(r, "forwardGet")
  /\ Return(r)
  /\ \/ /\ res[r].kind = "ok"
        /\ req' = [req EXCEPT ![r].sent = res[r].sess.tok, ![r].stage = "sent",
                              ![r].first = IF req[r].round = 1 THEN res[r].sess.tok ELSE @]
     \/ /\ res[r].kind # "ok"
        /\ ForwardFails(r, req[r].done)
  /\ UNCHANGED <<cache, target, floor>>

\* The target executes a request with valid credentials and, where it asks for
\* one, an anti-CSRF token bound to them.
Accepts(r)  == Managed(r) => req[r].sent \in valid[req[r].ident]
Executes(r) == Accepts(r) /\ (NeedsToken(r) => req[r].csrf = req[r].sent)

TargetAnswers(r) ==
  /\ At(r, "sent")
  /\ \/ /\ Executes(r)
        /\ req' = [req EXCEPT ![r].done = @ + 1, ![r].resp = "ok", ![r].stage = "answered"]
        /\ UNCHANGED falseAlarms
     \/ /\ Executes(r)
        /\ falseAlarms < MaxFalseAlarms
        /\ falseAlarms' = falseAlarms + 1
        /\ req' = [req EXCEPT ![r].done = @ + 1, ![r].resp = "logout",
                              ![r].stage = "answered",
                              ![r].excuse = IF req[r].round = 2 THEN "alarm" ELSE @]
     \/ /\ ~Executes(r)
        /\ req' = [req EXCEPT ![r].resp = IF Accepts(r) THEN "forbidden" ELSE "logout",
                              ![r].stage = "answered"]
        /\ UNCHANGED falseAlarms
  /\ UNCHANGED <<vars, cache, valid, issued, revoked, failures, floor>>

\* The exchange fails before or after the target executed the request.
TargetFails(r) ==
  /\ At(r, "sent")
  /\ \/ ForwardFails(r, req[r].done)
     \/ Executes(r) /\ ForwardFails(r, req[r].done + 1)
  /\ UNCHANGED <<vars, cache, target, floor>>

-----------------------------------------------------------------------------
(* Reauthentication and reply.                                             *)

LoggedOutAgain(r) == Managed(r) /\ req[r].resp = "logout"

\* The answer to the first send, not to the retry, matches the logout signature.
LoggedOut(r) == Managed(r) /\ req[r].resp = "logout" /\ req[r].round = 1

\* It does: Refresh.
Reauth(r) ==
  /\ At(r, "answered")
  /\ LoggedOut(r)
  /\ CallRefresh(r, req[r].ident)
  /\ req' = [req EXCEPT ![r].stage = "reauth"]
  /\ UNCHANGED <<cache, target, floor>>

\* Refresh returned: drop the cached token and retry what may be retried.
Reauthed(r) ==
  LET i == req[r].ident IN
  /\ At(r, "reauth")
  /\ Return(r)
  /\ \/ /\ res[r].kind = "ok"
        /\ cache' = [cache EXCEPT ![i] = NoToken]
        /\ floor' = [floor EXCEPT ![i] = res[r].sess.tok]
        /\ req' = IF IsIdempotent(req[r].method)
                  THEN [req EXCEPT ![r].round = @ + 1, ![r].sent = 0,
                                   ![r].stage = Entrance(i, req[r].method)]
                  ELSE [req EXCEPT ![r].stage = "replied"]
     \/ /\ res[r].kind # "ok"
        /\ req' = [req EXCEPT ![r].stage = "replied", ![r].excuse = res[r].kind]
        /\ UNCHANGED <<cache, floor>>
  /\ UNCHANGED target

\* Any other answer goes to the client.
Reply(r) ==
  /\ At(r, "answered")
  /\ ~LoggedOut(r)
  /\ req' = [req EXCEPT ![r].stage = "replied"]
  /\ UNCHANGED <<vars, cache, target, floor>>

-----------------------------------------------------------------------------
(* Logins at the target, and what it does on its own.                      *)

\* The target answers a login, before the store hears of it.
Issue(r) ==
  LET i == want[r] IN
  /\ LoggingIn(r)
  /\ login[r] \notin issued
  /\ issued' = issued \cup {login[r]}
  /\ valid' = [valid EXCEPT ![i] = IF SingleSession THEN {login[r]} ELSE @ \cup {login[r]}]
  /\ UNCHANGED <<vars, req, cache, revoked, failures, falseAlarms, floor>>

LoginOk(r) ==
  /\ login[r] \in issued
  /\ RecipeOk(r)
  /\ UNCHANGED <<req, cache, target, floor>>

LoginErr(r) ==
  /\ failures < MaxFailures
  /\ failures' = failures + 1
  /\ RecipeErr(r)
  /\ UNCHANGED <<req, cache, valid, issued, revoked, falseAlarms, floor>>

Revoke(i) ==
  /\ Cardinality(revoked[i]) < MaxRevokes
  /\ \E t \in valid[i] : /\ valid' = [valid EXCEPT ![i] = @ \ {t}]
                         /\ revoked' = [revoked EXCEPT ![i] = @ \cup {t}]
  /\ UNCHANGED <<vars, req, cache, issued, failures, falseAlarms, floor>>

-----------------------------------------------------------------------------
StoreStep(r) ==
  /\ GetEnter(r) \/ RefreshEnter(r)
  /\ UNCHANGED <<req, cache, target, floor>>

RequestStep(r) ==
  \/ CsrfHit(r) \/ CsrfMiss(r) \/ CsrfSend(r) \/ CsrfFetched(r)
  \/ Forward(r) \/ ForwardSend(r) \/ TargetAnswers(r) \/ TargetFails(r)
  \/ Reauth(r) \/ Reauthed(r) \/ Reply(r)
  \/ StoreStep(r) \/ Issue(r) \/ LoginOk(r) \/ LoginErr(r)

Served == (\A r \in Caller : At(r, "replied")) /\ UNCHANGED gvars

GatewayNext ==
  \/ \E r \in Caller : \/ \E i \in Id \cup Unmanaged, m \in Method : Arrive(r, i, m)
                       \/ RequestStep(r)
  \/ \E i \in Id : Revoke(i)
  \/ Tick /\ UNCHANGED <<req, cache, target, floor>>
  \/ Served

GatewaySpec == GatewayInit /\ [][GatewayNext]_gvars

-----------------------------------------------------------------------------
(* Properties.                                                             *)

Request ==
  [stage : Stage, ident : Id \cup Unmanaged \cup {NoId}, method : Method \cup {"none"},
   round : {1, 2}, csrf : Nat, fetch : Nat, sent : Nat, first : Nat,
   resp : {"none", "ok", "forbidden", "logout", "error", "refused"}, done : 0 .. 2,
   excuse : {"none", "failed", "alarm", "err", "limited"}]

\* Type correctness of the gateway, on top of the store's.
GatewayTypeOK ==
  /\ TypeOK
  /\ req \in [Caller -> Request]
  /\ cache \in [Id -> [tok : Nat, at : Nat]]
  /\ valid \in [Id -> SUBSET issued]
  /\ issued \subseteq 1 .. logins
  /\ revoked \in [Id -> SUBSET issued]
  /\ floor \in [Id -> Nat]

\* "A token dying mid-flight never causes a double" submission (docs/design.md:
\* 201-203, serve's IsIdempotent test): a request with a non-idempotent method is
\* executed at most once, even when its successful answer looks logged out.
AtMostOnce ==
  \A r \in Caller : req[r].method \notin Idempotent => req[r].done <= 1

\* The retry (serve, gateway.go:285) goes out with credentials newer than those
\* the target refused, whoever renewed them and however the renewals failed.
RetryUsesNewSession ==
  \A r \in Caller :
    req[r].round = 2 /\ req[r].sent # 0 => req[r].sent > req[r].first

\* "Claviger transparently re-authenticates and the tool never sees a 401"
\* (README.md:18-19): an idempotent request of a managed identity ends with a
\* logged-out answer only if its reauth or retry failed, the answer was a false
\* alarm, or the target ended the session of the retry as well.
Transparent ==
  \A r \in Caller :
    /\ At(r, "replied") /\ Managed(r) /\ req[r].method \in Idempotent
    /\ req[r].resp = "logout" /\ req[r].excuse = "none"
    => req[r].round = 2 /\ req[r].sent \in revoked[req[r].ident]

\* "A POST-heavy run does not stay wedged on a dead token" (gateway.go:258-263):
\* once a logged-out answer was handled, the store no longer serves the session
\* it came for, unless the backoff refused to renew it.
LogoutNotWedged ==
  \A r \in Caller :
    /\ At(r, "replied") /\ Managed(r)
    /\ req[r].resp = "logout" /\ req[r].excuse # "limited"
    => LET s == session[req[r].ident] IN ~(Usable(s) /\ s.tok = req[r].first)

\* What invalidateCSRF is called for (gateway.go:402-404): "a token bound to the
\* dead session is not reused; the next state-changing request fetches a fresh
\* one".  So the cache never holds a token from before the last reauth.
StaleTokenDropped ==
  \A i \in Id : cache[i] # NoToken => cache[i].tok >= floor[i]

-----------------------------------------------------------------------------
(* The inductive invariant behind AtMostOnce, RetryUsesNewSession and      *)
(* LogoutNotWedged.                                                        *)

\* Where a request's goroutine is in the store.
Places(stage) ==
  CASE stage \in {"csrfGet", "forwardGet"} -> {"getWait", "establish", "renew", "returned"}
    [] stage = "reauth"                    -> {"refreshWait", "recover", "returned"}
    [] OTHER                               -> {"idle"}

CallOK(r) ==
  /\ pc[r] \in Places(req[r].stage)
  /\ pc[r] # "idle" => want[r] = req[r].ident
  /\ req[r].stage \in {"csrf", "csrfGet", "csrfFetch", "forwardGet", "reauth"} => Managed(r)
  /\ pc[r] = "returned" => res[r].kind \in {"ok", "err", "limited"}

\* Only an idempotent request has a second round, and a round executes it once.
Unanswered == {"new", "csrf", "csrfGet", "csrfFetch", "forward", "forwardGet", "sent"}

RoundOK(r) ==
  /\ req[r].done <= req[r].round
  /\ req[r].stage \in Unanswered => req[r].done < req[r].round
  /\ req[r].stage \in {"new", "reauth"} => req[r].round = 1
  /\ req[r].stage = "new" => req[r].first = 0
  /\ req[r].stage \in Unanswered /\ req[r].round = 1 => req[r].resp = "none"
  /\ req[r].round = 2 => req[r].method \in Idempotent /\ Managed(r)

\* Credentials n are not those the store serves for i, now and from now on.
Retired(i, n) ==
  /\ n <= session[i].tok
  /\ session[i].tok = n => session[i].exp = Past \/ session[i] = Nil

\* The credentials of the first send are the store's or older, a Get of the second
\* round answers newer ones, and once the logged-out answer was handled the first are
\* retired.
FirstOK(r) ==
  LET i == req[r].ident  q == req[r]  told == pc[r] = "returned" IN
  Managed(r) =>
    /\ q.first <= session[i].tok
    /\ q.round = 2 => Retired(i, q.first) /\ (q.sent # 0 => q.sent > q.first)
    /\ q.stage = "forwardGet" /\ told /\ res[r].kind = "ok" =>
         res[r].sess.tok <= session[i].tok /\ (q.round = 2 => res[r].sess.tok > q.first)
    /\ q.stage = "reauth" /\ ~told => q.first <= before[r].tok
    /\ q.stage = "reauth" /\ told /\ res[r].kind # "limited" => Retired(i, q.first)
    /\ q.stage = "replied" /\ q.resp = "logout" /\ q.excuse # "limited" => Retired(i, q.first)

\* The state of every request agrees with the store's and the target's
\* (serve, gateway.go:190-308).
GatewayInv ==
  /\ GatewayTypeOK /\ StoreInv
  /\ \A r \in Caller : CallOK(r) /\ RoundOK(r) /\ FirstOK(r)

-----------------------------------------------------------------------------
(* The inductive invariant behind Transparent.                             *)

\* The target issued credentials t to i, and only a revocation of its own ended them.
Known(i, t) == t \in valid[i] \cup revoked[i]

\* The store and its callers have only credentials that the target issued.
LoginsOK ==
  /\ \A i \in Id : session[i] # Nil => Known(i, session[i].tok)
  /\ \A c \in Caller :
       /\ LoggingIn(c) => login[c] > 0
       /\ LoggingIn(c) /\ login[c] \in issued => Known(want[c], login[c])
       /\ \A d \in Caller \ {c} : LoggingIn(c) /\ LoggingIn(d) => login[c] # login[d]
       /\ pc[c] = "returned" /\ res[c].kind = "ok" => Known(want[c], res[c].sess.tok)

\* An unexcused logged-out answer came to a retry, for credentials the target ended.
TrafficOK(r) ==
  LET i == req[r].ident  q == req[r] IN
  Managed(r) =>
    /\ q.stage = "sent" => Known(i, q.sent)
    /\ /\ \/ q.stage = "answered" /\ q.round = 2
          \/ q.stage = "replied" /\ q.method \in Idempotent
       /\ q.resp = "logout" /\ q.excuse = "none"
       => q.round = 2 /\ q.sent \in revoked[i]

\* A target that lets the sessions of an identity coexist ends none but by itself.
TargetInv ==
  GatewayInv /\ (~SingleSession => LoginsOK /\ \A r \in Caller : TrafficOK(r))
=============================================================================

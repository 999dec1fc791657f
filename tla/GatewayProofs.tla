--------------------------- MODULE GatewayProofs ---------------------------
(***************************************************************************)
(* Proofs about Gateway, on top of the store's: for every set of identities*)
(* and requests, every policy and every behaviour of the target, in any    *)
(* interleaving.  Gateway steps are steps of the store or leave it alone,  *)
(* so StoreInv carries over; what is new is an invariant of each request.  *)
(***************************************************************************)
EXTENDS Gateway, SessionStoreProofs

\* What the lemmas below say of one request.
RequestOK(r) == CallOK(r) /\ RoundOK(r) /\ FirstOK(r)

\* A step of request r leaves the others alone.
SameCall(d) ==
  /\ pc'[d] = pc[d] /\ want'[d] = want[d] /\ before'[d] = before[d] /\ res'[d] = res[d]

LEMMA OthersCalls ==
  ASSUME TypeOK, NEW r \in Caller, NEW d \in Caller \ {r},
         \/ \E i \in Id \cup Unmanaged : CallGet(r, i) \/ CallRefresh(r, i)
         \/ CallerStep(r)
  PROVE  SameCall(d)
<1> USE DEF TypeOK, SameCall, Finish, Goto
<1>1. CASE \E i \in Id \cup Unmanaged : CallGet(r, i) \/ CallRefresh(r, i)
  BY <1>1 DEF CallGet, CallRefresh
<1>2. CASE GetEnter(r) \/ RefreshEnter(r)
  BY <1>2 DEF GetEnter, RefreshEnter, StartCounted, StartLogin
<1>3. CASE RecipeOk(r) \/ RecipeErr(r)
  BY <1>3 DEF RecipeOk, RecipeErr, Unlock
<1>4. CASE Return(r)
  BY <1>4 DEF Return
<1> QED BY <1>1, <1>2, <1>3, <1>4 DEF CallerStep

\* Retired credentials stay retired.
LEMMA RetiredStays ==
  ASSUME StoreInv, [AnyStep]_vars, NEW i \in Id, NEW n \in Nat
  PROVE  /\ n <= session[i].tok => n <= session'[i].tok
         /\ Retired(i, n) => Retired(i, n)'
<1>1. session[i].tok \in Nat /\ StoreInv'
  BY StoreInvStep DEF StoreInv, TypeOK, Session
<1>2. session'[i].tok \in Nat
  BY <1>1 DEF StoreInv, TypeOK, Session
<1> QED BY <1>1, <1>2, SessionMoves DEF Retired

\* A request that does not move stays well-formed, whatever the store does.
LEMMA StillOK ==
  ASSUME GatewayInv, [AnyStep]_vars, NEW d \in Caller, SameCall(d), req'[d] = req[d]
  PROVE  RequestOK(d)'
<1>1. req[d].ident \in Id => req[d].first \in Nat
  BY DEF GatewayInv, GatewayTypeOK, Request
<1>2. CallOK(d)' /\ RoundOK(d)'
  BY DEF GatewayInv, CallOK, RoundOK, SameCall, Managed
<1>3. ASSUME Managed(d) PROVE FirstOK(d)'
  <2>1. /\ StoreInv /\ FirstOK(d) /\ StoreInv'
        /\ req[d].ident \in Id /\ req[d].first \in Nat
    BY <1>1, <1>3, StoreInvStep DEF GatewayInv, Managed
  <2> DEFINE i == req[d].ident
  <2>2. /\ req[d].first <= session[i].tok => req[d].first <= session'[i].tok
        /\ Retired(i, req[d].first) => Retired(i, req[d].first)'
    BY <2>1, RetiredStays
  <2>3. ASSUME pc[d] = "returned" PROVE res[d].sess.tok \in Nat
    BY DEF GatewayInv, StoreInv, TypeOK, Result, Session
  <2>4. ASSUME pc[d] = "returned", res[d].sess.tok <= session[i].tok
        PROVE  res[d].sess.tok <= session'[i].tok
    BY <2>1, <2>3, <2>4, RetiredStays
  <2> QED BY <1>3, <2>1, <2>2, <2>4 DEF FirstOK, SameCall, Managed
<1>4. ASSUME ~Managed(d) PROVE FirstOK(d)'
  BY <1>4 DEF FirstOK, Managed
<1> QED BY <1>2, <1>3, <1>4 DEF RequestOK

\* A step of request r: it is enough to look at r and at the types.
LEMMA OneRequest ==
  ASSUME GatewayInv, [AnyStep]_vars, NEW r \in Caller,
         \A d \in Caller \ {r} : SameCall(d) /\ req'[d] = req[d],
         GatewayTypeOK', RequestOK(r)'
  PROVE  GatewayInv'
<1>1. StoreInv'
  BY StoreInvStep DEF GatewayInv
<1>2. ASSUME NEW d \in Caller PROVE RequestOK(d)'
  BY <1>2, StillOK
<1> QED BY <1>1, <1>2 DEF GatewayInv, RequestOK

LEMMA QuietStore ==
  ASSUME UNCHANGED vars
  PROVE  [AnyStep]_vars /\ \A d \in Caller : SameCall(d)
BY DEF vars, call, SameCall

LEMMA LoginsGrow ==
  ASSUME TypeOK, [AnyStep]_vars
  PROVE  logins' = logins \/ logins' = logins + 1
BY DEF AnyStep, CallerStep, CallGet, CallRefresh, GetEnter, RefreshEnter, RecipeOk, RecipeErr,
       Return, Tick, StartCounted, StartLogin, vars

\* Types of what is written into a request.
LEMMA RequestWrites ==
  ASSUME NEW q \in Request, NEW s \in Stage, NEW n \in Nat
  PROVE  /\ [q EXCEPT !.stage = s] \in Request
         /\ [q EXCEPT !.csrf = n, !.stage = s] \in Request
         /\ [q EXCEPT !.fetch = n, !.stage = s] \in Request
         /\ [q EXCEPT !.sent = n, !.stage = s] \in Request
         /\ [q EXCEPT !.sent = n, !.stage = s, !.first = n] \in Request
BY DEF Request

\* What a step has to show: the types of what it wrote, and the request's invariant.
LEMMA Written ==
  ASSUME GatewayInv, [AnyStep]_vars, NEW r \in Caller, NEW q \in Request,
         req' = [req EXCEPT ![r] = q],
         \A d \in Caller \ {r} : SameCall(d),
         UNCHANGED <<valid, issued, revoked>>,
         cache' \in [Id -> [tok : Nat, at : Nat]], floor' \in [Id -> Nat],
         RequestOK(r)'
  PROVE  GatewayInv'
<1>1. StoreInv /\ StoreInv' /\ GatewayTypeOK
  BY StoreInvStep DEF GatewayInv
<1>2. TypeOK /\ TypeOK' /\ logins \in Nat
  BY <1>1 DEF StoreInv, TypeOK
<1>3. req' \in [Caller -> Request] /\ \A d \in Caller \ {r} : req'[d] = req[d]
  BY <1>1 DEF GatewayTypeOK
<1>4. issued' \subseteq 1 .. logins'
  BY <1>1, <1>2, LoginsGrow DEF GatewayTypeOK
<1>5. GatewayTypeOK'
  BY <1>1, <1>2, <1>3, <1>4 DEF GatewayTypeOK
<1> QED BY <1>3, <1>5, OneRequest

-----------------------------------------------------------------------------
(* Steps that do not touch the store.                                      *)

LEMMA ArriveInv ==
  ASSUME GatewayInv, NEW r \in Caller, NEW i \in Id \cup Unmanaged, NEW m \in Method,
         Arrive(r, i, m)
  PROVE  GatewayInv'
<1>1. /\ UNCHANGED <<vars, cache, target, floor>> /\ At(r, "new")
      /\ req \in [Caller -> Request] /\ req[r] \in Request
      /\ CallOK(r) /\ RoundOK(r)
      /\ cache \in [Id -> [tok : Nat, at : Nat]] /\ floor \in [Id -> Nat]
  BY DEF Arrive, GatewayInv, GatewayTypeOK
<1>2. \E s \in Stage, e \in {"none", "error", "refused"} :
         /\ req' = [req EXCEPT ![r] = [req[r] EXCEPT !.ident = i, !.method = m, !.stage = s,
                                                   !.resp = e]]
         /\ \/ s = Entrance(i, m) /\ e = "none"
            \/ s = "replied" /\ e # "none"
  <2>1. req[r].resp = "none"
    BY <1>1 DEF RoundOK, At, Unanswered
  <2>2. CASE req' = [req EXCEPT ![r].ident = i, ![r].method = m, ![r].stage = Entrance(i, m)]
    <3>1. req' = [req EXCEPT ![r] = [req[r] EXCEPT !.ident = i, !.method = m,
                                        !.stage = Entrance(i, m), !.resp = "none"]]
      <4>1. \A q \in Request : q.resp = "none" =>
              [q EXCEPT !.ident = i, !.method = m, !.stage = Entrance(i, m)] =
              [q EXCEPT !.ident = i, !.method = m, !.stage = Entrance(i, m), !.resp = "none"]
        BY DEF Request
      <4>2. req' = [req EXCEPT ![r] = [req[r] EXCEPT !.ident = i, !.method = m,
                                                       !.stage = Entrance(i, m)]]
        BY <1>1, <2>2
      <4>3. [req[r] EXCEPT !.ident = i, !.method = m, !.stage = Entrance(i, m)] =
            [req[r] EXCEPT !.ident = i, !.method = m, !.stage = Entrance(i, m), !.resp = "none"]
        BY <1>1, <2>1, <4>1
      <4> QED BY <4>2, <4>3
    <3>2. Entrance(i, m) \in Stage
      BY DEF Entrance, Stage
    <3> QED BY <3>1, <3>2
  <2>3. ASSUME NEW e \in {"error", "refused"},
               req' = [req EXCEPT ![r].ident = i, ![r].method = m,
                                  ![r].stage = "replied", ![r].resp = e]
        PROVE  req' = [req EXCEPT ![r] = [req[r] EXCEPT !.ident = i, !.method = m,
                                                        !.stage = "replied", !.resp = e]]
    BY <1>1, <2>3
  <2> QED BY <2>2, <2>3 DEF Arrive, Stage
<1>3. PICK s \in Stage, e \in {"none", "error", "refused"} :
         /\ req' = [req EXCEPT ![r] = [req[r] EXCEPT !.ident = i, !.method = m, !.stage = s,
                                                   !.resp = e]]
         /\ \/ s = Entrance(i, m) /\ e = "none"
            \/ s = "replied" /\ e # "none"
  BY <1>2
<1> DEFINE q == [req[r] EXCEPT !.ident = i, !.method = m, !.stage = s, !.resp = e]
<1>4. q \in Request
  BY <1>1 DEF Request
<1>5. /\ req'[r] = q /\ q.ident = i /\ q.method = m /\ q.stage = s /\ q.resp = e
      /\ q.first = req[r].first /\ q.round = req[r].round /\ q.done = req[r].done
      /\ q.sent = req[r].sent
  BY <1>1, <1>3 DEF Request
<1>6. req' = [req EXCEPT ![r] = q]
  BY <1>3
<1> HIDE DEF q
<1>7. CallOK(r)'
  BY <1>1, <1>3, <1>5 DEF CallOK, At, Places, Entrance, Managed, vars, call
<1>8. RoundOK(r)'
  BY <1>1, <1>3, <1>5 DEF RoundOK, At, Unanswered, Entrance
<1>9. FirstOK(r)'
  <2>1. i \in Id => session[i].tok \in Nat
    BY DEF GatewayInv, StoreInv, TypeOK, Session
  <2>2. req[r].first = 0 /\ req[r].round = 1
    BY <1>1 DEF RoundOK, At
  <2> QED BY <1>1, <1>3, <1>5, <2>1, <2>2 DEF FirstOK, Managed, Entrance, vars, entry
<1> QED BY <1>1, <1>4, <1>6, <1>7, <1>8, <1>9, Written, QuietStore DEF RequestOK, target

\* A step outside the store that leaves the request's identity, method, round and
\* sessions as they are.
LEMMA LocalStep ==
  ASSUME GatewayInv, UNCHANGED <<vars, valid, issued, revoked, floor>>,
         cache' \in [Id -> [tok : Nat, at : Nat]],
         NEW r \in Caller, NEW q \in Request, req' = [req EXCEPT ![r] = q], pc[r] = "idle",
         /\ q.ident = req[r].ident /\ q.method = req[r].method /\ q.round = req[r].round
         /\ q.first = req[r].first /\ q.sent = req[r].sent
         /\ q.stage \in {"forward", "answered", "replied"} /\ q.done <= q.round,
         q.stage = "forward" => q.done = req[r].done /\ q.resp = req[r].resp,
         q.stage = "forward" => req[r].stage \in Unanswered,
         q.stage = "replied" /\ q.resp = "logout" /\ Managed(r) => q.round = 2
  PROVE  GatewayInv'
<1>1. /\ req \in [Caller -> Request] /\ CallOK(r) /\ RoundOK(r) /\ FirstOK(r)
      /\ floor \in [Id -> Nat]
  BY DEF GatewayInv, GatewayTypeOK
<1>2. req'[r] = q
  BY <1>1
<1>3. CallOK(r)'
  BY <1>1, <1>2 DEF CallOK, Places, vars, call
<1>4. RoundOK(r)'
  BY <1>1, <1>2 DEF RoundOK, Unanswered, Managed
<1>5. FirstOK(r)'
  BY <1>1, <1>2 DEF FirstOK, Managed, Retired, vars, entry
<1> QED BY <1>1, <1>3, <1>4, <1>5, Written, QuietStore DEF RequestOK

LEMMA CsrfInv ==
  ASSUME GatewayInv, NEW r \in Caller, CsrfHit(r) \/ CsrfFetched(r)
  PROVE  GatewayInv'
<1>1. /\ req \in [Caller -> Request] /\ cache \in [Id -> [tok : Nat, at : Nat]]
      /\ CallOK(r) /\ req[r] \in Request /\ now \in Nat
      /\ req[r].stage \in {"csrf", "csrfFetch"}
  BY DEF GatewayInv, GatewayTypeOK, StoreInv, TypeOK, CsrfHit, CsrfFetched, At
<1>2. pc[r] = "idle" /\ req[r].ident \in Id /\ req[r].stage \in Unanswered /\ RoundOK(r)
  BY <1>1 DEF CallOK, Places, Managed, Unanswered, GatewayInv
<1>3. cache' \in [Id -> [tok : Nat, at : Nat]]
  BY <1>1, <1>2 DEF CsrfHit, CsrfFetched, Request
<1>4. UNCHANGED <<vars, valid, issued, revoked, floor>>
  BY DEF CsrfHit, CsrfFetched, target
<1>5. ASSUME NEW n \in Nat, req' = [req EXCEPT ![r].csrf = n, ![r].stage = "forward"]
      PROVE  GatewayInv'
  <2> DEFINE q == [req[r] EXCEPT !.csrf = n, !.stage = "forward"]
  <2>1. q \in Request
    BY <1>1, RequestWrites DEF Stage
  <2>2. req' = [req EXCEPT ![r] = q]
    BY <1>5
  <2>3. /\ q.stage = "forward" /\ q.ident = req[r].ident /\ q.method = req[r].method
        /\ q.round = req[r].round /\ q.first = req[r].first /\ q.sent = req[r].sent
        /\ q.done = req[r].done /\ q.resp = req[r].resp
    BY <1>1 DEF Request
  <2> HIDE DEF q
  <2>4. q.done <= q.round
    BY <1>2, <2>3 DEF RoundOK
  <2> QED BY <1>2, <1>3, <1>4, <2>1, <2>2, <2>3, <2>4, LocalStep
<1>6. ASSUME req' = [req EXCEPT ![r].stage = "forward"]
      PROVE  GatewayInv'
  <2> DEFINE q == [req[r] EXCEPT !.stage = "forward"]
  <2>1. q \in Request
    BY <1>1, RequestWrites DEF Stage
  <2>2. req' = [req EXCEPT ![r] = q]
    BY <1>6
  <2>3. /\ q.stage = "forward" /\ q.ident = req[r].ident /\ q.method = req[r].method
        /\ q.round = req[r].round /\ q.first = req[r].first /\ q.sent = req[r].sent
        /\ q.done = req[r].done /\ q.resp = req[r].resp
    BY <1>1 DEF Request
  <2> HIDE DEF q
  <2>4. q.done <= q.round
    BY <1>2, <2>3 DEF RoundOK
  <2> QED BY <1>2, <1>3, <1>4, <2>1, <2>2, <2>3, <2>4, LocalStep
<1>7. cache[req[r].ident].tok \in Nat /\ req[r].fetch \in Nat
  BY <1>1, <1>2 DEF Request
<1> QED BY <1>5, <1>6, <1>7 DEF CsrfHit, CsrfFetched

LEMMA AnswerWrites ==
  ASSUME NEW q \in Request, NEW s \in Stage, NEW n \in 0 .. 2,
         NEW e \in {"none", "ok", "forbidden", "logout", "error", "refused"},
         NEW x \in {"none", "failed", "alarm", "err", "limited"}
  PROVE  /\ [q EXCEPT !.done = n, !.resp = e, !.stage = s] \in Request
         /\ [q EXCEPT !.resp = e, !.stage = s] \in Request
         /\ [q EXCEPT !.done = n, !.resp = e, !.stage = s, !.excuse = x] \in Request
         /\ [q EXCEPT !.stage = s, !.done = n, !.resp = e, !.excuse = x] \in Request
         /\ [q EXCEPT !.stage = s, !.excuse = x] \in Request
<1>1. [q EXCEPT !.done = n, !.resp = e, !.stage = s] \in Request
  BY DEF Request
<1>2. [q EXCEPT !.resp = e, !.stage = s] \in Request
  BY DEF Request
<1>3. [q EXCEPT !.stage = s, !.excuse = x] \in Request
  BY DEF Request
<1>4. /\ [q EXCEPT !.done = n, !.resp = e, !.stage = s, !.excuse = x]
           = [[q EXCEPT !.done = n, !.resp = e, !.stage = s] EXCEPT !.stage = s, !.excuse = x]
      /\ [q EXCEPT !.stage = s, !.done = n, !.resp = e, !.excuse = x]
           = [[q EXCEPT !.done = n, !.resp = e, !.stage = s] EXCEPT !.stage = s, !.excuse = x]
  BY DEF Request
<1>5. \A t \in Request : [t EXCEPT !.stage = s, !.excuse = x] \in Request
  BY DEF Request
<1> QED BY <1>1, <1>2, <1>3, <1>4, <1>5

LEMMA TargetAnswersInv ==
  ASSUME GatewayInv, NEW r \in Caller, TargetAnswers(r)
  PROVE  GatewayInv'
<1>1. /\ req \in [Caller -> Request] /\ cache' \in [Id -> [tok : Nat, at : Nat]]
      /\ req[r] \in Request /\ UNCHANGED <<vars, valid, issued, revoked, floor>>
      /\ CallOK(r) /\ RoundOK(r) /\ req[r].stage = "sent"
  BY DEF GatewayInv, GatewayTypeOK, TargetAnswers, At
<1>2. /\ pc[r] = "idle" /\ req[r].done < req[r].round /\ req[r].done \in Nat
      /\ req[r].round \in {1, 2} /\ "answered" \in Stage
  BY <1>1 DEF CallOK, Places, RoundOK, Unanswered, Request, Stage
<1>3. req[r].done + 1 \in 0 .. 2 /\ req[r].done \in 0 .. 2 /\ req[r].done + 1 <= req[r].round
  BY <1>2
<1>4. ASSUME NEW q \in Request, req' = [req EXCEPT ![r] = q],
             q.stage = "answered", q.done <= q.round,
             q.ident = req[r].ident, q.method = req[r].method, q.round = req[r].round,
             q.first = req[r].first, q.sent = req[r].sent
      PROVE  GatewayInv'
  BY <1>1, <1>2, <1>4, LocalStep
<1>5. CASE req' = [req EXCEPT ![r].done = @ + 1, ![r].resp = "ok", ![r].stage = "answered"]
  <2> DEFINE q == [req[r] EXCEPT !.done = @ + 1, !.resp = "ok", !.stage = "answered"]
  <2>1. q \in Request
    BY <1>1, <1>2, <1>3, AnswerWrites
  <2>2. req' = [req EXCEPT ![r] = q]
    BY <1>5
  <2> QED BY <1>1, <1>2, <1>3, <1>4, <2>1, <2>2 DEF Request
<1>6. CASE req' = [req EXCEPT ![r].done = @ + 1, ![r].resp = "logout", ![r].stage = "answered",
                              ![r].excuse = IF req[r].round = 2 THEN "alarm" ELSE @]
  <2> DEFINE x == IF req[r].round = 2 THEN "alarm" ELSE req[r].excuse
             n == req[r].done + 1
             q == [req[r] EXCEPT !.done = n, !.resp = "logout",
                                 !.stage = "answered", !.excuse = x]
  <2>1. x \in {"none", "failed", "alarm", "err", "limited"}
    BY <1>1 DEF Request
  <2>2. req' = [req EXCEPT ![r] = q]
    BY <1>6
  <2>3. n \in 0 .. 2 /\ n <= req[r].round
    BY <1>3
  <2> HIDE DEF x, n
  <2>4. q \in Request
    <3>1. "logout" \in {"none", "ok", "forbidden", "logout", "error", "refused"}
      OBVIOUS
    <3> QED BY <1>1, <1>2, <2>1, <2>3, <3>1, AnswerWrites
  <2>5. /\ q.stage = "answered" /\ q.done = n /\ q.ident = req[r].ident
        /\ q.method = req[r].method /\ q.round = req[r].round
        /\ q.first = req[r].first /\ q.sent = req[r].sent
    BY <1>1 DEF Request
  <2> HIDE DEF q
  <2>6. q.done <= q.round
    BY <2>3, <2>5
  <2> QED BY <1>4, <2>2, <2>4, <2>5, <2>6
<1>7. ASSUME NEW e \in {"forbidden", "logout"},
             req' = [req EXCEPT ![r].resp = e, ![r].stage = "answered"]
      PROVE  GatewayInv'
  <2> DEFINE q == [req[r] EXCEPT !.resp = e, !.stage = "answered"]
  <2>1. q \in Request
    BY <1>1, <1>2, <1>3, AnswerWrites
  <2>2. req' = [req EXCEPT ![r] = q]
    BY <1>7
  <2>3. /\ q.stage = "answered" /\ q.done = req[r].done /\ q.ident = req[r].ident
        /\ q.method = req[r].method /\ q.round = req[r].round
        /\ q.first = req[r].first /\ q.sent = req[r].sent
    BY <1>1 DEF Request
  <2> HIDE DEF q
  <2>4. q.done <= q.round
    BY <1>2, <2>3
  <2> QED BY <1>4, <2>1, <2>2, <2>3, <2>4
<1>8. (IF Accepts(r) THEN "forbidden" ELSE "logout") \in {"forbidden", "logout"}
  OBVIOUS
<1> QED BY <1>5, <1>6, <1>7, <1>8 DEF TargetAnswers

\* forward failed: what it writes.
LEMMA FailWrites ==
  ASSUME GatewayInv, NEW r \in Caller, NEW n \in 0 .. 2, ForwardFails(r, n)
  PROVE  \E q \in Request :
           /\ req' = [req EXCEPT ![r] = q]
           /\ q.stage = "replied" /\ q.done = n
           /\ q.ident = req[r].ident /\ q.method = req[r].method /\ q.round = req[r].round
           /\ q.first = req[r].first /\ q.sent = req[r].sent
           /\ q.resp = "logout" => q.round = 2
<1>1. req \in [Caller -> Request] /\ req[r] \in Request /\ "replied" \in Stage
      /\ req[r].round \in {1, 2}
  BY DEF GatewayInv, GatewayTypeOK, Stage, Request
<1>2. PICK e \in {"none", "ok", "forbidden", "logout", "error", "refused"},
           x \in {"none", "failed", "alarm", "err", "limited"} :
        /\ (e = "logout" => req[r].round = 2)
        /\ req' = [req EXCEPT ![r].stage = "replied", ![r].done = n,
                              ![r].resp = e, ![r].excuse = x]
  <2> DEFINE e == IF req[r].round = 1 THEN "error" ELSE req[r].resp
             x == IF req[r].excuse = "none" THEN "failed" ELSE req[r].excuse
  <2>1. /\ req[r].resp \in {"none", "ok", "forbidden", "logout", "error", "refused"}
        /\ req[r].excuse \in {"none", "failed", "alarm", "err", "limited"}
    BY <1>1 DEF Request
  <2>2. /\ e \in {"none", "ok", "forbidden", "logout", "error", "refused"}
        /\ x \in {"none", "failed", "alarm", "err", "limited"}
        /\ (e = "logout" => req[r].round = 2)
    BY <1>1, <2>1
  <2>3. req' = [req EXCEPT ![r].stage = "replied", ![r].done = n,
                           ![r].resp = e, ![r].excuse = x]
    BY DEF ForwardFails
  <2> HIDE DEF e, x
  <2> QED BY <2>2, <2>3
<1>3. PICK t \in Request : t = [req[r] EXCEPT !.done = n, !.resp = e, !.stage = "replied"]
  BY <1>1, <1>2, AnswerWrites
<1>4. PICK q \in Request : q = [t EXCEPT !.stage = "replied", !.excuse = x]
  BY <1>1, <1>2, AnswerWrites
<1>5. q = [req[r] EXCEPT !.stage = "replied", !.done = n, !.resp = e, !.excuse = x]
  BY <1>1, <1>3, <1>4 DEF Request
<1>6. req' = [req EXCEPT ![r] = q]
  BY <1>2, <1>5
<1>7. /\ q.stage = "replied" /\ q.done = n
      /\ q.ident = req[r].ident /\ q.method = req[r].method /\ q.round = req[r].round
      /\ q.first = req[r].first /\ q.sent = req[r].sent /\ q.resp = e
  BY <1>1, <1>5 DEF Request
<1> QED BY <1>2, <1>6, <1>7

LEMMA TargetFailsInv ==
  ASSUME GatewayInv, NEW r \in Caller, TargetFails(r)
  PROVE  GatewayInv'
<1>1. /\ cache' \in [Id -> [tok : Nat, at : Nat]]
      /\ UNCHANGED <<vars, valid, issued, revoked, floor>>
      /\ CallOK(r) /\ RoundOK(r) /\ req[r].stage = "sent" /\ req[r] \in Request
  BY DEF GatewayInv, GatewayTypeOK, TargetFails, At, target
<1>2. /\ pc[r] = "idle" /\ req[r].done < req[r].round /\ req[r].done \in Nat
      /\ req[r].round \in {1, 2}
  BY <1>1 DEF CallOK, Places, RoundOK, Unanswered, Request
<1>3. PICK n \in 0 .. 2 : n <= req[r].round /\ ForwardFails(r, n)
  BY <1>2 DEF TargetFails
<1>4. PICK q \in Request :
           /\ req' = [req EXCEPT ![r] = q]
           /\ q.stage = "replied" /\ q.done = n
           /\ q.ident = req[r].ident /\ q.method = req[r].method /\ q.round = req[r].round
           /\ q.first = req[r].first /\ q.sent = req[r].sent
           /\ q.resp = "logout" => q.round = 2
  BY <1>3, FailWrites
<1> QED BY <1>1, <1>2, <1>3, <1>4, LocalStep

LEMMA ReplyInv ==
  ASSUME GatewayInv, NEW r \in Caller, Reply(r)
  PROVE  GatewayInv'
<1>1. /\ req \in [Caller -> Request] /\ cache' \in [Id -> [tok : Nat, at : Nat]]
      /\ UNCHANGED <<vars, valid, issued, revoked, floor>>
      /\ CallOK(r) /\ RoundOK(r) /\ req[r].stage = "answered" /\ req[r] \in Request
      /\ ~LoggedOut(r) /\ req' = [req EXCEPT ![r].stage = "replied"]
  BY DEF GatewayInv, GatewayTypeOK, Reply, At, target
<1> DEFINE q == [req[r] EXCEPT !.stage = "replied"]
<1>2. q \in Request
  BY <1>1, RequestWrites DEF Stage
<1>3. req' = [req EXCEPT ![r] = q]
  BY <1>1
<1>4. /\ q.stage = "replied" /\ q.done = req[r].done /\ q.resp = req[r].resp
      /\ q.ident = req[r].ident /\ q.method = req[r].method /\ q.round = req[r].round
      /\ q.first = req[r].first /\ q.sent = req[r].sent /\ q.round \in {1, 2}
  BY <1>1 DEF Request
<1> HIDE DEF q
<1>5. pc[r] = "idle" /\ q.done <= q.round
      /\ (q.resp = "logout" /\ Managed(r) => q.round = 2)
  BY <1>1, <1>4 DEF CallOK, Places, RoundOK, LoggedOut
<1> QED BY <1>1, <1>2, <1>3, <1>4, <1>5, LocalStep

-----------------------------------------------------------------------------
(* A request enters the store and comes back.                              *)

LEMMA UsableIsNewer ==
  ASSUME StoreInv, NEW i \in Id, NEW n \in Nat, Retired(i, n), Usable(session[i])
  PROVE  session[i].tok > n
<1>1. session[i].tok \in Nat /\ now \in Nat /\ now >= 2
  BY DEF StoreInv, TypeOK, Session, Start
<1> QED BY <1>1 DEF Retired, Usable, Expired, Past, Unknown

\* A store step of r is one of AnyStep, and leaves the other requests alone.
LEMMA CallIsStep ==
  ASSUME GatewayInv, NEW r \in Caller,
         \/ \E i \in Id \cup Unmanaged : CallGet(r, i) \/ CallRefresh(r, i)
         \/ CallerStep(r)
  PROVE  [AnyStep]_vars /\ \A d \in Caller \ {r} : SameCall(d)
<1>1. TypeOK
  BY DEF GatewayInv, StoreInv
<1> QED BY <1>1, OthersCalls DEF AnyStep

\* What r gets from a lookup in Get.
LEMMA GetAnswers ==
  ASSUME GatewayInv, NEW r \in Caller, req[r].ident \in Id, CallGet(r, req[r].ident)
  PROVE  /\ session' = session /\ pc[r] = "idle" /\ want'[r] = req[r].ident
         /\ \/ pc'[r] = "getWait"
            \/ /\ pc'[r] = "returned" /\ Usable(session[req[r].ident])
               /\ res'[r].kind = "ok" /\ res'[r].sess = session[req[r].ident]
<1>1. TypeOK
  BY DEF GatewayInv, StoreInv
<1> QED BY <1>1 DEF CallGet, TypeOK, Finish, Goto, entry, Ok, Answer

LEMMA CsrfMissInv ==
  ASSUME GatewayInv, NEW r \in Caller, CsrfMiss(r)
  PROVE  GatewayInv'
<1>1. /\ req \in [Caller -> Request] /\ req[r] \in Request /\ req[r].stage = "csrf"
      /\ CallOK(r) /\ RoundOK(r) /\ FirstOK(r) /\ CallGet(r, req[r].ident)
      /\ UNCHANGED <<cache, valid, issued, revoked, floor>>
      /\ cache' \in [Id -> [tok : Nat, at : Nat]] /\ floor' \in [Id -> Nat]
  BY DEF GatewayInv, GatewayTypeOK, CsrfMiss, At, target
<1>2. req[r].ident \in Id
  BY <1>1 DEF CallOK, Managed
<1>3. PICK q \in Request : q = [req[r] EXCEPT !.stage = "csrfGet"]
  BY <1>1, RequestWrites DEF Stage
<1>4. req' = [req EXCEPT ![r] = q]
  BY <1>3 DEF CsrfMiss
<1>5. /\ req'[r] = q /\ q.stage = "csrfGet" /\ q.done = req[r].done /\ q.resp = req[r].resp
      /\ q.ident = req[r].ident /\ q.method = req[r].method /\ q.round = req[r].round
      /\ q.first = req[r].first /\ q.sent = req[r].sent
  BY <1>1, <1>3, <1>4 DEF Request
<1>6. /\ session' = session /\ want'[r] = req[r].ident
      /\ \/ pc'[r] = "getWait"
         \/ pc'[r] = "returned" /\ res'[r].kind = "ok"
  BY <1>1, <1>2, GetAnswers
<1>7. CallOK(r)'
  BY <1>2, <1>5, <1>6 DEF CallOK, Places, Managed
<1>8. RoundOK(r)'
  BY <1>1, <1>5 DEF RoundOK, Unanswered, Managed
<1>9. FirstOK(r)'
  BY <1>1, <1>5, <1>6 DEF FirstOK, Retired, Managed
<1>10. [AnyStep]_vars /\ \A d \in Caller \ {r} : SameCall(d)
  BY <1>1, <1>2, CallIsStep
<1> QED BY <1>1, <1>4, <1>7, <1>8, <1>9, <1>10, Written DEF RequestOK

LEMMA ForwardInv ==
  ASSUME GatewayInv, NEW r \in Caller, Forward(r)
  PROVE  GatewayInv'
<1>1. /\ req \in [Caller -> Request] /\ req[r] \in Request /\ req[r].stage = "forward"
      /\ CallOK(r) /\ RoundOK(r) /\ FirstOK(r)
      /\ UNCHANGED <<cache, valid, issued, revoked, floor>>
      /\ cache' \in [Id -> [tok : Nat, at : Nat]] /\ floor' \in [Id -> Nat]
  BY DEF GatewayInv, GatewayTypeOK, Forward, At, target
<1>2. req[r].first \in Nat /\ StoreInv /\ session \in [Id -> Session]
  BY <1>1 DEF Request, GatewayInv, StoreInv, TypeOK
<1>3. CASE Managed(r) /\ CallGet(r, req[r].ident) /\ req' = [req EXCEPT ![r].stage = "forwardGet"]
  <2> DEFINE i == req[r].ident
  <2>1. PICK q \in Request : q = [req[r] EXCEPT !.stage = "forwardGet"]
    BY <1>1, RequestWrites DEF Stage
  <2>2. req' = [req EXCEPT ![r] = q] /\ i \in Id
    BY <1>3, <2>1 DEF Managed
  <2>3. /\ req'[r] = q /\ q.stage = "forwardGet" /\ q.done = req[r].done
        /\ q.resp = req[r].resp /\ q.ident = req[r].ident /\ q.method = req[r].method
        /\ q.round = req[r].round /\ q.first = req[r].first /\ q.sent = req[r].sent
    BY <1>1, <2>1, <2>2 DEF Request
  <2>4. /\ session' = session /\ want'[r] = req[r].ident
        /\ \/ pc'[r] = "getWait"
           \/ /\ pc'[r] = "returned" /\ res'[r].kind = "ok" /\ res'[r].sess = session[i]
              /\ Usable(session[i])
    BY <1>3, <2>2, GetAnswers
  <2>5. q.round = 2 /\ Usable(session[i]) => session[i].tok > q.first
    BY <1>1, <1>2, <1>3, <2>2, <2>3, UsableIsNewer DEF FirstOK
  <2>6. CallOK(r)'
    BY <2>2, <2>3, <2>4 DEF CallOK, Places, Managed
  <2>7. RoundOK(r)'
    BY <1>1, <2>3 DEF RoundOK, Unanswered, Managed
  <2>8. session[i].tok \in Nat
    BY <1>2, <2>2 DEF Session
  <2>9. FirstOK(r)'
    BY <1>1, <1>3, <2>3, <2>4, <2>5, <2>8 DEF FirstOK, Retired, Managed
  <2>10. [AnyStep]_vars /\ \A d \in Caller \ {r} : SameCall(d)
    BY <1>3, <2>2, CallIsStep
  <2> QED BY <1>1, <2>2, <2>6, <2>7, <2>9, <2>10, Written DEF RequestOK
<1>4. CASE ~Managed(r) /\ UNCHANGED vars /\ req' = [req EXCEPT ![r].stage = "sent"]
  <2>1. PICK q \in Request : q = [req[r] EXCEPT !.stage = "sent"]
    BY <1>1, RequestWrites DEF Stage
  <2>2. req' = [req EXCEPT ![r] = q]
    BY <1>4, <2>1
  <2>3. /\ req'[r] = q /\ q.stage = "sent" /\ q.done = req[r].done
        /\ q.resp = req[r].resp /\ q.ident = req[r].ident /\ q.method = req[r].method
        /\ q.round = req[r].round
    BY <1>1, <2>1, <2>2 DEF Request
  <2>4. CallOK(r)' /\ RoundOK(r)' /\ FirstOK(r)'
    <3>1. CallOK(r)'
      BY <1>1, <1>4, <2>3 DEF CallOK, Places, vars, call
    <3>2. RoundOK(r)'
      BY <1>1, <2>3 DEF RoundOK, Unanswered, Managed
    <3>3. FirstOK(r)'
      BY <1>4, <2>3 DEF FirstOK, Managed
    <3> QED BY <3>1, <3>2, <3>3
  <2> QED BY <1>1, <1>4, <2>2, <2>4, QuietStore, Written DEF RequestOK
<1> QED BY <1>3, <1>4 DEF Forward

LEMMA ReturnMoves ==
  ASSUME GatewayInv, NEW r \in Caller, Return(r)
  PROVE  /\ session' = session /\ pc[r] = "returned" /\ pc'[r] = "idle"
         /\ [AnyStep]_vars /\ \A d \in Caller \ {r} : SameCall(d)
<1>1. TypeOK
  BY DEF GatewayInv, StoreInv
<1> QED BY <1>1, CallIsStep DEF CallerStep, Return, TypeOK, entry

\* What the steps write, as opaque values.
Went(p, q)     == q.ident = p.ident /\ q.method = p.method
Kept(p, q)     == /\ Went(p, q) /\ q.round = p.round /\ q.first = p.first
                  /\ q.sent = p.sent /\ q.done = p.done /\ q.resp = p.resp
Staged(p, s)   == [p EXCEPT !.stage = s]
Fetching(p, n) == [p EXCEPT !.fetch = n, !.stage = "csrfFetch"]

LEMMA StagedOK ==
  ASSUME NEW p \in Request, NEW s \in Stage
  PROVE  Staged(p, s) \in Request /\ Staged(p, s).stage = s /\ Kept(p, Staged(p, s))
<1>1. Staged(p, s) \in Request
  BY RequestWrites DEF Staged
<1>2. Staged(p, s).stage = s /\ Kept(p, Staged(p, s))
  BY DEF Request, Staged, Went, Kept
<1> QED BY <1>1, <1>2

LEMMA FetchingOK ==
  ASSUME NEW p \in Request, NEW n \in Nat
  PROVE  /\ Fetching(p, n) \in Request /\ Fetching(p, n).stage = "csrfFetch"
         /\ Kept(p, Fetching(p, n))
<1>1. Fetching(p, n) \in Request
  BY RequestWrites DEF Fetching, Stage
<1>2. Fetching(p, n).stage = "csrfFetch" /\ Kept(p, Fetching(p, n))
  BY DEF Request, Fetching, Went, Kept
<1> QED BY <1>1, <1>2

LEMMA CsrfSendInv ==
  ASSUME GatewayInv, NEW r \in Caller, CsrfSend(r)
  PROVE  GatewayInv'
<1>1. /\ req \in [Caller -> Request] /\ req[r] \in Request /\ req[r].stage = "csrfGet"
      /\ CallOK(r) /\ RoundOK(r) /\ FirstOK(r) /\ Return(r)
      /\ UNCHANGED <<cache, valid, issued, revoked, floor>>
      /\ cache' \in [Id -> [tok : Nat, at : Nat]] /\ floor' \in [Id -> Nat]
      /\ res[r] \in Result
  BY DEF GatewayInv, GatewayTypeOK, StoreInv, TypeOK, CsrfSend, At, target
<1>2. Managed(r) /\ res[r].sess.tok \in Nat
  BY <1>1 DEF CallOK, Result, Session
<1>3. PICK q \in Request : /\ req' = [req EXCEPT ![r] = q] /\ Kept(req[r], q)
                           /\ q.stage \in {"csrfFetch", "forward"}
  <2>1. CASE res[r].kind = "ok"
    <3>1. PICK n \in Nat : req' = [req EXCEPT ![r].fetch = n, ![r].stage = "csrfFetch"]
      BY <1>2, <2>1 DEF CsrfSend
    <3>2. req' = [req EXCEPT ![r] = Fetching(req[r], n)]
      BY <3>1 DEF Fetching
    <3>3. /\ Fetching(req[r], n) \in Request
          /\ Fetching(req[r], n).stage \in {"csrfFetch", "forward"}
          /\ Kept(req[r], Fetching(req[r], n))
      BY <1>1, FetchingOK
    <3> QED BY <3>2, <3>3
  <2>2. CASE res[r].kind # "ok"
    <3>1. req' = [req EXCEPT ![r] = Staged(req[r], "forward")]
      BY <2>2 DEF CsrfSend, Staged
    <3>2. "forward" \in Stage
      BY DEF Stage
    <3>3. /\ Staged(req[r], "forward") \in Request
          /\ Staged(req[r], "forward").stage \in {"csrfFetch", "forward"}
          /\ Kept(req[r], Staged(req[r], "forward"))
      BY <1>1, <3>2, StagedOK
    <3> QED BY <3>1, <3>3
  <2> QED BY <2>1, <2>2
<1>4. req'[r] = q
  BY <1>1, <1>3
<1>5. /\ session' = session /\ pc'[r] = "idle"
      /\ [AnyStep]_vars /\ \A d \in Caller \ {r} : SameCall(d)
  BY <1>1, ReturnMoves
<1>6. CallOK(r)'
  BY <1>2, <1>3, <1>4, <1>5 DEF CallOK, Places, Managed, Went, Kept
<1>7. RoundOK(r)'
  BY <1>1, <1>3, <1>4 DEF RoundOK, Unanswered, Managed, Went, Kept
<1>8. FirstOK(r)'
  BY <1>1, <1>3, <1>4, <1>5 DEF FirstOK, Retired, Managed, Went, Kept
<1> QED BY <1>1, <1>3, <1>5, <1>6, <1>7, <1>8, Written DEF RequestOK

Sending(p, n)  == [p EXCEPT !.sent = n, !.stage = "sent",
                            !.first = IF p.round = 1 THEN n ELSE @]
Retrying(p, s) == [p EXCEPT !.round = @ + 1, !.sent = 0, !.stage = s]
Excused(p, x)  == [p EXCEPT !.stage = "replied", !.excuse = x]

LEMMA SendingOK ==
  ASSUME NEW p \in Request, NEW n \in Nat
  PROVE  LET q == Sending(p, n) IN
         /\ q \in Request /\ q.stage = "sent" /\ Went(p, q) /\ q.round = p.round
         /\ q.done = p.done /\ q.resp = p.resp /\ q.sent = n
         /\ q.first = IF p.round = 1 THEN n ELSE p.first
<1> DEFINE f == IF p.round = 1 THEN n ELSE p.first
<1>1. f \in Nat
  BY DEF Request
<1>2. Sending(p, n) = [p EXCEPT !.sent = n, !.stage = "sent", !.first = f]
  BY DEF Sending, Request
<1>3. f = IF p.round = 1 THEN n ELSE p.first
  OBVIOUS
<1> HIDE DEF f
<1>4. Sending(p, n) \in Request
  BY <1>1, <1>2 DEF Request, Stage
<1>5. LET q == Sending(p, n) IN
      /\ q.stage = "sent" /\ Went(p, q) /\ q.round = p.round
      /\ q.done = p.done /\ q.resp = p.resp /\ q.sent = n /\ q.first = f
  BY <1>2 DEF Request, Went
<1> QED BY <1>3, <1>4, <1>5

LEMMA RetryingOK ==
  ASSUME NEW p \in Request, NEW s \in Stage, p.round = 1
  PROVE  LET q == Retrying(p, s) IN
         /\ q \in Request /\ q.stage = s /\ Went(p, q) /\ q.round = 2
         /\ q.done = p.done /\ q.sent = 0 /\ q.first = p.first
<1>1. Retrying(p, s) = [p EXCEPT !.round = 2, !.sent = 0, !.stage = s]
  <2>1. Retrying(p, s) = [p EXCEPT !.round = p.round + 1, !.sent = 0, !.stage = s]
    BY DEF Retrying
  <2> QED BY <2>1
<1>2. Retrying(p, s) \in Request
  <2>1. PICK t \in Request : t = [p EXCEPT !.sent = 0, !.stage = s]
    BY RequestWrites
  <2>2. [t EXCEPT !.round = 2] \in Request
    BY DEF Request
  <2>3. Retrying(p, s) = [t EXCEPT !.round = 2]
    BY <1>1, <2>1 DEF Request
  <2> QED BY <2>2, <2>3
<1>3. LET q == Retrying(p, s) IN
      /\ q.stage = s /\ Went(p, q) /\ q.round = 2
      /\ q.done = p.done /\ q.sent = 0 /\ q.first = p.first
  BY <1>1 DEF Request, Went
<1> QED BY <1>2, <1>3

LEMMA ExcusedOK ==
  ASSUME NEW p \in Request, NEW x \in {"err", "limited"}
  PROVE  LET q == Excused(p, x) IN
         /\ q \in Request /\ q.stage = "replied" /\ Kept(p, q) /\ q.excuse = x
<1>1. Excused(p, x) \in Request
  BY DEF Excused, Request, Stage
<1>2. LET q == Excused(p, x) IN q.stage = "replied" /\ Kept(p, q) /\ q.excuse = x
  BY DEF Request, Excused, Went, Kept
<1> QED BY <1>1, <1>2

LEMMA ForwardSendInv ==
  ASSUME GatewayInv, NEW r \in Caller, ForwardSend(r)
  PROVE  GatewayInv'
<1>1. /\ req \in [Caller -> Request] /\ req[r] \in Request /\ req[r].stage = "forwardGet"
      /\ CallOK(r) /\ RoundOK(r) /\ FirstOK(r) /\ Return(r)
      /\ UNCHANGED <<cache, valid, issued, revoked, floor>>
      /\ cache' \in [Id -> [tok : Nat, at : Nat]] /\ floor' \in [Id -> Nat]
      /\ res[r] \in Result /\ session \in [Id -> Session]
  BY DEF GatewayInv, GatewayTypeOK, StoreInv, TypeOK, ForwardSend, At, target
<1>2. /\ Managed(r) /\ res[r].sess.tok \in Nat /\ req[r].ident \in Id
      /\ req[r].first \in Nat /\ req[r].round \in {1, 2} /\ req[r].done \in 0 .. 2
      /\ session[req[r].ident].tok \in Nat
  BY <1>1 DEF CallOK, Result, Session, Request, Managed
<1>3. /\ session' = session /\ pc[r] = "returned" /\ pc'[r] = "idle"
      /\ [AnyStep]_vars /\ \A d \in Caller \ {r} : SameCall(d)
  BY <1>1, ReturnMoves
<1>4. CASE res[r].kind = "ok"
  <2> DEFINE n == res[r].sess.tok
             q == Sending(req[r], n)
  <2>1. /\ q \in Request /\ q.stage = "sent" /\ Went(req[r], q) /\ q.round = req[r].round
        /\ q.done = req[r].done /\ q.resp = req[r].resp /\ q.sent = n
        /\ q.first = IF req[r].round = 1 THEN n ELSE req[r].first
    BY <1>1, <1>2, SendingOK
  <2>2. req' = [req EXCEPT ![r] = q]
    BY <1>4 DEF ForwardSend, Sending
  <2>3. req'[r] = q /\ n \in Nat
    BY <1>1, <1>2, <2>2
  <2>4. n <= session[req[r].ident].tok /\ (req[r].round = 2 => n > req[r].first)
    BY <1>1, <1>2, <1>3, <1>4 DEF FirstOK
  <2> HIDE DEF q, n
  <2>5. CallOK(r)'
    BY <1>2, <1>3, <2>1, <2>3 DEF CallOK, Places, Managed, Went
  <2>6. RoundOK(r)'
    BY <1>1, <2>1, <2>3 DEF RoundOK, Unanswered, Managed, Went
  <2>7. FirstOK(r)'
    BY <1>1, <1>2, <1>3, <2>1, <2>3, <2>4 DEF FirstOK, Retired, Managed, Went
  <2> QED BY <1>1, <1>3, <2>1, <2>2, <2>5, <2>6, <2>7, Written DEF RequestOK
<1>5. CASE res[r].kind # "ok"
  <2>1. ForwardFails(r, req[r].done)
    BY <1>5 DEF ForwardSend
  <2>2. PICK q \in Request :
           /\ req' = [req EXCEPT ![r] = q]
           /\ q.stage = "replied" /\ q.done = req[r].done
           /\ q.ident = req[r].ident /\ q.method = req[r].method /\ q.round = req[r].round
           /\ q.first = req[r].first /\ q.sent = req[r].sent
           /\ q.resp = "logout" => q.round = 2
    BY <1>2, <2>1, FailWrites
  <2>3. req'[r] = q
    BY <1>1, <2>2
  <2>4. CallOK(r)'
    BY <1>2, <1>3, <2>2, <2>3 DEF CallOK, Places, Managed
  <2>5. RoundOK(r)'
    BY <1>1, <2>2, <2>3 DEF RoundOK, Unanswered, Managed
  <2>6. FirstOK(r)'
    BY <1>1, <1>2, <1>3, <2>2, <2>3 DEF FirstOK, Retired, Managed
  <2> QED BY <1>1, <1>3, <2>2, <2>4, <2>5, <2>6, Written DEF RequestOK
<1> QED BY <1>4, <1>5

LEMMA ReauthInv ==
  ASSUME GatewayInv, NEW r \in Caller, Reauth(r)
  PROVE  GatewayInv'
<1>1. /\ req \in [Caller -> Request] /\ req[r] \in Request /\ req[r].stage = "answered"
      /\ CallOK(r) /\ RoundOK(r) /\ FirstOK(r) /\ LoggedOut(r) /\ CallRefresh(r, req[r].ident)
      /\ UNCHANGED <<cache, valid, issued, revoked, floor>>
      /\ cache' \in [Id -> [tok : Nat, at : Nat]] /\ floor' \in [Id -> Nat] /\ TypeOK
  BY DEF GatewayInv, GatewayTypeOK, StoreInv, Reauth, At, target
<1>2. req[r].ident \in Id /\ req[r].round = 1
  BY <1>1 DEF LoggedOut, Managed
<1>3. /\ session' = session /\ want'[r] = req[r].ident /\ pc'[r] = "refreshWait"
      /\ before'[r] = session[req[r].ident]
  BY <1>1, <1>2 DEF CallRefresh, TypeOK, Goto, entry
<1>4. [AnyStep]_vars /\ \A d \in Caller \ {r} : SameCall(d)
  BY <1>1, <1>2, CallIsStep
<1> DEFINE q == Staged(req[r], "reauth")
<1>5. q \in Request /\ q.stage = "reauth" /\ Kept(req[r], q)
  BY <1>1, StagedOK DEF Stage
<1>6. req' = [req EXCEPT ![r] = q]
  BY DEF Reauth, Staged
<1>7. req'[r] = q
  BY <1>1, <1>6
<1> HIDE DEF q
<1>8. CallOK(r)'
  BY <1>2, <1>3, <1>5, <1>7 DEF CallOK, Places, Managed, Went, Kept
<1>9. RoundOK(r)'
  BY <1>1, <1>2, <1>5, <1>7 DEF RoundOK, Unanswered, Managed, Went, Kept
<1>10. FirstOK(r)'
  BY <1>1, <1>2, <1>3, <1>5, <1>7 DEF FirstOK, Retired, Managed, Went, Kept
<1> QED BY <1>1, <1>4, <1>5, <1>6, <1>8, <1>9, <1>10, Written DEF RequestOK

LEMMA ReauthedInv ==
  ASSUME GatewayInv, NEW r \in Caller, Reauthed(r)
  PROVE  GatewayInv'
<1>1. /\ req \in [Caller -> Request] /\ req[r] \in Request /\ req[r].stage = "reauth"
      /\ CallOK(r) /\ RoundOK(r) /\ FirstOK(r) /\ Return(r)
      /\ UNCHANGED <<valid, issued, revoked>>
      /\ cache \in [Id -> [tok : Nat, at : Nat]] /\ floor \in [Id -> Nat]
      /\ res[r] \in Result /\ session \in [Id -> Session]
  BY DEF GatewayInv, GatewayTypeOK, StoreInv, TypeOK, Reauthed, At, target
<1>2. /\ Managed(r) /\ res[r].sess.tok \in Nat /\ req[r].ident \in Id
      /\ req[r].first \in Nat /\ req[r].round = 1 /\ req[r].done \in 0 .. 2
      /\ session[req[r].ident].tok \in Nat
  BY <1>1 DEF CallOK, RoundOK, Result, Session, Request, Managed
<1>3. /\ session' = session /\ pc[r] = "returned" /\ pc'[r] = "idle"
      /\ [AnyStep]_vars /\ \A d \in Caller \ {r} : SameCall(d)
  BY <1>1, ReturnMoves
<1>4. res[r].kind \in {"ok", "err", "limited"}
  BY <1>1, <1>3 DEF CallOK
<1>5. res[r].kind # "limited" => Retired(req[r].ident, req[r].first)
  BY <1>1, <1>2, <1>3 DEF FirstOK
<1>6. /\ cache' \in [Id -> [tok : Nat, at : Nat]] /\ floor' \in [Id -> Nat]
  <2>1. CASE /\ cache' = [cache EXCEPT ![req[r].ident] = NoToken]
             /\ floor' = [floor EXCEPT ![req[r].ident] = res[r].sess.tok]
    BY <1>1, <1>2, <2>1 DEF NoToken
  <2>2. CASE UNCHANGED <<cache, floor>>
    BY <1>1, <2>2
  <2> QED BY <2>1, <2>2 DEF Reauthed
<1>7. CASE res[r].kind = "ok" /\ IsIdempotent(req[r].method)
  <2> DEFINE s == Entrance(req[r].ident, req[r].method)
             q == Retrying(req[r], s)
  <2>1. s \in {"csrf", "forward"} /\ s \in Stage
    BY DEF Entrance, Stage
  <2>2. /\ q \in Request /\ q.stage = s /\ Went(req[r], q) /\ q.round = 2
        /\ q.done = req[r].done /\ q.sent = 0 /\ q.first = req[r].first
    BY <1>1, <1>2, <2>1, RetryingOK
  <2>3. req' = [req EXCEPT ![r] = q]
    BY <1>7 DEF Reauthed, Retrying
  <2>4. req'[r] = q
    BY <1>1, <2>3
  <2> HIDE DEF q, s
  <2>5. CallOK(r)'
    BY <1>2, <1>3, <2>1, <2>2, <2>4 DEF CallOK, Places, Managed, Went
  <2>6. RoundOK(r)'
    BY <1>1, <1>2, <1>7, <2>1, <2>2, <2>4 DEF RoundOK, Unanswered, Managed, Went, IsIdempotent
  <2>7. FirstOK(r)'
    BY <1>2, <1>3, <1>5, <1>7, <1>1, <2>1, <2>2, <2>4 DEF FirstOK, Retired, Managed, Went
  <2> QED BY <1>1, <1>3, <1>6, <2>2, <2>3, <2>5, <2>6, <2>7, Written DEF RequestOK
<1>8. ASSUME NEW q \in Request, q.stage = "replied", Kept(req[r], q),
             req' = [req EXCEPT ![r] = q],
             res[r].kind = "limited" => q.excuse = "limited"
      PROVE  GatewayInv'
  <2>1. req'[r] = q
    BY <1>1, <1>8
  <2>2. CallOK(r)'
    BY <1>2, <1>3, <1>8, <2>1 DEF CallOK, Places, Managed, Went, Kept
  <2>3. RoundOK(r)'
    BY <1>1, <1>2, <1>8, <2>1 DEF RoundOK, Unanswered, Managed, Went, Kept
  <2>4. FirstOK(r)'
    BY <1>1, <1>2, <1>3, <1>5, <1>8, <2>1 DEF FirstOK, Retired, Managed, Went, Kept
  <2> QED BY <1>1, <1>3, <1>6, <1>8, <2>2, <2>3, <2>4, Written DEF RequestOK
<1>9. CASE res[r].kind = "ok" /\ ~IsIdempotent(req[r].method)
  <2> DEFINE q == Staged(req[r], "replied")
  <2>1. q \in Request /\ q.stage = "replied" /\ Kept(req[r], q)
    BY <1>1, StagedOK DEF Stage
  <2>2. req' = [req EXCEPT ![r] = q]
    BY <1>9 DEF Reauthed, Staged
  <2> HIDE DEF q
  <2> QED BY <1>8, <1>9, <2>1, <2>2
<1>10. CASE res[r].kind # "ok"
  <2> DEFINE q == Excused(req[r], res[r].kind)
  <2>1. q \in Request /\ q.stage = "replied" /\ Kept(req[r], q) /\ q.excuse = res[r].kind
    BY <1>1, <1>4, <1>10, ExcusedOK
  <2>2. req' = [req EXCEPT ![r] = q]
    BY <1>10 DEF Reauthed, Excused
  <2> HIDE DEF q
  <2> QED BY <1>8, <2>1, <2>2
<1> QED BY <1>7, <1>9, <1>10

-----------------------------------------------------------------------------
(* The store moves under a waiting request.                                *)

LEMMA Unwritten ==
  ASSUME GatewayInv, [AnyStep]_vars, NEW r \in Caller,
         \A d \in Caller \ {r} : SameCall(d),
         UNCHANGED <<req, valid, issued, revoked, cache, floor>>,
         RequestOK(r)'
  PROVE  GatewayInv'
<1>1. StoreInv /\ StoreInv' /\ GatewayTypeOK
  BY StoreInvStep DEF GatewayInv
<1>2. TypeOK /\ TypeOK' /\ logins \in Nat
  BY <1>1 DEF StoreInv, TypeOK
<1>3. issued' \subseteq 1 .. logins'
  BY <1>1, <1>2, LoginsGrow DEF GatewayTypeOK
<1>4. GatewayTypeOK'
  BY <1>1, <1>2, <1>3 DEF GatewayTypeOK
<1> QED BY <1>4, OneRequest

\* A request that waits in the store, and what the store knows of it.
LEMMA Waiter ==
  ASSUME GatewayInv, NEW r \in Caller, pc[r] # "idle"
  PROVE  /\ want[r] = req[r].ident /\ pc[r] \in Places(req[r].stage)
         /\ req[r].stage \in {"csrfGet", "forwardGet", "reauth"}
         /\ want[r] \in Id /\ req[r].ident \in Id /\ req[r] \in Request
         /\ req[r].first \in Nat /\ req[r].first <= session[want[r]].tok
         /\ session[want[r]] \in Session /\ session[want[r]].tok \in Nat
         /\ RoundOK(r) /\ FirstOK(r)
<1>1. CallOK(r) /\ RoundOK(r) /\ FirstOK(r) /\ req[r] \in Request /\ session \in [Id -> Session]
  BY DEF GatewayInv, GatewayTypeOK, StoreInv, TypeOK
<1>2. /\ want[r] = req[r].ident /\ pc[r] \in Places(req[r].stage)
      /\ req[r].stage \in {"csrfGet", "forwardGet", "reauth"}
  BY <1>1 DEF CallOK, Places
<1>3. want[r] \in Id
  BY <1>1, <1>2 DEF CallOK, Managed
<1> QED BY <1>1, <1>2, <1>3 DEF FirstOK, Managed, Request, Session

LEMMA GetEnterInv ==
  ASSUME GatewayInv, NEW r \in Caller, GetEnter(r), UNCHANGED <<req, cache, target, floor>>
  PROVE  GatewayInv'
<1> DEFINE i == want[r]
<1>1. TypeOK /\ StoreInv /\ pc[r] = "getWait"
  BY DEF GatewayInv, StoreInv, GetEnter
<1>2. /\ i = req[r].ident /\ req[r].stage \in {"csrfGet", "forwardGet"}
      /\ i \in Id /\ req[r].first \in Nat /\ session[i].tok \in Nat
      /\ RoundOK(r) /\ FirstOK(r)
  BY <1>1, Waiter DEF Places
<1>3. /\ session' = session /\ want' = want
      /\ \/ pc'[r] \in {"establish", "renew"}
         \/ pc'[r] = "returned" /\ res'[r].kind = "limited"
         \/ /\ pc'[r] = "returned" /\ res'[r].kind = "ok"
            /\ res'[r].sess = session[i] /\ Usable(session[i])
  BY <1>1 DEF GetEnter, StartCounted, StartLogin, Finish, Goto, Ok, Answer, TypeOK
<1>4. req[r].round = 2 /\ Usable(session[i]) => session[i].tok > req[r].first
  BY <1>1, <1>2, UsableIsNewer DEF FirstOK, Managed
<1>5. [AnyStep]_vars /\ \A d \in Caller \ {r} : SameCall(d)
  BY CallIsStep DEF CallerStep
<1>6. CallOK(r)'
  BY <1>2, <1>3 DEF CallOK, Places, Managed
<1>7. RoundOK(r)' /\ FirstOK(r)'
  <2>1. RoundOK(r)'
    BY <1>2 DEF RoundOK, Managed
  <2>2. FirstOK(r)'
    BY <1>2, <1>3, <1>4 DEF FirstOK, Retired, Managed
  <2> QED BY <2>1, <2>2
<1> QED BY <1>5, <1>6, <1>7, Unwritten DEF RequestOK, target

LEMMA RefreshEnterInv ==
  ASSUME GatewayInv, NEW r \in Caller, RefreshEnter(r), UNCHANGED <<req, cache, target, floor>>
  PROVE  GatewayInv'
<1> DEFINE i == want[r]
<1>1. TypeOK /\ StoreInv /\ pc[r] = "refreshWait"
  BY DEF GatewayInv, StoreInv, RefreshEnter
<1>2. /\ i = req[r].ident /\ req[r].stage = "reauth" /\ i \in Id /\ req[r].first \in Nat
      /\ session[i].tok \in Nat /\ RoundOK(r) /\ FirstOK(r)
  BY <1>1, Waiter DEF Places
<1>3. /\ session' = session /\ want' = want /\ before' = before
      /\ \/ pc'[r] = "recover"
         \/ pc'[r] = "returned" /\ res'[r].kind = "limited"
         \/ /\ pc'[r] = "returned" /\ res'[r].kind = "ok"
            /\ session[i].ptr # before[r].ptr
  BY <1>1 DEF RefreshEnter, Swapped, StartCounted, StartLogin, Finish, Goto, Ok, Answer, TypeOK
<1>4. req[r].first <= before[r].tok /\ before[r].tok \in Nat /\ before[r].tok <= session[i].tok
  BY <1>1, <1>2 DEF FirstOK, Managed, StoreInv, ObjectsOK, NotNewer, TypeOK, Session
<1>5. session[i].ptr # before[r].ptr => Retired(i, req[r].first)
  BY <1>1, <1>2, <1>4 DEF StoreInv, MarkedOK, Retired
<1>6. [AnyStep]_vars /\ \A d \in Caller \ {r} : SameCall(d)
  BY CallIsStep DEF CallerStep
<1>7. CallOK(r)'
  BY <1>2, <1>3 DEF CallOK, Places, Managed
<1>8. RoundOK(r)'
  BY <1>2 DEF RoundOK, Managed
<1>9. FirstOK(r)'
  BY <1>2, <1>3, <1>4, <1>5 DEF FirstOK, Retired, Managed
<1> QED BY <1>6, <1>7, <1>8, <1>9, Unwritten DEF RequestOK, target

LEMMA LoginOkInv ==
  ASSUME GatewayInv, NEW r \in Caller, LoginOk(r)
  PROVE  GatewayInv'
<1> DEFINE i == want[r]
<1>1. TypeOK /\ StoreInv /\ LoggingIn(r) /\ pc[r] # "idle" /\ RecipeOk(r)
  BY DEF GatewayInv, StoreInv, LoginOk, RecipeOk, LoggingIn
<1>2. /\ i = req[r].ident /\ i \in Id /\ req[r].first \in Nat
      /\ pc[r] \in Places(req[r].stage) /\ req[r].stage \in {"csrfGet", "forwardGet", "reauth"}
      /\ session[i].tok \in Nat /\ req[r].first <= session[i].tok
      /\ RoundOK(r) /\ FirstOK(r)
  BY <1>1, Waiter
<1>3. login[r] \in Nat /\ session[i].tok < login[r]
  BY <1>1, <1>2 DEF StoreInv, ObjectsOK, TypeOK, Session
<1>4. PICK secs \in Lifetimes :
        LET new == [ptr |-> login[r], tok |-> login[r], exp |-> ExpiresAt(secs, now)]
        IN  session' = [session EXCEPT ![i] = new] /\ Finish(r, Ok(new))
  BY <1>1 DEF RecipeOk
<1>5. /\ session'[i].tok = login[r] /\ want' = want /\ pc'[r] = "returned"
      /\ res'[r].kind = "ok" /\ res'[r].sess.tok = login[r]
  BY <1>1, <1>2, <1>4 DEF RecipeOk, Finish, Ok, Answer, TypeOK
<1>6. Retired(i, req[r].first)'
  BY <1>2, <1>3, <1>5 DEF Retired, LoginOk
<1>7. [AnyStep]_vars /\ \A d \in Caller \ {r} : SameCall(d)
  BY <1>1, CallIsStep DEF CallerStep
<1>8. UNCHANGED <<req, cache, valid, issued, revoked, floor>>
  BY DEF LoginOk, target
<1>9. CallOK(r)'
  BY <1>2, <1>5, <1>8 DEF CallOK, Places, Managed
<1>10. RoundOK(r)'
  BY <1>2, <1>8 DEF RoundOK, Managed
<1>11. FirstOK(r)'
  <2>1. req[r].round = 2 => (req[r].sent # 0 => req[r].sent > req[r].first)
    BY <1>2 DEF FirstOK, Managed
  <2>2. req'[r].ident = i /\ req'[r] = req[r] /\ req[r].stage # "replied"
    BY <1>2, <1>8
  <2>3. session'[i].tok >= req[r].first /\ res'[r].sess.tok <= session'[i].tok
        /\ res'[r].sess.tok > req[r].first
    BY <1>2, <1>3, <1>5
  <2> QED BY <1>5, <1>6, <2>1, <2>2, <2>3 DEF FirstOK, Managed, Retired
<1> QED BY <1>7, <1>8, <1>9, <1>10, <1>11, Unwritten DEF RequestOK

LEMMA LoginErrInv ==
  ASSUME GatewayInv, NEW r \in Caller, LoginErr(r)
  PROVE  GatewayInv'
<1> DEFINE i == want[r]
<1>1. TypeOK /\ StoreInv /\ LoggingIn(r) /\ pc[r] # "idle" /\ RecipeErr(r)
  BY DEF GatewayInv, StoreInv, LoginErr, RecipeErr, LoggingIn
<1>2. /\ i = req[r].ident /\ i \in Id /\ req[r].first \in Nat
      /\ pc[r] \in Places(req[r].stage) /\ req[r].stage \in {"csrfGet", "forwardGet", "reauth"}
      /\ session[i].tok \in Nat /\ req[r].first <= session[i].tok /\ session[i] \in Session
      /\ RoundOK(r) /\ FirstOK(r)
  BY <1>1, Waiter
<1>3. want' = want /\ pc'[r] = "returned" /\ res'[r].kind = "err"
  BY <1>1 DEF RecipeErr, Finish, Answer, TypeOK
<1>4. [AnyStep]_vars /\ \A d \in Caller \ {r} : SameCall(d)
  BY <1>1, CallIsStep DEF CallerStep
<1>5. UNCHANGED <<req, cache, valid, issued, revoked, floor>>
  BY DEF LoginErr
<1>6. /\ req[r].first <= session'[i].tok
      /\ Retired(i, req[r].first) => Retired(i, req[r].first)'
  <2>1. PICK j \in Id, n \in Nat : j = i /\ n = req[r].first
    BY <1>2
  <2>2. /\ n <= session[j].tok => n <= session'[j].tok
        /\ Retired(j, n) => Retired(j, n)'
    BY <1>1, <1>4, RetiredStays
  <2>3. j = want'[r] /\ n = req'[r].first
    BY <1>3, <1>5, <2>1
  <2> QED BY <1>2, <1>3, <2>1, <2>2, <2>3 DEF Retired
<1>7. req[r].stage = "reauth" => Retired(i, req[r].first)'
  <2> SUFFICES ASSUME req[r].stage = "reauth" PROVE Retired(i, req[r].first)'
    OBVIOUS
  <2>1. pc[r] = "recover" /\ before[r] = session[i] /\ before[r] \in Session
    BY <1>1, <1>2 DEF Places, LoggingIn, StoreInv, ObjectsOK
  <2>2. CASE before[r] = Nil
    <3>1. session' = session
      BY <1>1, <2>1, <2>2 DEF RecipeErr
    <3> QED BY <1>2, <1>3, <1>5, <2>1, <2>2, <3>1 DEF Retired
  <2>3. CASE before[r] # Nil
    <3>1. session' = [session EXCEPT ![i] = StaleCopy(before[r], login[r])]
      BY <1>1, <2>1, <2>3 DEF RecipeErr
    <3>2. session'[i] = StaleCopy(session[i], login[r])
      BY <1>1, <1>2, <2>1, <3>1 DEF TypeOK
    <3>3. session'[i].tok = session[i].tok /\ session'[i].exp = Past
      BY <1>2, <3>2 DEF StaleCopy, Session
    <3> QED BY <1>2, <1>3, <1>5, <3>3 DEF Retired
  <2> QED BY <2>2, <2>3
<1>8. CallOK(r)'
  BY <1>2, <1>3, <1>5 DEF CallOK, Places, Managed
<1>9. RoundOK(r)'
  BY <1>2, <1>5 DEF RoundOK, Managed
<1>10. FirstOK(r)'
  <2>1. req[r].round = 2 => /\ Retired(i, req[r].first)
                            /\ req[r].sent # 0 => req[r].sent > req[r].first
    BY <1>2 DEF FirstOK, Managed
  <2>2. req'[r].ident = i /\ req'[r] = req[r] /\ req[r].stage # "replied"
    BY <1>2, <1>5
  <2> QED BY <1>3, <1>6, <1>7, <2>1, <2>2 DEF FirstOK, Managed, Retired
<1> QED BY <1>4, <1>5, <1>8, <1>9, <1>10, Unwritten DEF RequestOK

-----------------------------------------------------------------------------
(* The target and the clock.                                               *)

\* The store and the requests do not move.
LEMMA StandStill ==
  ASSUME GatewayInv, UNCHANGED <<vars, req, cache, floor>>,
         valid' \in [Id -> SUBSET issued'], revoked' \in [Id -> SUBSET issued'],
         issued' \subseteq 1 .. logins
  PROVE  GatewayInv'
<1>1. [AnyStep]_vars /\ logins' = logins
  BY DEF vars
<1>2. StoreInv'
  BY <1>1, StoreInvStep DEF GatewayInv
<1>3. GatewayTypeOK'
  BY <1>1, <1>2 DEF GatewayInv, GatewayTypeOK, StoreInv
<1>4. ASSUME NEW d \in Caller PROVE RequestOK(d)'
  BY <1>1, QuietStore, StillOK
<1> QED BY <1>2, <1>3, <1>4 DEF GatewayInv, RequestOK

LEMMA IssueInv ==
  ASSUME GatewayInv, NEW r \in Caller, Issue(r)
  PROVE  GatewayInv'
<1>1. /\ LoggingIn(r) /\ want[r] \in Id /\ login[r] \in Nat /\ login[r] <= logins
      /\ logins \in Nat /\ session[want[r]].ptr \in Nat /\ session[want[r]].ptr < login[r]
  BY DEF GatewayInv, StoreInv, FlightOK, ObjectsOK, TypeOK, Session, Issue
<1>2. /\ issued' = issued \cup {login[r]} /\ issued' \subseteq 1 .. logins
      /\ valid \in [Id -> SUBSET issued] /\ revoked \in [Id -> SUBSET issued]
  <2>1. /\ issued' = issued \cup {login[r]} /\ issued \subseteq 1 .. logins
        /\ valid \in [Id -> SUBSET issued] /\ revoked \in [Id -> SUBSET issued]
    BY DEF GatewayInv, GatewayTypeOK, Issue
  <2>2. login[r] \in 1 .. logins
    BY <1>1
  <2> QED BY <2>1, <2>2
<1>3. valid' \in [Id -> SUBSET issued']
  BY <1>1, <1>2 DEF Issue
<1>4. revoked' \in [Id -> SUBSET issued']
  BY <1>2 DEF Issue
<1> QED BY <1>2, <1>3, <1>4, StandStill DEF Issue

LEMMA RevokeInv ==
  ASSUME GatewayInv, NEW i \in Id, Revoke(i)
  PROVE  GatewayInv'
<1>1. /\ valid \in [Id -> SUBSET issued] /\ revoked \in [Id -> SUBSET issued]
      /\ issued' = issued /\ issued \subseteq 1 .. logins
  BY DEF GatewayInv, GatewayTypeOK, Revoke
<1>2. valid' \in [Id -> SUBSET issued'] /\ revoked' \in [Id -> SUBSET issued']
  BY <1>1 DEF Revoke
<1> QED BY <1>1, <1>2, StandStill DEF Revoke

LEMMA TickInv ==
  ASSUME GatewayInv, Tick, UNCHANGED <<req, cache, target, floor>>
  PROVE  GatewayInv'
<1>1. [AnyStep]_vars /\ logins' = logins /\ UNCHANGED <<valid, issued, revoked>>
  BY DEF AnyStep, Tick, target
<1>2. StoreInv'
  BY <1>1, StoreInvStep DEF GatewayInv
<1>3. GatewayTypeOK'
  BY <1>1, <1>2 DEF GatewayInv, GatewayTypeOK, StoreInv
<1>4. ASSUME NEW d \in Caller PROVE RequestOK(d)'
  BY <1>1, StillOK DEF SameCall, Tick, call
<1> QED BY <1>2, <1>3, <1>4 DEF GatewayInv, RequestOK

-----------------------------------------------------------------------------
(* The invariant, and the theorems.                                        *)

LEMMA GatewayInvInit == GatewayInit => GatewayInv
<1> SUFFICES ASSUME GatewayInit PROVE GatewayInv
  OBVIOUS
<1>1. StoreInv
  BY StoreInvInit DEF GatewayInit
<1>2. NewRequest \in Request
  BY DEF NewRequest, Request, Stage
<1>3. GatewayTypeOK
  BY <1>1, <1>2 DEF GatewayTypeOK, GatewayInit, StoreInv, NoToken
<1>4. ASSUME NEW r \in Caller PROVE CallOK(r) /\ RoundOK(r) /\ FirstOK(r)
  <2>1. req[r] = NewRequest /\ pc[r] = "idle" /\ NoId \notin Id
    BY StoreAssumption DEF GatewayInit, Init
  <2>2. ~Managed(r)
    BY <2>1 DEF Managed, NewRequest
  <2>3. CallOK(r)
    BY <2>1 DEF CallOK, Places, NewRequest
  <2>4. RoundOK(r)
    BY <2>1 DEF RoundOK, Unanswered, NewRequest
  <2> QED BY <2>2, <2>3, <2>4 DEF FirstOK
<1> QED BY <1>1, <1>3, <1>4 DEF GatewayInv

LEMMA GatewayInvStep == GatewayInv /\ [GatewayNext]_gvars => GatewayInv'
<1> SUFFICES ASSUME GatewayInv, [GatewayNext]_gvars PROVE GatewayInv'
  OBVIOUS
<1>1. ASSUME NEW r \in Caller, NEW i \in Id \cup Unmanaged, NEW m \in Method, Arrive(r, i, m)
      PROVE  GatewayInv'
  BY <1>1, ArriveInv
<1>2. ASSUME NEW r \in Caller, RequestStep(r) PROVE GatewayInv'
  BY <1>2, CsrfInv, CsrfMissInv, CsrfSendInv, ForwardInv, ForwardSendInv, TargetAnswersInv,
     TargetFailsInv, ReauthInv, ReauthedInv, ReplyInv, GetEnterInv, RefreshEnterInv, IssueInv,
     LoginOkInv, LoginErrInv DEF RequestStep, StoreStep
<1>3. ASSUME NEW i \in Id, Revoke(i) PROVE GatewayInv'
  BY <1>3, RevokeInv
<1>4. ASSUME Tick, UNCHANGED <<req, cache, target, floor>> PROVE GatewayInv'
  BY <1>4, TickInv
<1>5. ASSUME UNCHANGED gvars PROVE GatewayInv'
  BY <1>5, StandStill DEF gvars, target, GatewayInv, GatewayTypeOK
<1> QED BY <1>1, <1>2, <1>3, <1>4, <1>5 DEF GatewayNext, Served

\* The gateway's and the store's state stay consistent under every interleaving of
\* requests, logins, revocations and answers (serve, gateway.go:190-308).
THEOREM GatewaySafe == GatewaySpec => []GatewayInv
<1> QED BY GatewayInvInit, GatewayInvStep, PTL DEF GatewaySpec

\* A non-idempotent request is executed at most once (serve's IsIdempotent test).
THEOREM OnceSafe == GatewaySpec => []AtMostOnce
<1>1. ASSUME GatewayInv PROVE AtMostOnce
  <2> SUFFICES ASSUME NEW r \in Caller, req[r].method \notin Idempotent
               PROVE  req[r].done <= 1
    BY DEF AtMostOnce
  <2>1. RoundOK(r) /\ req[r].round \in {1, 2} /\ req[r].done \in 0 .. 2
    BY <1>1 DEF GatewayInv, GatewayTypeOK, Request
  <2> QED BY <2>1 DEF RoundOK
<1> QED BY <1>1, GatewaySafe, PTL

\* The retry goes out with credentials newer than the refused ones (gateway.go:285).
THEOREM RetrySafe == GatewaySpec => []RetryUsesNewSession
<1>1. ASSUME GatewayInv PROVE RetryUsesNewSession
  BY <1>1 DEF GatewayInv, RetryUsesNewSession, RoundOK, FirstOK
<1> QED BY <1>1, GatewaySafe, PTL

\* A handled logged-out answer leaves no wedge on the session it came for
\* (gateway.go:258-263).
THEOREM NotWedged == GatewaySpec => []LogoutNotWedged
<1>1. ASSUME GatewayInv PROVE LogoutNotWedged
  <2> SUFFICES ASSUME NEW r \in Caller, At(r, "replied"), Managed(r), req[r].resp = "logout",
                      req[r].excuse # "limited", Usable(session[req[r].ident]),
                      session[req[r].ident].tok = req[r].first
               PROVE  FALSE
    BY DEF LogoutNotWedged
  <2>1. /\ Retired(req[r].ident, req[r].first) /\ StoreInv
        /\ req[r].ident \in Id /\ req[r].first \in Nat
    BY <1>1 DEF GatewayInv, GatewayTypeOK, FirstOK, At, Managed, Request
  <2>2. session[req[r].ident].tok > req[r].first
    BY <2>1, UsableIsNewer
  <2> QED BY <2>1, <2>2
<1> QED BY <1>1, GatewaySafe, PTL

-----------------------------------------------------------------------------
(* Where credentials come from, and how they end.                          *)

\* What a call or a step of c in the store changes of the credentials in use.
OneMove(c) ==
  /\ \A d \in Caller \ {c} :
       pc'[d] = pc[d] /\ want'[d] = want[d] /\ login'[d] = login[d] /\ res'[d] = res[d]
  /\ LoggingIn(c)' => login'[c] = logins + 1
  /\ pc'[c] = "returned" /\ res'[c].kind = "ok" =>
       want'[c] \in Id /\ session'[want'[c]] # Nil /\ res'[c].sess = session'[want'[c]]
  /\ \A i \in Id :
       \/ session'[i] = session[i]
       \/ session[i] # Nil /\ session'[i].tok = session[i].tok
       \/ RecipeOk(c) /\ i = want[c] /\ LoggingIn(c) /\ session'[i].tok = login[c]

LEMMA CallMove ==
  ASSUME TypeOK, NEW c \in Caller, NEW i \in Id \cup Unmanaged, CallGet(c, i) \/ CallRefresh(c, i)
  PROVE  OneMove(c)
<1>0. session' = session /\ login' = login
  BY DEF CallGet, CallRefresh, entry
<1>1. CASE CallGet(c, i)
  BY <1>0, <1>1 DEF CallGet, OneMove, TypeOK, Finish, Goto, Answer, Ok, LoggingIn, Usable
<1>2. CASE CallRefresh(c, i)
  BY <1>0, <1>2 DEF CallRefresh, OneMove, TypeOK, Finish, Goto, Answer, LoggingIn
<1> QED BY <1>1, <1>2

LEMMA CountedMove ==
  ASSUME TypeOK, NEW c \in Caller, NEW i \in Id, NEW stage \in {"renew", "recover"},
         StartCounted(c, i, stage), UNCHANGED <<session, want>>
  PROVE  OneMove(c)
<1>1. CASE Finish(c, Answer("limited", Nil)) /\ UNCHANGED login
  BY <1>1 DEF OneMove, TypeOK, Finish, Answer, LoggingIn
<1>2. CASE StartLogin(c, i, stage)
  BY <1>2 DEF OneMove, TypeOK, StartLogin, Goto, LoggingIn
<1> QED BY <1>1, <1>2 DEF StartCounted

LEMMA StepMove ==
  ASSUME StoreInv, NEW c \in Caller, CallerStep(c)
  PROVE  OneMove(c)
<1>0. TypeOK /\ FlightOK /\ ObjectsOK
  BY DEF StoreInv
<1>1. CASE GetEnter(c)
  <2>0. want[c] \in Id /\ UNCHANGED <<session, want>>
    BY <1>0, <1>1 DEF FlightOK, Waiting, GetEnter
  <2>1. CASE Usable(session[want[c]]) /\ Finish(c, Ok(session[want[c]])) /\ UNCHANGED login
    BY <1>0, <2>0, <2>1 DEF OneMove, TypeOK, Finish, Ok, Answer, LoggingIn, Usable
  <2>2. CASE StartLogin(c, want[c], "establish")
    BY <1>0, <2>0, <2>2 DEF OneMove, TypeOK, StartLogin, Goto, LoggingIn
  <2>3. CASE StartCounted(c, want[c], "renew")
    BY <1>0, <2>0, <2>3, CountedMove
  <2> QED BY <1>1, <2>1, <2>2, <2>3 DEF GetEnter
<1>2. CASE RefreshEnter(c)
  <2>0. want[c] \in Id /\ UNCHANGED <<session, want>> /\ pc[c] = "refreshWait"
    BY <1>0, <1>2 DEF FlightOK, Waiting, RefreshEnter
  <2>1. CASE Swapped(c) /\ Finish(c, Ok(session[want[c]])) /\ UNCHANGED login
    <3>1. session[want[c]] # Nil
      <4>1. before[c].ptr <= session[want[c]].ptr /\ session[want[c]].ptr # before[c].ptr
            /\ before[c].ptr \in Nat /\ session[want[c]].ptr \in Nat
        BY <1>0, <2>0, <2>1 DEF ObjectsOK, NotNewer, Swapped, TypeOK, Session
      <4>2. session[want[c]].ptr # 0
        BY <4>1
      <4> QED BY <4>2 DEF Nil
    <3> QED BY <1>0, <2>0, <2>1, <3>1 DEF OneMove, TypeOK, Finish, Ok, Answer, LoggingIn
  <2>2. CASE StartCounted(c, want[c], "recover")
    BY <1>0, <2>0, <2>2, CountedMove
  <2> QED BY <1>2, <2>1, <2>2 DEF RefreshEnter
<1>3. CASE RecipeOk(c)
  <2>1. want[c] \in Id /\ LoggingIn(c) /\ UNCHANGED <<want, login>>
    BY <1>0, <1>3 DEF FlightOK, RecipeOk
  <2>2. PICK secs \in Lifetimes :
          LET new == [ptr |-> login[c], tok |-> login[c], exp |-> ExpiresAt(secs, now)]
          IN  session' = [session EXCEPT ![want[c]] = new] /\ Finish(c, Ok(new))
    BY <1>3 DEF RecipeOk
  <2> DEFINE new == [ptr |-> login[c], tok |-> login[c], exp |-> ExpiresAt(secs, now)]
  <2>3. new.tok = login[c] /\ new.ptr = login[c]
    OBVIOUS
  <2>4. session' = [session EXCEPT ![want[c]] = new] /\ Finish(c, Ok(new))
    BY <2>2
  <2> HIDE DEF new
  <2>5. new # Nil
    <3>1. session[want[c]].ptr \in Nat /\ session[want[c]].ptr < login[c] /\ login[c] \in Nat
      BY <1>0, <2>1 DEF ObjectsOK, TypeOK, Session
    <3> QED BY <2>3, <3>1 DEF Nil
  <2> QED BY <1>0, <1>3, <2>1, <2>3, <2>4, <2>5 DEF OneMove, TypeOK, Finish, Ok, Answer, LoggingIn
<1>4. CASE RecipeErr(c)
  <2>1. want[c] \in Id /\ LoggingIn(c) /\ UNCHANGED <<want, login>> /\ Finish(c, Answer("err", Nil))
    BY <1>0, <1>4 DEF FlightOK, RecipeErr
  <2>2. CASE pc[c] = "recover" /\ before[c] # Nil
             /\ session' = [session EXCEPT ![want[c]] = StaleCopy(before[c], login[c])]
    <3>1. before[c] = session[want[c]] /\ before[c] \in Session
      BY <1>0, <2>1, <2>2 DEF ObjectsOK, TypeOK
    <3>2. StaleCopy(before[c], login[c]).tok = before[c].tok
      BY <3>1 DEF StaleCopy, Session
    <3> QED BY <1>0, <2>1, <2>2, <3>1, <3>2 DEF OneMove, TypeOK, Finish, Answer, LoggingIn
  <2>3. CASE session' = session
    BY <1>0, <2>1, <2>3 DEF OneMove, TypeOK, Finish, Answer, LoggingIn
  <2> QED BY <1>4, <2>2, <2>3 DEF RecipeErr
<1>5. CASE Return(c)
  BY <1>0, <1>5 DEF Return, OneMove, TypeOK, LoggingIn, entry, NoAnswer, Answer
<1> QED BY <1>1, <1>2, <1>3, <1>4, <1>5 DEF CallerStep

\* Every session still comes from a login the target answered.
LEMMA LoginsMove ==
  ASSUME GatewayInv, LoginsOK, NEW c \in Caller, OneMove(c),
         UNCHANGED <<valid, revoked, issued>>, RecipeOk(c) => login[c] \in issued
  PROVE  LoginsOK'
<1>0. /\ \A i \in Id : \A t : Known(i, t)' <=> Known(i, t)
      /\ \A d \in Caller : LoggingIn(d) => login[d] \in Nat /\ login[d] <= logins
      /\ logins \in Nat /\ logins + 1 \notin issued
  BY DEF GatewayInv, GatewayTypeOK, StoreInv, ObjectsOK, TypeOK, Known
<1>1. \A i \in Id : session'[i] # Nil => Known(i, session'[i].tok)
  BY DEF OneMove, LoginsOK
<1>2. ASSUME NEW d \in Caller
      PROVE  /\ LoggingIn(d)' => login'[d] > 0
             /\ LoggingIn(d)' /\ login'[d] \in issued => Known(want'[d], login'[d])
             /\ \A e \in Caller \ {d} : LoggingIn(d)' /\ LoggingIn(e)' => login'[d] # login'[e]
             /\ pc'[d] = "returned" /\ res'[d].kind = "ok" => Known(want'[d], res'[d].sess.tok)
  <2>1. CASE d = c
    <3>1. \A e \in Caller \ {c} : LoggingIn(e)' => LoggingIn(e) /\ login'[e] = login[e]
      BY DEF OneMove, LoggingIn
    <3>2. LoggingIn(c)' => login'[c] = logins + 1
      BY DEF OneMove
    <3>3. pc'[c] = "returned" /\ res'[c].kind = "ok" => Known(want'[c], res'[c].sess.tok)
      BY <1>1 DEF OneMove
    <3> QED BY <1>0, <2>1, <3>1, <3>2, <3>3
  <2>2. CASE d # c
    <3>1. /\ pc'[d] = pc[d] /\ want'[d] = want[d] /\ login'[d] = login[d] /\ res'[d] = res[d]
          /\ LoggingIn(d)' <=> LoggingIn(d)
      BY <2>2 DEF OneMove, LoggingIn
    <3>2. \A e \in Caller \ {d} : LoggingIn(d)' /\ LoggingIn(e)' => login'[d] # login'[e]
      BY <1>0, <2>2, <3>1 DEF OneMove, LoginsOK, LoggingIn
    <3> QED BY <3>1, <3>2 DEF LoginsOK
  <2> QED BY <2>1, <2>2
<1> QED BY <1>0, <1>1, <1>2 DEF LoginsOK, Known

LEMMA IssuedMove ==
  ASSUME GatewayInv, LoginsOK, ~SingleSession, NEW r \in Caller, Issue(r)
  PROVE  LoginsOK'
<1>0. /\ UNCHANGED vars /\ LoggingIn(r) /\ want[r] \in Id
      /\ valid' = [valid EXCEPT ![want[r]] = @ \cup {login[r]}] /\ revoked' = revoked
      /\ issued' = issued \cup {login[r]} /\ valid \in [Id -> SUBSET issued]
  BY DEF GatewayInv, GatewayTypeOK, StoreInv, FlightOK, Issue
<1>1. \A i \in Id : valid[i] \cup revoked[i] \subseteq valid'[i] \cup revoked'[i]
  BY <1>0
<1>2. login[r] \in valid'[want[r]]
  BY <1>0
<1>3. UNCHANGED <<session, pc, want, login, res>>
  BY <1>0 DEF vars, entry, call
<1>4. \A c \in Caller : LoggingIn(c) \/ pc[c] = "returned" => want[c] \in Id
  BY Waiter DEF GatewayInv, StoreInv, FlightOK
<1>5. \A i \in Id : session[i] # Nil => session[i].tok \in valid'[i] \cup revoked'[i]
  BY <1>1 DEF LoginsOK, Known
<1>6. ASSUME NEW c \in Caller, pc[c] = "returned", res[c].kind = "ok"
      PROVE  res[c].sess.tok \in valid'[want[c]] \cup revoked'[want[c]]
  <2>1. res[c].sess.tok \in valid[want[c]] \cup revoked[want[c]]
    BY <1>6 DEF LoginsOK, Known
  <2> QED BY <1>1, <1>4, <1>6, <2>1
<1>7. ASSUME NEW c \in Caller, LoggingIn(c), login[c] \in issued'
      PROVE  login[c] \in valid'[want[c]] \cup revoked'[want[c]]
  <2>1. CASE c = r
    BY <1>2, <2>1
  <2>2. CASE c # r
    <3>1. login[c] \in issued
      BY <1>0, <1>7, <2>2 DEF LoginsOK
    <3>2. login[c] \in valid[want[c]] \cup revoked[want[c]]
      BY <1>7, <3>1 DEF LoginsOK, Known
    <3> QED BY <1>1, <1>4, <1>7, <3>2
  <2> QED BY <2>1, <2>2
<1> QED BY <1>3, <1>5, <1>6, <1>7 DEF LoginsOK, LoggingIn, Known

LEMMA RevokedMove ==
  ASSUME GatewayInv, LoginsOK, NEW i \in Id, Revoke(i)
  PROVE  LoginsOK'
<1>0. /\ UNCHANGED <<session, pc, want, login, res, issued>>
      /\ valid \in [Id -> SUBSET issued] /\ revoked \in [Id -> SUBSET issued]
  BY DEF GatewayInv, GatewayTypeOK, Revoke, vars, entry, call
<1>1. PICK t \in valid[i] : /\ valid' = [valid EXCEPT ![i] = @ \ {t}]
                            /\ revoked' = [revoked EXCEPT ![i] = @ \cup {t}]
  BY DEF Revoke
<1>2. \A j \in Id : valid'[j] \cup revoked'[j] = valid[j] \cup revoked[j]
  BY <1>0, <1>1
<1>3. \A c \in Caller : LoggingIn(c) => want[c] \in Id
  BY DEF GatewayInv, StoreInv, FlightOK
<1>4. \A c \in Caller : pc[c] = "returned" /\ res[c].kind = "ok" => want[c] \in Id
  BY Waiter
<1>5. \A c \in Caller : LoggingIn(c)' <=> LoggingIn(c)
  BY <1>0 DEF LoggingIn
<1> QED BY <1>0, <1>2, <1>3, <1>4, <1>5 DEF LoginsOK, Known

\* The requests that a step leaves alone, and the one that moves.
LEMMA TrafficStays ==
  ASSUME NEW d \in Caller, TrafficOK(d), req'[d] = req[d],
         \A i \in Id : \A t : Known(i, t) => Known(i, t)',
         \A i \in Id : revoked[i] \subseteq revoked'[i]
  PROVE  TrafficOK(d)'
BY DEF TrafficOK, Managed, Known

LEMMA TrafficMoves ==
  ASSUME GatewayInv, LoginsOK, NEW r \in Caller, TrafficOK(r),
         UNCHANGED <<valid, revoked>>, RequestStep(r) \/ \E i \in Id \cup Unmanaged, m \in Method : Arrive(r, i, m)
  PROVE  TrafficOK(r)'
<1>0. /\ req \in [Caller -> Request] /\ req[r] \in Request /\ CallOK(r) /\ RoundOK(r)
      /\ req[r].round \in {1, 2}
  BY DEF GatewayInv, GatewayTypeOK, Request
<1>1. ASSUME NEW i \in Id \cup Unmanaged, NEW m \in Method, Arrive(r, i, m)
      PROVE  TrafficOK(r)'
  <2>1. CASE req' = [req EXCEPT ![r].ident = i, ![r].method = m, ![r].stage = Entrance(i, m)]
    <3>1. Entrance(i, m) \in {"csrf", "forward"}
      BY DEF Entrance
    <3>2. req'[r].stage = Entrance(i, m)
      BY <1>0, <2>1 DEF Request
    <3> QED BY <3>1, <3>2 DEF TrafficOK
  <2>2. ASSUME NEW e \in {"error", "refused"},
               req' = [req EXCEPT ![r].ident = i, ![r].method = m,
                                  ![r].stage = "replied", ![r].resp = e]
        PROVE  TrafficOK(r)'
    <3>1. req'[r].stage = "replied" /\ req'[r].resp = e
      BY <1>0, <2>2 DEF Request
    <3> QED BY <3>1 DEF TrafficOK
  <2> QED BY <1>1, <2>1, <2>2 DEF Arrive
<1>2. CASE CsrfHit(r) \/ CsrfMiss(r) \/ CsrfSend(r) \/ CsrfFetched(r) \/ Reauth(r)
  <2>1. req'[r].stage \in {"csrf", "csrfGet", "csrfFetch", "forward", "reauth"}
    BY <1>0, <1>2 DEF CsrfHit, CsrfMiss, CsrfSend, CsrfFetched, Reauth, Request
  <2> QED BY <2>1 DEF TrafficOK
<1>3. CASE Forward(r)
  BY <1>0, <1>3 DEF Forward, TrafficOK, Managed, Request
<1>4. ASSUME NEW n, ForwardFails(r, n) PROVE TrafficOK(r)'
  <2>1. /\ req'[r].stage = "replied"
        /\ req'[r].resp = (IF req[r].round = 1 THEN "error" ELSE req[r].resp)
        /\ req'[r].excuse = (IF req[r].excuse = "none" THEN "failed" ELSE req[r].excuse)
    BY <1>0, <1>4 DEF ForwardFails, Request
  <2>2. req'[r].excuse # "none"
    BY <2>1
  <2> QED BY <2>1, <2>2 DEF TrafficOK
<1>5. CASE ForwardSend(r)
  <2>1. CASE /\ res[r].kind = "ok" /\ pc[r] = "returned"
             /\ req' = [req EXCEPT ![r].sent = res[r].sess.tok, ![r].stage = "sent",
                              ![r].first = IF req[r].round = 1 THEN res[r].sess.tok ELSE @]
    <3>1. Known(want[r], res[r].sess.tok) /\ want[r] = req[r].ident
      BY <2>1 DEF LoginsOK, GatewayInv, CallOK
    <3>2. /\ req'[r].stage = "sent" /\ req'[r].sent = res[r].sess.tok
          /\ req'[r].ident = req[r].ident
      BY <1>0, <2>1 DEF Request
    <3> QED BY <3>1, <3>2 DEF TrafficOK, Known
  <2> QED BY <1>4, <1>5, <2>1 DEF ForwardSend, Return
<1>6. CASE TargetAnswers(r)
  <2>0. req[r].stage = "sent"
    BY <1>6 DEF TargetAnswers, At
  <2>1. CASE req' = [req EXCEPT ![r].done = @ + 1, ![r].resp = "ok", ![r].stage = "answered"]
    BY <1>0, <2>1 DEF TrafficOK, Request
  <2>2. CASE req' = [req EXCEPT ![r].done = @ + 1, ![r].resp = "logout",
                              ![r].stage = "answered",
                              ![r].excuse = IF req[r].round = 2 THEN "alarm" ELSE @]
    BY <1>0, <2>2 DEF TrafficOK, Request
  <2>3. CASE /\ ~Executes(r)
             /\ req' = [req EXCEPT ![r].resp = IF Accepts(r) THEN "forbidden" ELSE "logout",
                              ![r].stage = "answered"]
    <3>1. /\ req'[r].ident = req[r].ident /\ req'[r].sent = req[r].sent
          /\ req'[r].stage = "answered" /\ req'[r].round = req[r].round
          /\ req'[r].resp = (IF Accepts(r) THEN "forbidden" ELSE "logout")
      BY <1>0, <2>3 DEF Request
    <3>2. ASSUME Managed(r), ~Accepts(r) PROVE req[r].sent \in revoked[req[r].ident]
      BY <2>0, <3>2 DEF TrafficOK, Known, Accepts
    <3> QED BY <3>1, <3>2 DEF TrafficOK, Managed
  <2> QED BY <1>6, <2>1, <2>2, <2>3 DEF TargetAnswers
<1>7. CASE TargetFails(r)
  BY <1>4, <1>7 DEF TargetFails
<1>8. CASE Reply(r)
  <2>1. /\ req[r].stage = "answered" /\ ~LoggedOut(r)
        /\ req'[r] = [req[r] EXCEPT !.stage = "replied"]
    BY <1>0, <1>8 DEF Reply, At
  <2>2. /\ req'[r].ident = req[r].ident /\ req'[r].sent = req[r].sent
        /\ req'[r].stage = "replied" /\ req'[r].round = req[r].round
        /\ req'[r].resp = req[r].resp /\ req'[r].excuse = req[r].excuse
    BY <1>0, <2>1 DEF Request
  <2>3. Managed(r) /\ req[r].resp = "logout" => req[r].round = 2
    BY <1>0, <2>1 DEF LoggedOut
  <2> QED BY <2>1, <2>2, <2>3 DEF TrafficOK, Managed
<1>9. CASE Reauthed(r)
  <2>0. req[r].stage = "reauth" /\ pc[r] = "returned"
    BY <1>9 DEF Reauthed, At, Return
  <2>1. CASE IsIdempotent(req[r].method) /\ res[r].kind = "ok"
    <3>1. req'[r].stage \in {"csrf", "forward"}
      BY <1>0, <1>9, <2>1 DEF Reauthed, Entrance, Request
    <3> QED BY <3>1 DEF TrafficOK
  <2>2. CASE ~IsIdempotent(req[r].method) /\ res[r].kind = "ok"
    <3>1. req'[r].stage = "replied" /\ req'[r].method \notin Idempotent
      BY <1>0, <1>9, <2>2 DEF Reauthed, IsIdempotent, Request
    <3> QED BY <3>1 DEF TrafficOK
  <2>3. CASE res[r].kind # "ok"
    <3>1. res[r].kind # "none"
      BY <1>0, <2>0 DEF CallOK
    <3>2. req'[r].stage = "replied" /\ req'[r].excuse # "none"
      BY <1>0, <1>9, <2>3, <3>1 DEF Reauthed, Request
    <3> QED BY <3>2 DEF TrafficOK
  <2> QED BY <2>1, <2>2, <2>3
<1>10. CASE StoreStep(r) \/ Issue(r) \/ LoginOk(r) \/ LoginErr(r)
  <2>1. UNCHANGED req
    BY <1>10 DEF StoreStep, Issue, LoginOk, LoginErr
  <2> QED BY <2>1 DEF TrafficOK, Managed, Known
<1> QED BY <1>1, <1>2, <1>3, <1>5, <1>6, <1>7, <1>8, <1>9, <1>10 DEF RequestStep

LEMMA LoginsStay ==
  ASSUME LoginsOK, UNCHANGED <<vars, valid, revoked, issued>>
  PROVE  LoginsOK'
<1>1. UNCHANGED <<session, pc, want, login, res>>
  BY DEF vars, entry, call
<1> QED BY <1>1 DEF LoginsOK, LoggingIn, Known

\* A step of one request, but for a login that the target answers.
LEMMA LoginsKept ==
  ASSUME GatewayInv, LoginsOK, NEW r \in Caller,
         \/ RequestStep(r) /\ ~Issue(r)
         \/ \E i \in Id \cup Unmanaged, m \in Method : Arrive(r, i, m)
  PROVE  LoginsOK' /\ UNCHANGED <<valid, revoked>>
<1>0. TypeOK /\ StoreInv
  BY DEF GatewayInv, StoreInv
<1>1. CASE \/ CsrfHit(r) \/ CsrfFetched(r) \/ TargetAnswers(r) \/ TargetFails(r) \/ Reply(r)
           \/ \E i \in Id \cup Unmanaged, m \in Method : Arrive(r, i, m)
           \/ Forward(r) /\ UNCHANGED vars
  <2>1. UNCHANGED <<vars, valid, revoked, issued>>
    BY <1>1 DEF CsrfHit, CsrfFetched, TargetAnswers, TargetFails, Reply, Arrive, Forward, target
  <2> QED BY <2>1, LoginsStay
<1>2. CASE CsrfMiss(r) \/ Reauth(r) \/ (Forward(r) /\ ~UNCHANGED vars)
  <2>1. /\ \E i \in Id \cup Unmanaged : CallGet(r, i) \/ CallRefresh(r, i)
        /\ UNCHANGED <<valid, revoked, issued>>
    <3>1. CASE CsrfMiss(r)
      <4>1. req[r].ident \in Id
        BY <3>1 DEF GatewayInv, CallOK, CsrfMiss, At, Managed
      <4> QED BY <3>1, <4>1 DEF CsrfMiss, target
    <3>2. CASE Reauth(r)
      BY <3>2 DEF Reauth, LoggedOut, Managed, target
    <3>3. CASE Forward(r) /\ ~UNCHANGED vars
      BY <3>3 DEF Forward, Managed, target
    <3> QED BY <1>2, <3>1, <3>2, <3>3
  <2>2. ~RecipeOk(r)
    BY <2>1 DEF CallGet, CallRefresh, RecipeOk, LoggingIn
  <2>3. OneMove(r)
    BY <1>0, <2>1, CallMove
  <2> QED BY <2>1, <2>2, <2>3, LoginsMove
<1>3. CASE CsrfSend(r) \/ ForwardSend(r) \/ Reauthed(r) \/ StoreStep(r)
  <2>1. CallerStep(r) /\ UNCHANGED <<valid, revoked, issued>>
    BY <1>3 DEF CsrfSend, ForwardSend, Reauthed, StoreStep, CallerStep, target
  <2>2. ~RecipeOk(r)
    BY <1>3 DEF CsrfSend, ForwardSend, Reauthed, StoreStep, Return, GetEnter, RefreshEnter,
                RecipeOk, LoggingIn
  <2> QED BY <1>0, <2>1, <2>2, StepMove, LoginsMove
<1>4. CASE LoginOk(r)
  <2>1. CallerStep(r) /\ UNCHANGED <<valid, revoked, issued>> /\ login[r] \in issued
    BY <1>4 DEF LoginOk, CallerStep, target
  <2> QED BY <1>0, <2>1, StepMove, LoginsMove
<1>5. CASE LoginErr(r)
  <2>1. CallerStep(r) /\ UNCHANGED <<valid, revoked, issued>> /\ RecipeErr(r)
    BY <1>5 DEF LoginErr, CallerStep
  <2>2. ~RecipeOk(r)
    <3>1. res \in [Caller -> Result]
      BY <1>0 DEF TypeOK
    <3>2. res'[r].kind = "err"
      BY <2>1, <3>1 DEF RecipeErr, Finish, Answer
    <3>3. RecipeOk(r) => res'[r].kind = "ok"
      BY <3>1 DEF RecipeOk, Finish, Ok, Answer
    <3> QED BY <3>2, <3>3
  <2> QED BY <1>0, <2>1, <2>2, StepMove, LoginsMove
<1> QED BY <1>1, <1>2, <1>3, <1>4, <1>5 DEF RequestStep

LEMMA OneTraveller ==
  ASSUME GatewayInv, NEW r \in Caller,
         RequestStep(r) \/ \E i \in Id \cup Unmanaged, m \in Method : Arrive(r, i, m)
  PROVE  \A d \in Caller \ {r} : req'[d] = req[d]
<1>0. req \in [Caller -> Request]
  BY DEF GatewayInv, GatewayTypeOK
<1>1. CASE CsrfHit(r) \/ CsrfMiss(r) \/ CsrfSend(r) \/ CsrfFetched(r)
  BY <1>0, <1>1 DEF CsrfHit, CsrfMiss, CsrfSend, CsrfFetched
<1>2. CASE Forward(r) \/ ForwardSend(r) \/ TargetFails(r)
  BY <1>0, <1>2 DEF Forward, ForwardSend, TargetFails, ForwardFails
<1>3. CASE TargetAnswers(r)
  BY <1>0, <1>3 DEF TargetAnswers
<1>4. CASE Reauth(r) \/ Reauthed(r) \/ Reply(r)
  BY <1>0, <1>4 DEF Reauth, Reauthed, Reply
<1>5. CASE StoreStep(r) \/ Issue(r) \/ LoginOk(r) \/ LoginErr(r)
  BY <1>5 DEF StoreStep, Issue, LoginOk, LoginErr
<1>6. CASE \E i \in Id \cup Unmanaged, m \in Method : Arrive(r, i, m)
  <2>1. PICK i \in Id \cup Unmanaged, m \in Method : Arrive(r, i, m)
    BY <1>6
  <2>2. CASE req' = [req EXCEPT ![r].ident = i, ![r].method = m, ![r].stage = Entrance(i, m)]
    BY <1>0, <2>2
  <2>3. ASSUME NEW e, req' = [req EXCEPT ![r].ident = i, ![r].method = m,
                                         ![r].stage = "replied", ![r].resp = e]
        PROVE  \A d \in Caller \ {r} : req'[d] = req[d]
    BY <1>0, <2>3
  <2> QED BY <2>1, <2>2, <2>3 DEF Arrive
<1> QED BY <1>1, <1>2, <1>3, <1>4, <1>5, <1>6 DEF RequestStep

LEMMA TargetStep ==
  GatewayInv /\ ~SingleSession /\ LoginsOK /\ (\A r \in Caller : TrafficOK(r)) /\ [GatewayNext]_gvars
    => LoginsOK' /\ (\A r \in Caller : TrafficOK(r)')
<1> SUFFICES ASSUME GatewayInv, ~SingleSession, LoginsOK, \A r \in Caller : TrafficOK(r),
                    [GatewayNext]_gvars
             PROVE  LoginsOK' /\ \A r \in Caller : TrafficOK(r)'
  OBVIOUS
<1>0. /\ valid \in [Id -> SUBSET issued] /\ revoked \in [Id -> SUBSET issued]
  BY DEF GatewayInv, GatewayTypeOK
<1>1. ASSUME UNCHANGED <<valid, revoked>>
      PROVE  /\ \A i \in Id : \A t : Known(i, t) => Known(i, t)'
             /\ \A i \in Id : revoked[i] \subseteq revoked'[i]
  BY <1>1 DEF Known
<1>2. ASSUME NEW r \in Caller,
             \/ RequestStep(r) /\ ~Issue(r)
             \/ \E i \in Id \cup Unmanaged, m \in Method : Arrive(r, i, m)
      PROVE  LoginsOK' /\ \A d \in Caller : TrafficOK(d)'
  <2>1. LoginsOK' /\ UNCHANGED <<valid, revoked>>
    BY <1>2, LoginsKept
  <2>2. TrafficOK(r)'
    BY <1>2, <2>1, TrafficMoves
  <2>3. ASSUME NEW d \in Caller \ {r} PROVE TrafficOK(d)'
    <3>1. req'[d] = req[d] /\ TrafficOK(d)
      BY <1>2, OneTraveller
    <3> QED BY <1>1, <2>1, <3>1, TrafficStays
  <2> QED BY <2>1, <2>2, <2>3
<1>3. ASSUME UNCHANGED req,
             \A i \in Id : \A t : Known(i, t) => Known(i, t)',
             \A i \in Id : revoked[i] \subseteq revoked'[i]
      PROVE  \A d \in Caller : TrafficOK(d)'
  BY <1>3, TrafficStays
<1>4. ASSUME NEW r \in Caller, Issue(r)
      PROVE  LoginsOK' /\ \A d \in Caller : TrafficOK(d)'
  <2>1. /\ want[r] \in Id /\ valid' = [valid EXCEPT ![want[r]] = @ \cup {login[r]}]
        /\ UNCHANGED <<req, revoked>>
    BY <1>4 DEF Issue, GatewayInv, StoreInv, FlightOK
  <2>2. /\ \A i \in Id : \A t : Known(i, t) => Known(i, t)'
        /\ \A i \in Id : revoked[i] \subseteq revoked'[i]
    BY <1>0, <2>1 DEF Known
  <2> QED BY <1>3, <1>4, <2>1, <2>2, IssuedMove
<1>5. ASSUME NEW i \in Id, Revoke(i)
      PROVE  LoginsOK' /\ \A d \in Caller : TrafficOK(d)'
  <2>1. PICK t \in valid[i] : /\ valid' = [valid EXCEPT ![i] = @ \ {t}]
                              /\ revoked' = [revoked EXCEPT ![i] = @ \cup {t}]
    BY <1>5 DEF Revoke
  <2>2. /\ \A j \in Id : \A u : Known(j, u) => Known(j, u)'
        /\ \A j \in Id : revoked[j] \subseteq revoked'[j]
    BY <1>0, <2>1 DEF Known
  <2> QED BY <1>3, <1>5, <2>2, RevokedMove DEF Revoke
<1>6. ASSUME Tick, UNCHANGED <<req, cache, target, floor>>
      PROVE  LoginsOK' /\ \A d \in Caller : TrafficOK(d)'
  <2>1. UNCHANGED <<session, pc, want, login, res, valid, revoked, issued, req>>
    BY <1>6 DEF Tick, entry, call, target
  <2> QED BY <1>1, <1>3, <2>1 DEF LoginsOK, LoggingIn, Known
<1>7. ASSUME UNCHANGED gvars
      PROVE  LoginsOK' /\ \A d \in Caller : TrafficOK(d)'
  <2>1. UNCHANGED <<vars, valid, revoked, issued, req>>
    BY <1>7 DEF gvars, target
  <2> QED BY <1>1, <1>3, <2>1, LoginsStay
<1> QED BY <1>2, <1>4, <1>5, <1>6, <1>7 DEF GatewayNext, Served

LEMMA TargetInit == GatewayInit => LoginsOK /\ \A r \in Caller : TrafficOK(r)
<1> SUFFICES ASSUME GatewayInit PROVE LoginsOK /\ \A r \in Caller : TrafficOK(r)
  OBVIOUS
<1>1. LoginsOK
  BY DEF GatewayInit, Init, LoginsOK, LoggingIn
<1>2. ASSUME NEW r \in Caller PROVE TrafficOK(r)
  BY StoreAssumption DEF GatewayInit, NewRequest, TrafficOK, Managed
<1> QED BY <1>1, <1>2

\* The target's view of the credentials agrees with the store's and the requests'
\* (forward, serve and the store's logins), where sessions may coexist.
THEOREM TargetSafe == GatewaySpec => []TargetInv
<1>1. GatewayInit => TargetInv
  BY GatewayInvInit, TargetInit DEF TargetInv
<1>2. TargetInv /\ [GatewayNext]_gvars => TargetInv'
  BY GatewayInvStep, TargetStep DEF TargetInv
<1> QED BY <1>1, <1>2, PTL DEF GatewaySpec

\* The tool never sees a logged-out answer that a re-login could have spared it
\* (serve, gateway.go:190-308), at a target that lets sessions coexist: one that ends
\* a session at the next login may end the retry's.
THEOREM TransparentSafe == GatewaySpec => [](~SingleSession => Transparent)
<1>1. TargetInv => (~SingleSession => Transparent)
  BY DEF TargetInv, TrafficOK, Transparent, At
<1> QED BY <1>1, TargetSafe, PTL

=============================================================================

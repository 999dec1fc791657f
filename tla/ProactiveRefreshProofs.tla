---------------------- MODULE ProactiveRefreshProofs ----------------------
(***************************************************************************)
(* Proofs about ProactiveRefresh, for every interval, delay and set of     *)
(* identities: the store under the loop, and the sessions the loop keeps   *)
(* alive.                                                                  *)
(***************************************************************************)
EXTENDS ProactiveRefresh, SessionStoreProofs

-----------------------------------------------------------------------------
(* The store under the loop.                                               *)

LEMMA LoopIsAny ==
  ASSUME due \subseteq Id, [LoopNext]_pvars
  PROVE  [AnyStep]_vars /\ due' \subseteq Id
<1>1. CASE LoopStep
  BY <1>1, LoopAssumption DEF LoopStep, Fire, SweepStart, SweepCall, SweepEnd, AnyStep
<1>2. ASSUME NEW c \in Caller, OtherCall(c) PROVE AnyStep /\ due' \subseteq Id
  BY <1>2 DEF OtherCall, ClientCall, loop, ticker, AnyStep
<1>3. ASSUME NEW c \in Caller, CallerStep(c), Fairly(c) PROVE AnyStep /\ due' \subseteq Id
  BY <1>3 DEF Fairly, ticker, AnyStep
<1>4. CASE (Tick \/ Quiescent) /\ UNCHANGED loop
  BY <1>4 DEF Quiescent, loop, ticker, AnyStep
<1>5. CASE UNCHANGED pvars
  BY <1>5 DEF pvars, loop, ticker
<1> QED BY <1>1, <1>2, <1>3, <1>4, <1>5 DEF LoopNext

\* The store's bookkeeping stays consistent with the loop among its callers
\* (proactiveRefresh, cmd/daemon.go:52-75): RefreshExpiring goes through Refresh.
THEOREM StoreUnderLoop == LoopSpec => []StoreInv
<1>1. LoopInit => StoreInv /\ due \subseteq Id
  BY StoreInvInit DEF LoopInit
<1>2. StoreInv /\ due \subseteq Id /\ [LoopNext]_pvars => (StoreInv /\ due \subseteq Id)'
  BY LoopIsAny, StoreInvStep
<1> QED BY <1>1, <1>2, PTL DEF LoopSpec

LEMMA TimelyIsLoop == [TimelyNext]_pvars => [LoopNext]_pvars
BY DEF TimelyNext, LoopNext, CallerStep

-----------------------------------------------------------------------------
(* What a caller that gets past flightMu changes.                          *)

LEMMA EnterEffects ==
  ASSUME Typed, NEW c \in Caller, GetEnter(c) \/ RefreshEnter(c)
  PROVE  /\ Waiting(c) /\ want[c] \in Id /\ FlightFree(want[c])
         /\ UNCHANGED <<now, session, want, before>>
         /\ \/ /\ UNCHANGED <<flight, logins, login, attempts>>
               /\ pc' = [pc EXCEPT ![c] = "returned"]
            \/ /\ flight' = [flight EXCEPT ![want[c]] = c]
               /\ login' = [login EXCEPT ![c] = logins + 1]
               /\ \/ /\ session[want[c]] = Nil /\ pc[c] = "getWait"
                     /\ pc' = [pc EXCEPT ![c] = "establish"]
                     /\ UNCHANGED attempts
                  \/ /\ \/ pc[c] = "getWait" /\ pc' = [pc EXCEPT ![c] = "renew"]
                        \/ /\ pc[c] = "refreshWait" /\ ~Swapped(c)
                           /\ pc' = [pc EXCEPT ![c] = "recover"]
                     /\ attempts' = [attempts EXCEPT ![want[c]] =
                                       @ \cup {[n |-> logins + 1, at |-> now]}]
<1>1. Waiting(c) /\ want[c] \in Id /\ FlightFree(want[c])
      /\ UNCHANGED <<now, session, want, before>>
  BY DEF GetEnter, RefreshEnter, Waiting, Typed, FlightOK
<1>2. CASE GetEnter(c)
  BY <1>1, <1>2 DEF GetEnter, StartCounted, StartLogin, Finish, Goto
<1>3. CASE RefreshEnter(c)
  BY <1>1, <1>3 DEF RefreshEnter, StartCounted, StartLogin, Finish, Goto
<1> QED BY <1>2, <1>3, <1>1

-----------------------------------------------------------------------------
(* Who holds flightMu.                                                     *)

\* Steps that move nobody into or out of a login.
LEMMA QuietLock ==
  ASSUME StoreInv, LockOK, UNCHANGED <<session, flight, attempts, login>>, now' >= now, now' \in Nat,
         \A d \in Caller :
           /\ LoggingIn(d) => pc'[d] = pc[d] /\ want'[d] = want[d]
           /\ LoggingIn(d)' => LoggingIn(d)
  PROVE  LockOK'
<1>1. ASSUME NEW i \in Id, flight[i] # NoCaller
      PROVE  LoggingIn(flight[i])' /\ want'[flight[i]] = i
  BY <1>1 DEF LockOK, StoreInv, TypeOK, LoggingIn
<1>2. ASSUME NEW d \in Caller, pc'[d] = "establish" PROVE session'[want'[d]] = Nil
  BY <1>2 DEF LockOK, LoggingIn
<1>3. ASSUME NEW d \in Caller, pc'[d] \in {"renew", "recover"} PROVE BegunBy(d, now)'
  <2>1. BegunBy(d, now) /\ want'[d] = want[d] /\ want[d] \in Id
    BY <1>3 DEF LockOK, LoggingIn, StoreInv, FlightOK
  <2> QED BY <2>1 DEF BegunBy, StoreInv, TypeOK
<1> QED BY <1>1, <1>2, <1>3 DEF LockOK

LEMMA EnterLock ==
  ASSUME StoreInv, LockOK, NEW c \in Caller, GetEnter(c) \/ RefreshEnter(c)
  PROVE  LockOK'
<1> DEFINE i == want[c]
<1>0. TypeOK /\ FlightOK /\ Typed /\ ObjectsOK
  BY DEF StoreInv, Typed
<1>1. /\ Waiting(c) /\ i \in Id /\ flight[i] = NoCaller
      /\ UNCHANGED <<now, session, want, before>>
  BY <1>0, EnterEffects DEF FlightFree
<1>2. CASE UNCHANGED <<flight, logins, login, attempts>> /\ pc' = [pc EXCEPT ![c] = "returned"]
  BY <1>0, <1>1, <1>2, QuietLock DEF TypeOK, Waiting, LoggingIn
<1>3. CASE ~(UNCHANGED <<flight, logins, login, attempts>> /\ pc' = [pc EXCEPT ![c] = "returned"])
  <2>1. /\ flight' = [flight EXCEPT ![i] = c]
        /\ login' = [login EXCEPT ![c] = logins + 1]
        /\ \/ /\ session[i] = Nil
              /\ pc' = [pc EXCEPT ![c] = "establish"]
              /\ UNCHANGED attempts
           \/ /\ pc' = [pc EXCEPT ![c] = "renew"] \/ pc' = [pc EXCEPT ![c] = "recover"]
              /\ attempts' = [attempts EXCEPT ![i] = @ \cup {[n |-> logins + 1, at |-> now]}]
    BY <1>0, <1>3, EnterEffects
  <2>2. LoggingIn(c)' /\ \A d \in Caller \ {c} : pc'[d] = pc[d] /\ login'[d] = login[d]
    BY <1>0, <2>1 DEF TypeOK, LoggingIn
  <2>3. \A d \in Caller \ {c} : LoggingIn(d) => want[d] # i
    BY <1>0, <1>1, StoreAssumption DEF FlightOK
  <2>4. ASSUME NEW j \in Id, flight'[j] # NoCaller
        PROVE  LoggingIn(flight[j])' /\ want'[flight'[j]] = j
    <3>1. CASE j = i
      BY <1>0, <1>1, <2>1, <2>2, <3>1 DEF TypeOK
    <3>2. CASE j # i
      <4>1. flight'[j] = flight[j] /\ LoggingIn(flight[j]) /\ want[flight[j]] = j
        BY <1>0, <2>1, <2>4, <3>2 DEF TypeOK, LockOK
      <4>2. flight[j] \in Caller \ {c}
        BY <1>0, <1>1, <2>4, <3>2, <4>1 DEF TypeOK
      <4> QED BY <1>1, <2>2, <4>1, <4>2 DEF LoggingIn
    <3> QED BY <3>1, <3>2
  <2>5. ASSUME NEW d \in Caller, pc'[d] = "establish" PROVE session'[want'[d]] = Nil
    BY <1>0, <1>1, <2>1, <2>2, <2>5 DEF TypeOK, LockOK
  <2>6. ASSUME NEW d \in Caller, pc'[d] \in {"renew", "recover"} PROVE BegunBy(d, now)'
    <3>1. CASE d = c
      <4>1. login'[c] = logins + 1 /\ pc'[c] # "establish"
        BY <1>0, <2>1, <2>6, <3>1 DEF TypeOK
      <4>2. [n |-> logins + 1, at |-> now] \in attempts'[i]
        BY <1>0, <1>1, <2>1, <4>1 DEF TypeOK
      <4> QED BY <1>0, <1>1, <3>1, <4>1, <4>2 DEF BegunBy, TypeOK
    <3>2. CASE d # c
      <4>1. BegunBy(d, now) /\ want[d] \in Id
        BY <1>0, <2>2, <2>6, <3>2 DEF LockOK, FlightOK, LoggingIn
      <4>2. attempts[want[d]] \subseteq attempts'[want[d]]
        BY <1>0, <2>1, <4>1 DEF TypeOK
      <4> QED BY <1>1, <2>2, <3>2, <4>1, <4>2 DEF BegunBy
    <3> QED BY <3>1, <3>2
  <2> QED BY <2>4, <2>5, <2>6 DEF LockOK, BegunBy
<1> QED BY <1>2, <1>3

LEMMA EndLock ==
  ASSUME StoreInv, LockOK, NEW c \in Caller, LoggingIn(c), NEW s \in Session,
         session' = [session EXCEPT ![want[c]] = s], Unlock(want[c]),
         pc' = [pc EXCEPT ![c] = "returned"], UNCHANGED <<now, want, login, attempts>>
  PROVE  LockOK'
<1>0. TypeOK /\ FlightOK
  BY DEF StoreInv
<1>1. want[c] \in Id /\ flight[want[c]] = c
  BY <1>0 DEF FlightOK
<1>2. \A d \in Caller \ {c} : pc'[d] = pc[d]
  BY <1>0 DEF TypeOK
<1>3. \A d \in Caller \ {c} : LoggingIn(d) => want[d] # want[c]
  BY <1>0, <1>1 DEF FlightOK
<1>4. ASSUME NEW j \in Id, flight'[j] # NoCaller
      PROVE  LoggingIn(flight[j])' /\ want'[flight'[j]] = j
  <2>1. j # want[c] /\ flight'[j] = flight[j]
    BY <1>0, <1>1, <1>4 DEF Unlock, TypeOK
  <2>2. LoggingIn(flight[j]) /\ want[flight[j]] = j /\ flight[j] \in Caller \ {c}
    BY <1>0, <1>4, <2>1 DEF LockOK, TypeOK
  <2> QED BY <1>2, <2>1, <2>2 DEF LoggingIn
<1>5. ASSUME NEW d \in Caller, pc'[d] = "establish" PROVE session'[want'[d]] = Nil
  <2>1. d # c /\ pc[d] = "establish" /\ want[d] \in Id
    BY <1>0, <1>2, <1>5 DEF TypeOK, FlightOK, LoggingIn
  <2> QED BY <1>0, <1>3, <2>1 DEF TypeOK, LockOK, LoggingIn
<1>6. ASSUME NEW d \in Caller, pc'[d] \in {"renew", "recover"} PROVE BegunBy(d, now)'
  <2>1. d # c /\ pc[d] = pc'[d]
    BY <1>0, <1>2, <1>6 DEF TypeOK
  <2>2. BegunBy(d, now)
    BY <1>6, <2>1 DEF LockOK
  <2> QED BY <2>2 DEF BegunBy
<1> QED BY <1>4, <1>5, <1>6 DEF LockOK, BegunBy

LEMMA LockStep ==
  ASSUME StoreInv, LockOK, [AnyStep]_vars
  PROVE  LockOK'
<1>0. TypeOK /\ FlightOK /\ Typed /\ ObjectsOK
  BY DEF StoreInv, Typed
<1>1. ASSUME NEW c \in Caller, NEW i \in Id \cup Unmanaged, CallGet(c, i) \/ CallRefresh(c, i)
      PROVE  LockOK'
  <2>1. UNCHANGED <<now, session, flight, attempts, login>> /\ pc[c] = "idle"
    BY <1>1 DEF CallGet, CallRefresh, entry, history
  <2>2. pc'[c] \in {"getWait", "refreshWait", "returned"}
    BY <1>0, <1>1 DEF CallGet, CallRefresh, Finish, Goto, TypeOK
  <2>3. \A d \in Caller \ {c} : pc'[d] = pc[d] /\ want'[d] = want[d]
    BY <1>0, <1>1 DEF CallGet, CallRefresh, Finish, Goto, TypeOK
  <2> QED BY <1>0, <2>1, <2>2, <2>3, QuietLock DEF LoggingIn, TypeOK
<1>2. ASSUME NEW c \in Caller, RecipeOk(c) PROVE LockOK'
  <2>1. PICK s \in Session : /\ session' = [session EXCEPT ![want[c]] = s]
                             /\ Finish(c, Ok(s))
    BY <1>0, <1>2, OkCommits
  <2> QED BY <1>2, <2>1, EndLock DEF RecipeOk, Finish, history
<1>3. ASSUME NEW c \in Caller, Return(c) PROVE LockOK'
  <2>1. UNCHANGED <<now, session, flight, attempts>> /\ pc[c] = "returned"
    BY <1>3 DEF Return, entry, history
  <2>2. pc'[c] = "idle" /\ \A d \in Caller \ {c} :
          pc'[d] = pc[d] /\ want'[d] = want[d] /\ login'[d] = login[d]
    BY <1>0, <1>3 DEF Return, TypeOK
  <2>3. ASSUME NEW d \in Caller, pc'[d] \in {"renew", "recover"} PROVE BegunBy(d, now)'
    <3>1. d # c /\ BegunBy(d, now)
      BY <2>2, <2>3 DEF LockOK
    <3> QED BY <2>1, <2>2, <3>1 DEF BegunBy
  <2>4. ASSUME NEW i \in Id, flight[i] # NoCaller
        PROVE  LoggingIn(flight[i])' /\ want'[flight[i]] = i
    <3>1. LoggingIn(flight[i]) /\ want[flight[i]] = i /\ flight[i] \in Caller
      BY <1>0, <2>4 DEF LockOK, TypeOK
    <3>2. flight[i] # c
      BY <2>1, <3>1 DEF LoggingIn
    <3> QED BY <2>1, <2>2, <3>1, <3>2 DEF LoggingIn
  <2>5. \A d \in Caller : pc'[d] = "establish" => session'[want'[d]] = Nil
    BY <2>1, <2>2 DEF LockOK
  <2> QED BY <2>1, <2>3, <2>4, <2>5 DEF LockOK
<1>4. CASE Tick \/ UNCHANGED vars
  BY <1>0, <1>4, QuietLock DEF Tick, vars, entry, call, history, LoggingIn, TypeOK
<1>5. ASSUME NEW c \in Caller, RecipeErr(c) PROVE LockOK'
  <2>1. LoggingIn(c) /\ Unlock(want[c]) /\ pc' = [pc EXCEPT ![c] = "returned"]
        /\ UNCHANGED <<now, want, login, attempts>>
    BY <1>5 DEF RecipeErr, Finish
  <2>2. want[c] \in Id
    BY <1>0, <2>1 DEF FlightOK
  <2>3. \E s \in Session : session' = [session EXCEPT ![want[c]] = s]
    <3>1. CASE UNCHANGED session
      <4>1. session[want[c]] \in Session
        BY <1>0, <2>2 DEF TypeOK
      <4>2. session' = [session EXCEPT ![want[c]] = session[want[c]]]
        BY <1>0, <2>2, <3>1 DEF TypeOK
      <4> QED BY <4>1, <4>2
    <3>2. CASE ~UNCHANGED session
      BY <1>0, <1>5, <3>2, ErrLeaves
    <3> QED BY <3>1, <3>2
  <2> QED BY <2>1, <2>3, EndLock
<1> QED BY <1>1, <1>2, <1>3, <1>4, <1>5, EnterLock DEF AnyStep, CallerStep

-----------------------------------------------------------------------------
(* The loop's own bookkeeping.                                             *)

\* The numbers the loop reckons with.
LEMMA LoopNumbers ==
  ASSUME LoopInv, IsFiniteSet(Id)
  PROVE  /\ now \in Nat /\ nextTick \in Nat /\ since \in Nat
         /\ Interval \in Nat /\ Interval > 0 /\ MaxDelay \in Nat
         /\ Patience = MaxDelay + MaxDelay /\ Patience \in Nat
         /\ Deadline \in Int /\ now <= Deadline /\ Deadline <= now + Interval
         /\ IsFiniteSet(due) /\ Cardinality(due) \in Nat
         /\ Cardinality(due) * Patience \in Nat
         /\ \A i \in Id : session[i].exp \in Nat
<1>1. now \in Nat /\ nextTick \in Nat /\ since \in Nat /\ Interval \in Nat /\ Interval > 0
      /\ MaxDelay \in Nat
  BY LoopAssumption DEF LoopInv, StoreInv, TypeOK, ClockOK
<1>2. Patience = MaxDelay + MaxDelay /\ Patience \in Nat
  BY <1>1 DEF Patience
<1>3. Deadline \in Int /\ now <= Deadline /\ Deadline <= now + Interval
  BY <1>1 DEF LoopInv, ClockOK, Deadline
<1>4. IsFiniteSet(due) /\ Cardinality(due) \in Nat
  BY FS_Subset, FS_CardinalityType DEF LoopInv, SweepOK
<1>5. Cardinality(due) * Patience \in Nat
  BY <1>2, <1>4
<1>6. \A i \in Id : session[i].exp \in Nat
  BY DEF LoopInv, StoreInv, TypeOK, Session
<1> QED BY <1>1, <1>2, <1>3, <1>4, <1>5, <1>6

\* What the loop keeps for itself does not move with the steps of others that
\* neither store a session nor take time.
LEMMA Bystander ==
  ASSUME LoopInv, IsFiniteSet(Id), UNCHANGED <<now, session, ticker, since>>, starving' \in BOOLEAN,
         pc'[Loop] = pc[Loop], want'[Loop] = want[Loop], before'[Loop] = before[Loop]
  PROVE  ClockOK' /\ SweepOK' /\ PaceOK' /\ AliveOK'
<1>1. UNCHANGED <<sweeping, due, nextTick, pending>>
  BY DEF ticker
<1>2. Swapped(Loop)' = Swapped(Loop)
  BY DEF Swapped
<1>3. Deadline' = Deadline /\ \A i \in Id : Owed(i)' = Owed(i)
  BY <1>1, <1>2 DEF Deadline, Owed
<1>4. ClockOK' /\ SweepOK'
  BY <1>1 DEF LoopInv, ClockOK, SweepOK
<1>5. PaceOK'
  BY <1>1, <1>3 DEF LoopInv, PaceOK, Patience
<1>6. AliveOK'
  BY <1>3 DEF LoopInv, AliveOK
<1> QED BY <1>4, <1>5, <1>6

LEMMA SameWait ==
  ASSUME WaitOK,
         UNCHANGED <<now, session, flight, pc, want, before, login, attempts, since, starving>>
  PROVE  WaitOK'
BY DEF WaitOK, BegunBy, FlightFree, Swapped, Patience

\* The conjuncts of LoopInv that follow the loop.
PlanOK == ClockOK /\ SweepOK /\ PaceOK /\ WaitOK /\ AliveOK

\* The ticker fires on time, so the tick before has been taken: the deadline stays.
LEMMA FireStep ==
  ASSUME LoopInv, IsFiniteSet(Id), Fire
  PROVE  PlanOK'
<1>0. /\ now \in Nat /\ nextTick \in Nat /\ Interval \in Nat /\ Interval > 0
  BY LoopNumbers
<1>1. ~pending /\ now = nextTick
  BY <1>0 DEF LoopInv, ClockOK, SweepOK, Fire
<1>2. /\ UNCHANGED <<now, session, flight, pc, want, before, login, attempts>>
      /\ UNCHANGED <<sweeping, due, since, starving>>
      /\ pending' = TRUE /\ nextTick' = nextTick + Interval
  BY DEF Fire, vars, entry, call, history
<1>3. Deadline' = Deadline
  BY <1>0, <1>1, <1>2 DEF Deadline
<1>4. Swapped(Loop)' = Swapped(Loop)
  BY <1>2 DEF Swapped
<1>5. \A i \in Id : Owed(i)' = Owed(i)
  BY <1>2, <1>4 DEF Owed
<1>6. ClockOK'
  BY <1>0, <1>1, <1>2 DEF LoopInv, ClockOK
<1>7. SweepOK'
  BY <1>2 DEF LoopInv, SweepOK
<1>8. PaceOK'
  BY <1>2, <1>3 DEF LoopInv, PaceOK, Patience
<1>9. WaitOK'
  BY <1>2, SameWait DEF LoopInv
<1>10. AliveOK'
  BY <1>2, <1>3, <1>5 DEF LoopInv, AliveOK
<1> QED BY <1>6, <1>7, <1>8, <1>9, <1>10 DEF PlanOK

\* A sweep starts with an interval ahead of it, enough for every identity; what it
\* leaves alone lives for two intervals.
LEMMA SweepStartStep ==
  ASSUME LoopInv, HealthyTarget, SweepStart
  PROVE  PlanOK'
<1> DEFINE D == Deadline
<1>0. /\ now \in Nat /\ nextTick \in Nat /\ Interval \in Nat /\ Interval > 0
      /\ Patience \in Nat /\ IsFiniteSet(Id)
      /\ \A i \in Id : session[i].exp \in Nat
  BY LoopNumbers DEF HealthyTarget
<1>1. ~sweeping /\ due = {} /\ pc[Loop] = "idle" /\ pending /\ now = nextTick - Interval
  BY DEF LoopInv, SweepOK, ClockOK, SweepStart
<1>2. /\ UNCHANGED <<now, session, flight, pc, want, before, login, attempts>>
      /\ UNCHANGED <<nextTick, since, starving>>
      /\ pending' = FALSE /\ sweeping' = TRUE
      /\ due' = {i \in Id : NearExpiry(session[i], now)}
  BY DEF SweepStart, vars, entry, call, history
<1>3. Deadline = now /\ Deadline' = now + Interval
  BY <1>0, <1>1, <1>2 DEF Deadline
<1>4. \A i \in Id : ~Owed(i) /\ (Owed(i)' <=> i \in due')
  BY <1>1, <1>2 DEF Owed
<1>5. ClockOK'
  BY <1>0, <1>1, <1>2 DEF LoopInv, ClockOK
<1>6. SweepOK'
  BY <1>1, <1>2 DEF LoopInv, SweepOK, NearExpiry
<1>7. PaceOK'
  <2>1. due' \subseteq Id
    BY <1>2
  <2>2. Cardinality(due') \in Nat /\ Cardinality(Id) \in Nat
        /\ Cardinality(due') <= Cardinality(Id)
    BY <1>0, <2>1, FS_Subset, FS_CardinalityType
  <2> DEFINE k == Cardinality(due')
             n == Cardinality(Id)
             P == Patience
  <2>3. k * P <= n * P /\ k * P \in Nat /\ n * P \in Nat
    <3> HIDE DEF k, n, P
    <3>1. k \in Nat /\ n \in Nat /\ P \in Nat /\ k <= n
      BY <1>0, <2>2 DEF k, n, P
    <3> QED BY <3>1
  <2>4. Cardinality(due') * Patience <= Interval
    BY <1>0, <2>3 DEF HealthyTarget
  <2>5. Patience' = Patience
    BY DEF Patience
  <2> HIDE DEF k, n, P
  <2> QED BY <1>0, <1>1, <1>2, <1>3, <2>3, <2>4, <2>5 DEF PaceOK, k, P
<1>8. WaitOK'
  BY <1>2, SameWait DEF LoopInv
<1>9. AliveOK'
  <2> SUFFICES ASSUME NEW i \in Id, session[i].exp # Unknown
               PROVE  (IF i \in due' THEN now + Interval ELSE now + Interval + Interval)
                        <= session[i].exp
    BY <1>2, <1>3, <1>4 DEF AliveOK
  <2>1. now + Interval <= session[i].exp
    BY <1>3, <1>4 DEF LoopInv, AliveOK
  <2>2. CASE i \notin due'
    <3>1. session[i] # Nil
      BY DEF Nil
    <3>2. ~(session[i].exp - now < 2 * Interval)
      BY <1>2, <2>2, <3>1 DEF NearExpiry, Within
    <3> QED BY <1>0, <2>2, <3>2
  <2> QED BY <2>1, <2>2
<1> QED BY <1>5, <1>6, <1>7, <1>8, <1>9 DEF PlanOK

\* The loop asks for the next identity; a login it finds running began before.
LEMMA SweepCallStep ==
  ASSUME LoopInv, HealthyTarget, SweepCall
  PROVE  PlanOK'
<1>0. /\ now \in Nat /\ nextTick \in Nat /\ since \in Nat /\ Interval \in Nat
      /\ MaxDelay \in Nat /\ Patience \in Nat /\ Deadline \in Int
      /\ IsFiniteSet(due) /\ Cardinality(due) \in Nat
      /\ Typed /\ pc \in [Caller -> Place]
      /\ want \in [Caller -> Id \cup Unmanaged \cup {NoId}] /\ before \in [Caller -> Session]
      /\ flight \in [Id -> Caller \cup {NoCaller}]
  BY LoopNumbers DEF HealthyTarget, LoopInv, StoreInv, Typed, TypeOK
<1>1. PICK i \in due : CallRefresh(Loop, i) /\ due' = due \ {i}
  BY DEF SweepCall
<1>2. /\ i \in Id /\ session[i] # Nil /\ pc[Loop] = "idle" /\ sweeping
      /\ Loop \in Caller
  BY <1>1, LoopAssumption DEF SweepCall, CallRefresh, LoopInv, SweepOK
<1>3. /\ pc' = [pc EXCEPT ![Loop] = "refreshWait"]
      /\ want' = [want EXCEPT ![Loop] = i]
      /\ before' = [before EXCEPT ![Loop] = session[i]]
      /\ UNCHANGED <<now, session, flight, login, attempts>>
  BY <1>1, <1>2 DEF CallRefresh, Goto, entry, history
<1>4. UNCHANGED <<sweeping, nextTick, pending>> /\ since' = now /\ starving' = FALSE
  BY DEF SweepCall
<1>5. pc'[Loop] = "refreshWait" /\ want'[Loop] = i /\ before'[Loop] = session[i]
  BY <1>0, <1>2, <1>3
<1>6. ~Swapped(Loop)' /\ Deadline' = Deadline
  BY <1>3, <1>4, <1>5 DEF Swapped, Deadline
<1>7. \A j \in Id : Owed(j)' = Owed(j)
  BY <1>1, <1>2, <1>5, <1>6 DEF Owed
<1>8. ClockOK'
  BY <1>0, <1>3, <1>4 DEF LoopInv, ClockOK
<1>9. SweepOK'
  BY <1>1, <1>2, <1>3, <1>4, <1>5 DEF LoopInv, SweepOK
<1>10. PaceOK'
  <2> DEFINE k == Cardinality(due)
             P == Patience
  <2>1. Cardinality(due') = k - 1 /\ k \in Nat
    BY <1>0, <1>1, FS_RemoveElement
  <2>2. P \in Nat /\ Patience' = P
    BY <1>0 DEF Patience
  <2>3. now + k * P <= Deadline
    BY <1>2 DEF LoopInv, PaceOK
  <2>4. (k - 1) * P = k * P - P /\ k * P \in Nat
    <3> HIDE DEF k, P
    <3> QED BY <2>1, <2>2
  <2>5. Cardinality(due') * P = k * P - P
    BY <2>1, <2>4
  <2> HIDE DEF k
  <2>6. now + P + Cardinality(due') * P <= Deadline
    <3> HIDE DEF P
    <3> QED BY <1>0, <2>1, <2>2, <2>3, <2>4, <2>5
  <2> QED BY <1>2, <1>4, <1>5, <1>6, <2>2, <2>6 DEF PaceOK
<1>11. WaitOK'
  <2>1. ASSUME ~FlightFree(i) PROVE BegunBy(flight[i], since)'
    <3> DEFINE d == flight[i]
    <3>1. d \in Caller /\ LoggingIn(d) /\ want[d] = i
      BY <1>0, <1>2, <2>1 DEF FlightFree, LoopInv, LockOK
    <3>2. d # Loop /\ pc[d] # "establish"
      BY <1>2, <3>1 DEF LoggingIn, LoopInv, LockOK
    <3>3. BegunBy(d, now)
      BY <3>1, <3>2 DEF LoggingIn, LoopInv, LockOK
    <3>4. want'[d] = i /\ attempts'[i] = attempts[i] /\ login'[d] = login[d] /\ since' = now
          /\ flight'[i] = d
      BY <1>0, <1>3, <1>4, <3>1, <3>2
    <3> QED BY <3>1, <3>3, <3>4 DEF BegunBy
  <2>2. now' <= since' + MaxDelay /\ ~(since' < now')
    BY <1>0, <1>3, <1>4
  <2>3. FlightFree(i)' <=> FlightFree(i)
    BY <1>3 DEF FlightFree
  <2> QED BY <1>3, <1>4, <1>5, <2>1, <2>2, <2>3 DEF WaitOK, BegunBy, FlightFree
<1>12. AliveOK'
  BY <1>3, <1>6, <1>7 DEF LoopInv, AliveOK
<1> QED BY <1>8, <1>9, <1>10, <1>11, <1>12 DEF PlanOK

LEMMA SweepEndStep ==
  ASSUME LoopInv, IsFiniteSet(Id), SweepEnd
  PROVE  PlanOK'
<1>1. /\ UNCHANGED <<now, session, flight, pc, want, before, login, attempts>>
      /\ UNCHANGED <<due, nextTick, pending, since, starving>>
      /\ sweeping' = FALSE /\ due = {} /\ pc[Loop] = "idle"
  BY DEF SweepEnd, vars, entry, call, history
<1>2. ClockOK' /\ SweepOK'
  BY <1>1 DEF LoopInv, ClockOK, SweepOK
<1>3. PaceOK'
  BY <1>1 DEF PaceOK
<1>4. WaitOK'
  BY <1>1, SameWait DEF LoopInv
<1>5. Deadline' = Deadline /\ \A i \in Id : Owed(i)' = Owed(i)
  BY <1>1 DEF Deadline, Owed
<1>6. AliveOK'
  BY <1>1, <1>5 DEF LoopInv, AliveOK
<1> QED BY <1>2, <1>3, <1>4, <1>6 DEF PlanOK

\* While the clock may move, the login the loop is behind, or its own, is not over.
LEMMA PatienceLeft ==
  ASSUME LoopInv, IsFiniteSet(Id), Prompt
  PROVE  /\ pc[Loop] = "recover" => now < since + MaxDelay
         /\ pc[Loop] = "refreshWait" => now < since + Patience /\ ~FlightFree(want[Loop])
         /\ pc[Loop] = "refreshWait" /\ ~starving => now < since + MaxDelay
<1>0. /\ now \in Nat /\ since \in Nat /\ MaxDelay \in Nat /\ Patience = MaxDelay + MaxDelay
      /\ Loop \in Caller /\ starving \in BOOLEAN
      /\ flight \in [Id -> Caller \cup {NoCaller}]
      /\ attempts \in [Id -> SUBSET [n : Nat, at : Nat]]
  BY LoopNumbers, LoopAssumption DEF LoopInv, SweepOK, StoreInv, TypeOK
<1>1. ASSUME NEW d \in Caller, LoggingIn(d), NEW t \in Nat, BegunBy(d, t)
      PROVE  now < t + MaxDelay
  <2>1. PICK a \in attempts[want[d]] : a.n = login[d] /\ a.at <= t
    BY <1>1 DEF BegunBy
  <2>2. want[d] \in Id
    BY <1>1 DEF LoopInv, StoreInv, FlightOK
  <2>3. now - a.at < MaxDelay /\ a.at \in Nat
    BY <1>0, <1>1, <2>1, <2>2 DEF Prompt
  <2> QED BY <1>0, <1>1, <2>1, <2>3
<1>2. CASE pc[Loop] = "recover"
  <2>1. LoggingIn(Loop) /\ BegunBy(Loop, since)
    BY <1>2 DEF LoggingIn, LoopInv, WaitOK
  <2> QED BY <1>0, <1>1, <1>2, <2>1
<1>3. CASE pc[Loop] = "refreshWait"
  <2> DEFINE d == flight[want[Loop]]
  <2>1. want[Loop] \in Id /\ d # NoCaller
    BY <1>0, <1>3 DEF Waiting, Prompt, LoopInv, StoreInv, FlightOK
  <2>2. d \in Caller /\ LoggingIn(d)
    BY <1>0, <2>1 DEF LoopInv, LockOK
  <2>3. ~starving => BegunBy(d, since)
    BY <1>3, <2>1 DEF LoopInv, WaitOK, FlightFree
  <2>4. starving => BegunBy(d, since + MaxDelay)
    BY <1>3, <2>1 DEF LoopInv, WaitOK, FlightFree
  <2> HIDE DEF d
  <2>5. ~starving => now < since + MaxDelay
    BY <1>0, <1>1, <2>2, <2>3
  <2>6. starving => now < since + MaxDelay + MaxDelay
    <3>1. since + MaxDelay \in Nat
      BY <1>0
    <3> QED BY <1>1, <2>2, <2>4, <3>1
  <2> QED BY <1>0, <1>3, <2>1, <2>5, <2>6 DEF FlightFree, d
<1> QED BY <1>2, <1>3

LEMMA TickStep ==
  ASSUME LoopInv, IsFiniteSet(Id), Prompt, Tick, UNCHANGED loop
  PROVE  PlanOK'
<1>0. /\ now \in Nat /\ nextTick \in Nat /\ since \in Nat /\ MaxDelay \in Nat
      /\ Interval \in Nat /\ Patience = MaxDelay + MaxDelay
      /\ Deadline \in Int /\ Cardinality(due) * Patience \in Nat
      /\ sweeping \in BOOLEAN /\ pending \in BOOLEAN /\ starving \in BOOLEAN
  BY LoopNumbers DEF LoopInv, SweepOK
<1>1. /\ now' = now + 1 /\ UNCHANGED <<session, flight, pc, want, before, login, attempts>>
      /\ UNCHANGED <<sweeping, due, nextTick, pending, since, starving>>
  BY DEF Tick, loop, ticker, entry, call, history
<1>2. sweeping => pc[Loop] \in {"refreshWait", "recover"}
  BY DEF Prompt, LoopInv, SweepOK
<1>3. ~pending
  <2> SUFFICES ASSUME pending PROVE FALSE
    OBVIOUS
  <2>1. sweeping /\ Deadline = now
    BY DEF Prompt, LoopInv, ClockOK, Deadline
  <2>2. since + Patience + Cardinality(due) * Patience <= now
    BY <1>2, <2>1 DEF LoopInv, PaceOK
  <2>3. now < since + Patience
    BY <1>0, <1>2, <2>1, PatienceLeft
  <2> DEFINE rest == Cardinality(due) * Patience
  <2> HIDE DEF rest
  <2> QED BY <1>0, <2>2, <2>3 DEF rest
<1>4. Deadline' = Deadline /\ Patience' = Patience /\ Swapped(Loop)' = Swapped(Loop)
  BY <1>1 DEF Deadline, Patience, Swapped
<1>5. \A i \in Id : Owed(i)' = Owed(i)
  BY <1>1, <1>4 DEF Owed
<1>6. ClockOK'
  BY <1>0, <1>1, <1>3 DEF LoopInv, ClockOK, Prompt
<1>7. SweepOK'
  BY <1>1 DEF LoopInv, SweepOK
<1>8. PaceOK'
  <2> SUFFICES ASSUME sweeping
               PROVE  since + Patience + Cardinality(due) * Patience <= Deadline
    BY <1>1, <1>2, <1>4 DEF PaceOK
  <2> QED BY <1>2 DEF LoopInv, PaceOK
<1>9. WaitOK'
  <2>1. pc[Loop] = "recover" => now + 1 <= since + MaxDelay
    BY <1>0, PatienceLeft
  <2>2. pc[Loop] = "refreshWait" => now + 1 <= since + Patience /\ ~FlightFree(want[Loop])
    BY <1>0, PatienceLeft
  <2>3. pc[Loop] = "refreshWait" /\ ~starving => now + 1 <= since + MaxDelay
    BY <1>0, PatienceLeft
  <2>4. since < now => since < now + 1
    BY <1>0
  <2> QED BY <1>1, <1>4, <2>1, <2>2, <2>3, <2>4 DEF LoopInv, WaitOK, BegunBy, FlightFree
<1>10. AliveOK'
  BY <1>1, <1>4, <1>5 DEF LoopInv, AliveOK
<1> QED BY <1>6, <1>7, <1>8, <1>9, <1>10 DEF PlanOK

\* Steps of others that leave the flightMu the loop waits for, and logins that run, alone.
LEMMA WaitKept ==
  ASSUME LoopInv, UNCHANGED <<now, session, since, starving>>,
         pc'[Loop] = pc[Loop], want'[Loop] = want[Loop], before'[Loop] = before[Loop],
         pc[Loop] = "refreshWait" => flight'[want[Loop]] = flight[want[Loop]],
         \A d \in Caller : LoggingIn(d) => want'[d] = want[d] /\ login'[d] = login[d],
         \A i \in Id : attempts[i] \subseteq attempts'[i]
  PROVE  WaitOK'
<1>0. flight \in [Id -> Caller \cup {NoCaller}] /\ Loop \in Caller
  BY LoopAssumption DEF LoopInv, StoreInv, TypeOK
<1>1. Swapped(Loop)' = Swapped(Loop) /\ Patience' = Patience
  BY DEF Swapped, Patience
<1>2. ASSUME NEW d \in Caller, LoggingIn(d), NEW t, BegunBy(d, t)
      PROVE  \E a \in attempts'[want'[d]] : a.n = login'[d] /\ a.at <= t
  <2>1. want[d] \in Id
    BY <1>2 DEF LoopInv, StoreInv, FlightOK
  <2> QED BY <1>2, <2>1 DEF BegunBy
<1>3. CASE pc[Loop] = "recover"
  <2>1. LoggingIn(Loop) /\ now <= since + MaxDelay /\ BegunBy(Loop, since)
    BY <1>3 DEF LoggingIn, LoopInv, WaitOK
  <2> QED BY <1>0, <1>2, <1>3, <2>1 DEF WaitOK, BegunBy
<1>4. CASE pc[Loop] = "refreshWait"
  <2> DEFINE d == flight[want[Loop]]
  <2>1. want[Loop] \in Id /\ flight'[want'[Loop]] = d
    BY <1>0, <1>4 DEF Waiting, LoopInv, StoreInv, FlightOK
  <2>2. FlightFree(want[Loop]) \/ (d \in Caller /\ LoggingIn(d))
    BY <1>0, <2>1 DEF LoopInv, LockOK, FlightFree
  <2>3. (FlightFree(want[Loop]))' <=> FlightFree(want[Loop])
    BY <2>1 DEF FlightFree
  <2>4. ~starving /\ ~FlightFree(want[Loop]) =>
          \E a \in attempts'[want'[d]] : a.n = login'[d] /\ a.at <= since
    BY <1>2, <1>4, <2>2 DEF LoopInv, WaitOK
  <2>5. starving /\ ~FlightFree(want[Loop]) =>
          \E a \in attempts'[want'[d]] : a.n = login'[d] /\ a.at <= since + MaxDelay
    BY <1>2, <1>4, <2>2 DEF LoopInv, WaitOK
  <2> QED BY <1>1, <1>4, <2>1, <2>3, <2>4, <2>5 DEF LoopInv, WaitOK, BegunBy
<1>5. CASE pc[Loop] \notin {"recover", "refreshWait"}
  BY <1>5 DEF WaitOK
<1> QED BY <1>3, <1>4, <1>5

\* A call, or the return from one, of another caller.
LEMMA OtherMoves ==
  ASSUME LoopInv, IsFiniteSet(Id), NEW c \in Caller \ {Loop},
         \/ \E i \in Id \cup Unmanaged : CallGet(c, i) \/ CallRefresh(c, i)
         \/ Return(c),
         UNCHANGED <<ticker, since>>, starving' = starving
  PROVE  PlanOK'
<1>0. /\ pc \in [Caller -> Place] /\ want \in [Caller -> Id \cup Unmanaged \cup {NoId}]
      /\ before \in [Caller -> Session] /\ login \in [Caller -> Nat] /\ starving \in BOOLEAN
      /\ Loop \in Caller
  BY LoopAssumption DEF LoopInv, StoreInv, TypeOK, SweepOK
<1>1. UNCHANGED <<now, session, flight, attempts>> /\ ~LoggingIn(c)
  BY DEF CallGet, CallRefresh, Return, entry, history, LoggingIn
<1>2. \A d \in Caller \ {c} : /\ pc'[d] = pc[d] /\ want'[d] = want[d]
                              /\ before'[d] = before[d] /\ login'[d] = login[d]
  BY <1>0 DEF CallGet, CallRefresh, Return, Finish, Goto
<1>3. ClockOK' /\ SweepOK' /\ PaceOK' /\ AliveOK'
  BY <1>0, <1>1, <1>2, Bystander
<1>4. WaitOK'
  BY <1>0, <1>1, <1>2, WaitKept
<1> QED BY <1>3, <1>4 DEF PlanOK

\* Another caller that gets past flightMu: if it is the one the loop waits for, it
\* overtakes the loop, which happens once.
LEMMA OtherEnters ==
  ASSUME LoopInv, IsFiniteSet(Id), NEW c \in Caller \ {Loop},
         GetEnter(c) \/ RefreshEnter(c), Fairly(c)
  PROVE  PlanOK'
<1> DEFINE i == want[Loop]
<1>0. /\ pc \in [Caller -> Place] /\ want \in [Caller -> Id \cup Unmanaged \cup {NoId}]
      /\ login \in [Caller -> Nat] /\ flight \in [Id -> Caller \cup {NoCaller}]
      /\ attempts \in [Id -> SUBSET [n : Nat, at : Nat]] /\ logins \in Nat
      /\ starving \in BOOLEAN /\ Loop \in Caller /\ Typed /\ c # NoCaller
      /\ now \in Nat /\ since \in Nat /\ MaxDelay \in Nat /\ Patience = MaxDelay + MaxDelay
  BY LoopAssumption, StoreAssumption, LoopNumbers
     DEF LoopInv, StoreInv, TypeOK, SweepOK, Typed
<1>1. /\ Waiting(c) /\ want[c] \in Id /\ FlightFree(want[c])
      /\ UNCHANGED <<now, session, want, before>>
  BY <1>0, EnterEffects
<1>2. \/ UNCHANGED <<flight, logins, login, attempts>> /\ pc' = [pc EXCEPT ![c] = "returned"]
      \/ /\ flight' = [flight EXCEPT ![want[c]] = c]
         /\ login' = [login EXCEPT ![c] = logins + 1]
         /\ \E stage : pc' = [pc EXCEPT ![c] = stage]
         /\ \/ session[want[c]] = Nil /\ UNCHANGED attempts
            \/ attempts' = [attempts EXCEPT ![want[c]] =
                              @ \cup {[n |-> logins + 1, at |-> now]}]
  BY <1>0, EnterEffects
<1>3. /\ UNCHANGED <<ticker, since>> /\ ~(starving /\ Overtakes(c))
      /\ starving' = (starving \/ Overtakes(c))
  BY DEF Fairly
<1>4. pc'[Loop] = pc[Loop] /\ want'[Loop] = i /\ before'[Loop] = before[Loop]
  BY <1>0, <1>1, <1>2
<1>5. starving' \in BOOLEAN
  BY <1>3
<1>6. ClockOK' /\ SweepOK' /\ PaceOK' /\ AliveOK'
  BY <1>1, <1>3, <1>4, <1>5, Bystander
<1>7. \A d \in Caller : LoggingIn(d) => want'[d] = want[d] /\ login'[d] = login[d]
  <2>1. ~LoggingIn(c)
    BY <1>1 DEF Waiting, LoggingIn
  <2> QED BY <1>0, <1>1, <1>2, <2>1
<1>8. \A j \in Id : attempts[j] \subseteq attempts'[j]
  BY <1>0, <1>1, <1>2
<1>9. CASE pc[Loop] = "refreshWait" /\ flight'[i] # flight[i]
  <2>1. /\ i = want[c] /\ i \in Id /\ flight[i] = NoCaller /\ flight'[i] = c
        /\ login'[c] = logins + 1
    <3>1. i \in Id
      BY <1>0, <1>9 DEF Waiting, LoopInv, StoreInv, FlightOK
    <3> QED BY <1>0, <1>1, <1>2, <1>9, <3>1 DEF FlightFree
  <2>2. session[i] # Nil
    BY <1>9 DEF LoopInv, SweepOK
  <2>3. [n |-> logins + 1, at |-> now] \in attempts'[i]
    BY <1>0, <1>2, <1>9, <2>1, <2>2
  <2>4. Overtakes(c) <=> since < now
    BY <1>9, <2>1 DEF Overtakes
  <2>5. starving => since < now
    BY <1>9 DEF LoopInv, WaitOK
  <2>6. ~starving /\ now <= since + MaxDelay
    BY <1>0, <1>3, <1>9, <2>4, <2>5 DEF LoopInv, WaitOK
  <2>8. CASE since < now
    <3>1. starving'
      BY <1>3, <2>4, <2>8
    <3>2. Swapped(Loop)'
      <4>1. Swapped(Loop)
        BY <1>9, <2>1, <2>6, <2>8 DEF LoopInv, WaitOK, FlightFree
      <4> QED BY <1>1, <1>4, <4>1 DEF Swapped
    <3>3. \E a \in attempts'[want'[c]] : a.n = login'[c] /\ a.at <= since' + MaxDelay
      <4>1. want'[c] = i /\ since' = since
        BY <1>1, <1>3, <2>1
      <4> QED BY <2>1, <2>3, <2>6, <4>1
    <3>4. now' <= since' + Patience'
      BY <1>0, <1>1, <1>3, <2>6 DEF Patience
    <3>5. pc'[Loop] = "refreshWait" /\ since' < now' /\ flight'[want'[Loop]] = c
      BY <1>1, <1>3, <1>4, <1>9, <2>1, <2>8
    <3>6. WaitOK'
      BY <3>1, <3>2, <3>3, <3>4, <3>5 DEF WaitOK, BegunBy
    <3> QED BY <1>6, <3>6 DEF PlanOK
  <2>9. CASE ~(since < now)
    <3>1. ~starving'
      BY <1>3, <2>4, <2>6, <2>9
    <3>2. \E a \in attempts'[want'[c]] : a.n = login'[c] /\ a.at <= since'
      <4>1. now <= since /\ want'[c] = i /\ since' = since
        BY <1>0, <1>1, <1>3, <2>1, <2>9
      <4> QED BY <2>1, <2>3, <4>1
    <3>3. pc'[Loop] = "refreshWait" /\ ~(since' < now') /\ flight'[want'[Loop]] = c
          /\ now' <= since' + MaxDelay
      BY <1>1, <1>3, <1>4, <1>9, <2>1, <2>6, <2>9
    <3>4. WaitOK'
      BY <1>0, <3>1, <3>2, <3>3 DEF WaitOK, BegunBy, FlightFree
    <3> QED BY <1>6, <3>4 DEF PlanOK
  <2> QED BY <2>8, <2>9
<1>10. CASE pc[Loop] = "refreshWait" => flight'[i] = flight[i]
  <2>1. ~Overtakes(c)
    BY <1>0, <1>10 DEF Overtakes
  <2>2. starving' = starving
    BY <1>0, <1>3, <2>1
  <2> QED BY <1>1, <1>3, <1>4, <1>6, <1>7, <1>8, <1>10, <2>2, WaitKept DEF PlanOK
<1> QED BY <1>6, <1>9, <1>10 DEF PlanOK

\* A refusal the session outlives: it need not be renewed before the next sweep.
RefusalOK ==
  pc[Loop] = "refreshWait" /\ FlightFree(want[Loop]) /\ ~Swapped(Loop) /\ Limited(want[Loop])
    => session[want[Loop]].exp = Unknown \/ session[want[Loop]].exp >= Deadline + Interval

\* The loop gets past flightMu, in time for the rest of its sweep.
LEMMA LoopEnters ==
  ASSUME LoopInv, IsFiniteSet(Id), RefusalOK, GetEnter(Loop) \/ RefreshEnter(Loop), Fairly(Loop)
  PROVE  PlanOK'
<1> DEFINE i == want[Loop]
<1>0. /\ pc \in [Caller -> Place] /\ login \in [Caller -> Nat] /\ logins \in Nat
      /\ attempts \in [Id -> SUBSET [n : Nat, at : Nat]]
      /\ starving \in BOOLEAN /\ Loop \in Caller /\ Typed
      /\ now \in Nat /\ since \in Nat /\ MaxDelay \in Nat /\ Patience = MaxDelay + MaxDelay
      /\ Patience \in Nat /\ Deadline \in Int /\ Cardinality(due) * Patience \in Nat
  BY LoopAssumption, LoopNumbers DEF LoopInv, StoreInv, TypeOK, SweepOK, Typed
<1>1. pc[Loop] = "refreshWait" /\ RefreshEnter(Loop) /\ i \in Id /\ FlightFree(i)
  <2>1. pc[Loop] # "getWait"
    BY DEF LoopInv, SweepOK
  <2>2. pc[Loop] = "refreshWait" /\ RefreshEnter(Loop) /\ FlightFree(i)
    BY <2>1 DEF GetEnter, RefreshEnter
  <2> QED BY <1>0, <2>2 DEF Typed, FlightOK, Waiting
<1>2. UNCHANGED <<now, session, want, before>>
  BY <1>1 DEF RefreshEnter
<1>3. /\ UNCHANGED <<sweeping, due, nextTick, pending, since, starving>>
  BY <1>0 DEF Fairly, Overtakes, ticker
<1>4. Swapped(Loop)' = Swapped(Loop) /\ Deadline' = Deadline /\ Patience' = Patience
  BY <1>2, <1>3 DEF Swapped, Deadline, Patience
<1>5. /\ sweeping /\ now <= since + Patience
      /\ since + Patience + Cardinality(due) * Patience <= Deadline
  BY <1>0, <1>1 DEF LoopInv, SweepOK, WaitOK, PaceOK
<1>6. ClockOK'
  BY <1>2, <1>3 DEF LoopInv, ClockOK
<1>7. CASE pc'[Loop] = "returned"
  <2>1. Swapped(Loop) \/ Limited(i)
    BY <1>0, <1>1, <1>7 DEF RefreshEnter, StartCounted, StartLogin, Goto
  <2>2. \A j \in Id : Owed(j)' <=> j \in due
    BY <1>3, <1>7 DEF Owed
  <2>3. SweepOK'
    BY <1>2, <1>3, <1>5, <1>7 DEF LoopInv, SweepOK
  <2>4. PaceOK'
    <3> DEFINE rest == Cardinality(due) * Patience
    <3>1. now + rest <= Deadline
      <4>1. rest \in Nat
        BY <1>0
      <4> HIDE DEF rest
      <4> QED BY <1>0, <1>5, <4>1 DEF rest
    <3> QED BY <1>2, <1>3, <1>4, <1>7, <3>1 DEF PaceOK
  <2>5. WaitOK'
    BY <1>7 DEF WaitOK
  <2>6. AliveOK'
    <3> SUFFICES ASSUME NEW j \in Id, session[j].exp # Unknown
                 PROVE  (IF j \in due THEN Deadline ELSE Deadline + Interval) <= session[j].exp
      BY <1>2, <1>4, <2>2 DEF AliveOK
    <3>1. j \in due \/ ~Owed(j) \/ (j = i /\ ~Swapped(Loop))
      BY <1>1 DEF Owed
    <3>2. CASE j \in due \/ ~Owed(j)
      BY <3>2 DEF LoopInv, AliveOK, Owed
    <3>3. CASE j \notin due /\ j = i /\ ~Swapped(Loop)
      <4>1. session[j].exp >= Deadline + Interval
        BY <1>1, <2>1, <3>3 DEF RefusalOK
      <4>2. session[j].exp \in Nat /\ Interval \in Nat
        BY LoopNumbers
      <4> QED BY <1>0, <3>3, <4>1, <4>2
    <3> QED BY <3>1, <3>2, <3>3
  <2> QED BY <1>6, <2>3, <2>4, <2>5, <2>6 DEF PlanOK
<1>8. CASE pc'[Loop] # "returned"
  <2>1. /\ ~Swapped(Loop) /\ pc'[Loop] = "recover" /\ login'[Loop] = logins + 1
        /\ [n |-> logins + 1, at |-> now] \in attempts'[i]
    BY <1>0, <1>1, <1>8 DEF RefreshEnter, StartCounted, StartLogin, Goto, Finish
  <2>2. now <= since /\ now <= since + MaxDelay
    BY <1>0, <1>1, <2>1 DEF LoopInv, WaitOK
  <2>3. \A j \in Id : Owed(j)' = Owed(j)
    BY <1>1, <1>2, <1>3, <2>1 DEF Owed
  <2>4. SweepOK'
    BY <1>1, <1>2, <1>3, <1>5, <2>1 DEF LoopInv, SweepOK
  <2>5. PaceOK'
    BY <1>3, <1>4, <1>5, <2>1 DEF PaceOK
  <2>6. WaitOK'
    <3>1. \E a \in attempts'[want'[Loop]] : a.n = login'[Loop] /\ a.at <= since'
      BY <1>2, <1>3, <2>1, <2>2
    <3>2. now' <= since' + MaxDelay
      BY <1>2, <1>3, <2>2
    <3> QED BY <2>1, <3>1, <3>2 DEF WaitOK, BegunBy
  <2>7. AliveOK'
    BY <1>2, <1>4, <2>3 DEF LoopInv, AliveOK
  <2> QED BY <1>6, <2>4, <2>5, <2>6, <2>7 DEF PlanOK
<1> QED BY <1>7, <1>8

\* A login that ends leaves a session that outlives the next two intervals, and
\* another object than the one the loop came for.
LEMMA OkStep ==
  ASSUME LoopInv, HealthyTarget, NEW c \in Caller, RecipeOk(c), Fairly(c)
  PROVE  PlanOK'
<1> DEFINE i == want[c]
           w == want[Loop]
<1>0. /\ pc \in [Caller -> Place] /\ session \in [Id -> Session]
      /\ flight \in [Id -> Caller \cup {NoCaller}] /\ before \in [Caller -> Session]
      /\ starving \in BOOLEAN /\ Loop \in Caller /\ Typed /\ ObjectsOK /\ NoCaller # c
      /\ now \in Nat /\ since \in Nat /\ MaxDelay \in Nat /\ Patience = MaxDelay + MaxDelay
      /\ Patience \in Nat /\ Deadline \in Int /\ Cardinality(due) * Patience \in Nat
      /\ Interval \in Nat /\ Deadline <= now + Interval /\ IsFiniteSet(Id)
  BY LoopAssumption, StoreAssumption, LoopNumbers
     DEF HealthyTarget, LoopInv, StoreInv, TypeOK, SweepOK, Typed
<1>1. i \in Id /\ flight[i] = c /\ LoggingIn(c)
  BY DEF RecipeOk, LoopInv, StoreInv, FlightOK
<1>2. PICK secs \in Lifetimes :
        LET new == [ptr |-> login[c], tok |-> login[c], exp |-> ExpiresAt(secs, now)]
        IN  session' = [session EXCEPT ![i] = new] /\ Finish(c, Ok(new))
  BY DEF RecipeOk
<1>3. /\ session'[i].ptr = login[c] /\ session'[i].exp = ExpiresAt(secs, now)
      /\ \A j \in Id \ {i} : session'[j] = session[j]
      /\ pc' = [pc EXCEPT ![c] = "returned"]
  BY <1>0, <1>1, <1>2 DEF Finish
<1>4. session[i].ptr < login[c] /\ session[i].ptr \in Nat
  BY <1>0, <1>1 DEF ObjectsOK, Session
<1>5. session'[i] # Nil
  <2>1. login[c] # 0
    BY <1>0, <1>4 DEF Typed, TypeOK
  <2> QED BY <1>3, <2>1 DEF Nil
<1>6. session'[i].exp # Unknown => Deadline + Interval <= session'[i].exp
  <2>1. secs > 0 => secs >= 2 * Interval
    BY <1>2 DEF HealthyTarget, Within
  <2>2. secs \in Int
    BY <1>2, StoreAssumption
  <2> QED BY <1>0, <1>3, <2>1, <2>2 DEF ExpiresAt
<1>7. UNCHANGED <<now, want, before, login, attempts>>
      /\ flight' = [flight EXCEPT ![i] = NoCaller]
  BY DEF RecipeOk, history, Unlock
<1>8. UNCHANGED <<sweeping, due, nextTick, pending, since, starving>>
  <2>1. ~Overtakes(c)
    BY <1>0, <1>1, <1>7 DEF Overtakes
  <2> QED BY <1>0, <2>1 DEF Fairly, ticker
<1>9. Deadline' = Deadline /\ Patience' = Patience
  BY <1>8 DEF Deadline, Patience
<1>10. ClockOK'
  BY <1>7, <1>8 DEF LoopInv, ClockOK
<1>11. SweepOK'
  <2>1. pc'[Loop] = pc[Loop] \/ (pc'[Loop] = "returned" /\ pc[Loop] # "idle")
    BY <1>0, <1>1, <1>3 DEF LoggingIn
  <2>2. \A j \in Id : session[j] # Nil => session'[j] # Nil
    BY <1>3, <1>5
  <2>3. pc[Loop] \in {"refreshWait", "recover"} => w \in Id
    BY <1>0 DEF Typed, FlightOK, Waiting, LoggingIn
  <2> QED BY <1>7, <1>8, <2>1, <2>2, <2>3 DEF LoopInv, SweepOK
<1>12. PaceOK'
  <2>1. CASE pc'[Loop] = pc[Loop]
    BY <1>7, <1>8, <1>9, <2>1 DEF LoopInv, PaceOK
  <2>2. CASE pc'[Loop] # pc[Loop]
    <3>1. pc[Loop] = "recover" /\ pc'[Loop] = "returned"
      BY <1>0, <1>1, <1>3, <2>2 DEF LoggingIn, LoopInv, SweepOK
    <3>2. now <= since + MaxDelay
      BY <3>1 DEF LoopInv, WaitOK
    <3> DEFINE rest == Cardinality(due) * Patience
    <3>3. sweeping => now + rest <= Deadline
      <4>1. rest \in Nat
        BY <1>0
      <4>2. sweeping => since + Patience + rest <= Deadline
        BY <3>1 DEF LoopInv, PaceOK
      <4> HIDE DEF rest
      <4> QED BY <1>0, <3>2, <4>1, <4>2
    <3> QED BY <1>7, <1>8, <1>9, <3>1, <3>3 DEF PaceOK
  <2> QED BY <2>1, <2>2
<1>13. AliveOK'
  <2> SUFFICES ASSUME NEW j \in Id, session'[j].exp # Unknown
               PROVE  (IF Owed(j)' THEN Deadline ELSE Deadline + Interval) <= session'[j].exp
    BY <1>9 DEF AliveOK
  <2>1. CASE j = i
    <3>1. session'[i].exp \in Nat
      BY <1>0, <1>3, StoreAssumption DEF ExpiresAt, Unknown
    <3> QED BY <1>0, <1>6, <2>1, <3>1
  <2>2. CASE j # i
    <3>1. session'[j] = session[j]
      BY <1>3, <2>2
    <3>2. Owed(j)' = Owed(j)
      <4>1. CASE j # w
        BY <1>7, <1>8, <4>1 DEF Owed
      <4>2. CASE j = w
        <5>1. Swapped(Loop)' = Swapped(Loop)
          BY <1>7, <3>1, <4>2 DEF Swapped
        <5>2. pc'[Loop] = pc[Loop]
          BY <1>0, <1>3, <2>2, <4>2
        <5> QED BY <1>7, <1>8, <5>1, <5>2 DEF Owed
      <4> QED BY <4>1, <4>2
    <3> QED BY <3>1, <3>2 DEF LoopInv, AliveOK
  <2> QED BY <2>1, <2>2
<1>14. WaitOK'
  <2>1. CASE pc[Loop] = "refreshWait" /\ w = i
    <3>1. Loop # c /\ pc'[Loop] = "refreshWait"
      BY <1>0, <1>1, <1>3, <2>1 DEF LoggingIn
    <3>2. Swapped(Loop)'
      <4>1. NotNewer(before[Loop], session[i])
        BY <1>0, <2>1 DEF ObjectsOK
      <4>2. before[Loop].ptr \in Nat /\ before[Loop].ptr <= session[i].ptr /\ login[c] \in Nat
        BY <1>0, <4>1 DEF NotNewer, Session, Typed, TypeOK
      <4> QED BY <1>3, <1>4, <1>7, <2>1, <4>2 DEF Swapped
    <3>3. flight'[want'[Loop]] = NoCaller
      BY <1>0, <1>1, <1>7, <2>1
    <3> QED BY <1>7, <1>8, <1>9, <2>1, <3>1, <3>2, <3>3 DEF LoopInv, WaitOK, FlightFree
  <2>2. CASE pc[Loop] = "refreshWait" /\ w # i
    <3>1. Loop # c /\ pc'[Loop] = "refreshWait" /\ w \in Id
      BY <1>0, <1>1, <1>3, <2>2 DEF LoggingIn, Typed, FlightOK, Waiting
    <3>2. Swapped(Loop)' = Swapped(Loop) /\ flight'[w] = flight[w]
      BY <1>0, <1>3, <1>7, <2>2, <3>1 DEF Swapped
    <3> QED BY <1>7, <1>8, <1>9, <2>2, <3>1, <3>2 DEF LoopInv, WaitOK, FlightFree, BegunBy
  <2>3. CASE pc[Loop] # "refreshWait"
    <3>1. pc'[Loop] # "refreshWait" /\ (pc'[Loop] = "recover" => pc[Loop] = "recover")
      BY <1>0, <1>3, <2>3
    <3> QED BY <1>7, <1>8, <3>1 DEF LoopInv, WaitOK, BegunBy
  <2> QED BY <2>1, <2>2, <2>3
<1> QED BY <1>10, <1>11, <1>12, <1>13, <1>14 DEF PlanOK

LEMMA LoopReturns ==
  ASSUME LoopInv, IsFiniteSet(Id), Return(Loop), Fairly(Loop)
  PROVE  PlanOK'
<1>0. /\ pc \in [Caller -> Place] /\ starving \in BOOLEAN /\ Loop \in Caller
  BY LoopAssumption DEF LoopInv, StoreInv, TypeOK, SweepOK
<1>1. /\ UNCHANGED <<now, session>> /\ pc[Loop] = "returned" /\ pc'[Loop] = "idle"
  BY <1>0 DEF Return, entry
<1>2. UNCHANGED <<sweeping, due, nextTick, pending, since, starving>>
  BY <1>0 DEF Fairly, Overtakes, ticker
<1>3. Deadline' = Deadline /\ Patience' = Patience /\ sweeping
      /\ \A i \in Id : Owed(i)' <=> Owed(i)
  BY <1>1, <1>2 DEF Deadline, Patience, Owed, LoopInv, SweepOK
<1>4. ClockOK' /\ SweepOK'
  BY <1>1, <1>2 DEF LoopInv, ClockOK, SweepOK
<1>5. PaceOK' /\ WaitOK'
  BY <1>1, <1>2, <1>3 DEF LoopInv, PaceOK, WaitOK
<1>6. AliveOK'
  BY <1>1, <1>3 DEF LoopInv, AliveOK
<1> QED BY <1>4, <1>5, <1>6 DEF PlanOK

LEMMA PlanStep == LoopInv /\ HealthyTarget /\ RefusalOK /\ [TimelyNext]_pvars => PlanOK'
<1> SUFFICES ASSUME LoopInv, HealthyTarget, RefusalOK, [TimelyNext]_pvars PROVE PlanOK'
  OBVIOUS
<1>0. IsFiniteSet(Id) /\ starving \in BOOLEAN
  BY DEF HealthyTarget, LoopInv, SweepOK
<1>1. CASE LoopStep
  BY <1>0, <1>1, FireStep, SweepStartStep, SweepCallStep, SweepEndStep DEF LoopStep
<1>2. ASSUME NEW c \in Caller, OtherCall(c) PROVE PlanOK'
  BY <1>0, <1>2, OtherMoves DEF OtherCall, ClientCall, loop
<1>3. ASSUME NEW c \in Caller, GetEnter(c) \/ RefreshEnter(c), Fairly(c) PROVE PlanOK'
  BY <1>0, <1>3, LoopEnters, OtherEnters
<1>4. ASSUME NEW c \in Caller, RecipeOk(c), Fairly(c) PROVE PlanOK'
  BY <1>4, OkStep
<1>5. ASSUME NEW c \in Caller, Return(c), Fairly(c) PROVE PlanOK'
  <2>1. CASE c = Loop
    BY <1>0, <1>5, <2>1, LoopReturns
  <2>2. CASE c # Loop
    <3>1. ~Overtakes(c)
      <4>1. UNCHANGED flight
        BY <1>5 DEF Return, entry
      <4> QED BY <4>1, StoreAssumption DEF Overtakes
    <3>2. UNCHANGED <<ticker, since>> /\ starving' = starving
      BY <1>0, <1>5, <3>1 DEF Fairly
    <3> QED BY <1>0, <1>5, <2>2, <3>2, OtherMoves
  <2> QED BY <2>1, <2>2
<1>6. CASE Prompt /\ Tick /\ UNCHANGED loop
  BY <1>0, <1>6, TickStep
<1>7. CASE (Quiescent /\ UNCHANGED loop) \/ UNCHANGED pvars
  <2>1. UNCHANGED <<now, session, flight, pc, want, before, login, attempts>>
        /\ UNCHANGED <<ticker, since, starving>>
    BY <1>7 DEF Quiescent, pvars, vars, loop, entry, call, history
  <2> QED BY <1>0, <2>1, SameWait, Bystander DEF PlanOK, LoopInv
<1> QED BY <1>1, <1>2, <1>3, <1>4, <1>5, <1>6, <1>7 DEF TimelyNext

LEMMA LoopInvInit == LoopInit => LoopInv
<1> SUFFICES ASSUME LoopInit PROVE LoopInv
  OBVIOUS
<1>0. Loop \in Caller /\ Interval \in Nat /\ Interval > 0
  BY LoopAssumption
<1>1. StoreInv
  BY StoreInvInit DEF LoopInit
<1>2. pc[Loop] = "idle" /\ \A i \in Id : session[i] = Nil /\ flight[i] = NoCaller
  BY <1>0 DEF LoopInit, Init
<1>3. ClockOK
  BY <1>0 DEF LoopInit, Init, ClockOK, Start
<1>4. SweepOK /\ PaceOK /\ WaitOK
  BY <1>2 DEF LoopInit, SweepOK, PaceOK, WaitOK
<1>5. LockOK
  BY <1>2 DEF LoopInit, Init, LockOK
<1>6. AliveOK
  BY <1>2 DEF AliveOK, Nil
<1> QED BY <1>1, <1>3, <1>4, <1>5, <1>6 DEF LoopInv

LEMMA LoopInvStep == LoopInv /\ HealthyTarget /\ RefusalOK /\ [TimelyNext]_pvars => LoopInv'
<1> SUFFICES ASSUME LoopInv, HealthyTarget, RefusalOK, [TimelyNext]_pvars PROVE LoopInv'
  OBVIOUS
<1>1. PlanOK'
  BY PlanStep
<1>2. [AnyStep]_vars
  BY LoopIsAny, TimelyIsLoop DEF LoopInv, SweepOK
<1>3. StoreInv'
  BY <1>2, StoreInvStep DEF LoopInv
<1>4. LockOK'
  BY <1>2, LockStep DEF LoopInv
<1> QED BY <1>1, <1>3, <1>4 DEF LoopInv, PlanOK


\* No session the loop has in its care is expired.
LEMMA LoopInvAlive == LoopInv /\ IsFiniteSet(Id) => KeptAlive
<1> SUFFICES ASSUME LoopInv, IsFiniteSet(Id), NEW i \in Id
             PROVE  ~Expired(session[i], now)
  BY DEF KeptAlive
<1>1. /\ now \in Nat /\ Deadline \in Int /\ Interval \in Nat /\ now <= Deadline
      /\ session[i].exp \in Nat
  BY LoopNumbers
<1>2. session[i].exp # Unknown => Deadline <= session[i].exp
  BY <1>1 DEF LoopInv, AliveOK
<1> QED BY <1>1, <1>2 DEF Expired

-----------------------------------------------------------------------------
(* When a refusal does no harm.                                            *)

LEMMA RenewedQuiet ==
  ASSUME RenewedOK, UNCHANGED <<session, attempts>>,
         \A c \in Caller : LoggingIn(c) =>
           LoggingIn(c)' /\ want'[c] = want[c] /\ login'[c] = login[c]
  PROVE  RenewedOK'
BY DEF RenewedOK, Within

LEMMA RenewedCall ==
  ASSUME StoreInv, RenewedOK, NEW c \in Caller,
         \/ \E i \in Id \cup Unmanaged : CallGet(c, i) \/ CallRefresh(c, i)
         \/ Return(c)
  PROVE  RenewedOK'
<1>1. ~LoggingIn(c) /\ UNCHANGED <<session, attempts>>
  BY DEF CallGet, CallRefresh, Return, entry, history, LoggingIn
<1>2. \A d \in Caller \ {c} : pc'[d] = pc[d] /\ want'[d] = want[d] /\ login'[d] = login[d]
  BY DEF CallGet, CallRefresh, Return, Finish, Goto, StoreInv, TypeOK
<1> QED BY <1>1, <1>2, RenewedQuiet DEF LoggingIn

LEMMA RenewedEnter ==
  ASSUME StoreInv, RenewedOK, NEW c \in Caller, GetEnter(c) \/ RefreshEnter(c)
  PROVE  RenewedOK'
<1>0. /\ Typed /\ pc \in [Caller -> Place] /\ login \in [Caller -> Nat]
      /\ attempts \in [Id -> SUBSET [n : Nat, at : Nat]]
  BY DEF StoreInv, Typed, TypeOK
<1>1. ~LoggingIn(c) /\ want[c] \in Id /\ UNCHANGED <<now, session, want>>
  BY <1>0, EnterEffects DEF Waiting, LoggingIn
<1>2. \/ UNCHANGED <<login, attempts>> /\ pc' = [pc EXCEPT ![c] = "returned"]
      \/ /\ login' = [login EXCEPT ![c] = logins + 1]
         /\ \E stage \in {"establish", "renew", "recover"} : pc' = [pc EXCEPT ![c] = stage]
         /\ \/ UNCHANGED attempts
            \/ attempts' = [attempts EXCEPT ![want[c]] =
                              @ \cup {[n |-> logins + 1, at |-> now]}]
  BY <1>0, EnterEffects
<1>3. \A d \in Caller : LoggingIn(d) =>
        LoggingIn(d)' /\ want'[d] = want[d] /\ login'[d] = login[d]
  BY <1>0, <1>1, <1>2 DEF LoggingIn
<1>4. CASE UNCHANGED attempts
  BY <1>1, <1>3, <1>4, RenewedQuiet
<1>5. CASE ~UNCHANGED attempts
  <2>1. /\ LoggingIn(c)' /\ login'[c] = logins + 1 /\ want'[c] = want[c]
        /\ attempts' = [attempts EXCEPT ![want[c]] = @ \cup {[n |-> logins + 1, at |-> now]}]
    BY <1>0, <1>1, <1>2, <1>5 DEF LoggingIn
  <2> SUFFICES ASSUME NEW i \in Id, NEW a \in attempts'[i]
               PROVE  \/ \E d \in Caller : LoggingIn(d)' /\ want'[d] = i /\ login'[d] = a.n
                      \/ session'[i].exp = Unknown
                      \/ session'[i].exp >= a.at + Within + Window
    BY DEF RenewedOK, Within
  <2>2. CASE a \in attempts[i]
    BY <1>1, <1>3, <2>2 DEF RenewedOK
  <2>3. CASE a \notin attempts[i]
    <3>1. i = want[c] /\ a.n = logins + 1
      BY <1>0, <1>1, <2>1, <2>3
    <3> QED BY <2>1, <3>1
  <2> QED BY <2>2, <2>3
<1> QED BY <1>4, <1>5

LEMMA RenewedOk ==
  ASSUME StoreInv, RenewedOK, OutlivesWindow, NEW c \in Caller, RecipeOk(c)
  PROVE  RenewedOK'
<1>0. /\ pc \in [Caller -> Place] /\ session \in [Id -> Session]
      /\ now \in Nat /\ Window \in Nat /\ Within \in Nat
      /\ attempts \in [Id -> SUBSET [n : Nat, at : Nat]]
  BY StoreAssumption, LoopAssumption DEF StoreInv, TypeOK, Within
<1>1. want[c] \in Id /\ UNCHANGED <<want, login, attempts>>
  BY DEF RecipeOk, history, StoreInv, FlightOK
<1>2. PICK secs \in Lifetimes :
        LET new == [ptr |-> login[c], tok |-> login[c], exp |-> ExpiresAt(secs, now)]
        IN  session' = [session EXCEPT ![want[c]] = new] /\ Finish(c, Ok(new))
  BY DEF RecipeOk
<1>3. /\ session'[want[c]].exp = ExpiresAt(secs, now)
      /\ \A j \in Id \ {want[c]} : session'[j] = session[j]
      /\ \A d \in Caller \ {c} : pc'[d] = pc[d]
  BY <1>0, <1>1, <1>2 DEF Finish
<1>4. session'[want[c]].exp = Unknown \/ session'[want[c]].exp >= now + Within + Window
  <2>1. secs \in Int /\ (secs > 0 => secs >= Within + Window)
    BY <1>2, StoreAssumption DEF OutlivesWindow
  <2> QED BY <1>0, <1>3, <2>1 DEF ExpiresAt, Unknown
<1> SUFFICES ASSUME NEW i \in Id, NEW a \in attempts[i]
             PROVE  \/ \E d \in Caller : LoggingIn(d)' /\ want[d] = i /\ login[d] = a.n
                    \/ session'[i].exp = Unknown
                    \/ session'[i].exp >= a.at + Within + Window
  BY <1>1 DEF RenewedOK, Within
<1>5. CASE i = want[c]
  <2>1. a.at <= now /\ a.at \in Nat
    BY <1>0 DEF StoreInv, WindowOK
  <2>2. session'[i].exp = Unknown \/ session'[i].exp \in Nat
    <3>1. secs \in Int
      BY <1>2, StoreAssumption
    <3> QED BY <1>0, <1>3, <1>5, <3>1 DEF ExpiresAt, Unknown
  <2> QED BY <1>0, <1>4, <1>5, <2>1, <2>2
<1>6. CASE i # want[c]
  BY <1>3, <1>6 DEF RenewedOK, LoggingIn
<1> QED BY <1>5, <1>6

LEMMA RenewedStep ==
  StoreInv /\ due \subseteq Id /\ RenewedOK /\ OutlivesWindow /\ [TimelyNext]_pvars
    => RenewedOK'
<1> SUFFICES ASSUME StoreInv, due \subseteq Id, RenewedOK, OutlivesWindow, [TimelyNext]_pvars
             PROVE  RenewedOK'
  OBVIOUS
<1>1. ASSUME UNCHANGED <<session, attempts, pc, want, login>> PROVE RenewedOK'
  BY <1>1, RenewedQuiet DEF LoggingIn
<1>2. CASE LoopStep
  <2>1. CASE SweepCall
    BY <2>1, RenewedCall, LoopAssumption DEF SweepCall
  <2>2. CASE Fire \/ SweepStart \/ SweepEnd
    BY <1>1, <2>2 DEF Fire, SweepStart, SweepEnd, vars, entry, call, history
  <2> QED BY <1>2, <2>1, <2>2 DEF LoopStep
<1>3. ASSUME NEW c \in Caller, OtherCall(c) \/ Return(c) PROVE RenewedOK'
  BY <1>3, RenewedCall DEF OtherCall, ClientCall
<1>4. ASSUME NEW c \in Caller, GetEnter(c) \/ RefreshEnter(c) \/ RecipeOk(c) PROVE RenewedOK'
  BY <1>4, RenewedEnter, RenewedOk
<1>5. CASE Tick \/ Quiescent \/ UNCHANGED pvars
  BY <1>1, <1>5 DEF Tick, Quiescent, pvars, vars, entry, call, history
<1> QED BY <1>2, <1>3, <1>4, <1>5 DEF TimelyNext

\* Attempts that fill the window have just renewed the session.
LEMMA RefusedRecently ==
  ASSUME LoopInv, IsFiniteSet(Id), RenewedOK
  PROVE  RefusalOK
<1> DEFINE i == want[Loop]
<1> SUFFICES ASSUME pc[Loop] = "refreshWait", FlightFree(i), Limited(i)
             PROVE  session[i].exp = Unknown \/ session[i].exp >= Deadline + Interval
  BY DEF RefusalOK
<1>0. /\ now \in Nat /\ Deadline \in Int /\ Interval \in Nat /\ Deadline <= now + Interval
      /\ Window \in Nat /\ Within = Interval + Interval /\ \A j \in Id : session[j].exp \in Nat
      /\ attempts \in [Id -> SUBSET [n : Nat, at : Nat]]
  BY LoopNumbers, StoreAssumption DEF LoopInv, StoreInv, TypeOK, Within
<1>1. i \in Id
  BY LoopAssumption DEF LoopInv, StoreInv, FlightOK, Waiting
<1>2. PICK a \in stamps[i] : a.at > now - Window
  <2>1. Recent(stamps[i]) # {}
    <3>1. Cardinality({}) = 0
      BY FS_EmptySet
    <3> QED BY <3>1, StoreAssumption DEF Limited
  <2> QED BY <2>1 DEF Recent
<1>3. a \in attempts[i] /\ a.at \in Nat
  BY <1>0, <1>1, <1>2 DEF LoopInv, StoreInv, WindowOK
<1>4. \A c \in Caller : ~(LoggingIn(c) /\ want[c] = i)
  BY <1>1, StoreAssumption DEF FlightFree, LoopInv, StoreInv, FlightOK
<1>5. session[i].exp = Unknown \/ session[i].exp >= a.at + Within + Window
  BY <1>1, <1>3, <1>4 DEF RenewedOK
<1> HIDE DEF i
<1> QED BY <1>0, <1>1, <1>2, <1>3, <1>5

-----------------------------------------------------------------------------
(* The sessions stay alive.                                                *)

\* What the loop promises (proactiveRefresh, cmd/daemon.go:52-55; RefreshExpiring,
\* store.go:243-264): looking two intervals ahead keeps every established session
\* from expiring, whoever else uses the store and even if the window refuses the
\* loop, provided a sweep fits into an interval and every stated lifetime is two
\* intervals and the window long.
THEOREM StaysAlive == HealthyTarget /\ OutlivesWindow /\ TimelySpec => []KeptAlive
<1> DEFINE Inv == LoopInv /\ RenewedOK
<1>1. LoopInit => Inv
  <2>1. LoopInit => RenewedOK
    BY DEF LoopInit, Init, RenewedOK
  <2> QED BY <2>1, LoopInvInit
<1>2. HealthyTarget /\ OutlivesWindow /\ Inv /\ [TimelyNext]_pvars => Inv'
  <2> SUFFICES ASSUME HealthyTarget, OutlivesWindow, Inv, [TimelyNext]_pvars PROVE Inv'
    OBVIOUS
  <2>1. RefusalOK
    BY RefusedRecently DEF HealthyTarget
  <2>2. LoopInv'
    BY <2>1, LoopInvStep
  <2>3. RenewedOK'
    BY RenewedStep DEF LoopInv, SweepOK
  <2> QED BY <2>2, <2>3
<1>3. HealthyTarget /\ Inv => KeptAlive
  BY LoopInvAlive DEF HealthyTarget
<1> HIDE DEF Inv
<1> SUFFICES ASSUME HealthyTarget, OutlivesWindow PROVE TimelySpec => []KeptAlive
  OBVIOUS
<1>4. Inv /\ [TimelyNext]_pvars => Inv'
  BY <1>2
<1>5. Inv => KeptAlive
  BY <1>3
<1> QED BY <1>1, <1>4, <1>5, PTL DEF TimelySpec

\* Two intervals are enough if no client uses up the window of attempts before the
\* loop comes (rateLimited, store.go:74-86; proactiveRefresh, cmd/daemon.go:52-55).
THEOREM StaysAliveUnrefused == HealthyTarget /\ TimelySpec /\ []NotRefused => []KeptAlive
<1> SUFFICES ASSUME HealthyTarget PROVE TimelySpec /\ []NotRefused => []KeptAlive
  OBVIOUS
<1>1. NotRefused => RefusalOK
  BY DEF NotRefused, RefusalOK
<1>2. LoopInv /\ NotRefused /\ [TimelyNext]_pvars => LoopInv'
  BY <1>1, LoopInvStep
<1>3. LoopInv => KeptAlive
  BY LoopInvAlive DEF HealthyTarget
<1> QED BY LoopInvInit, <1>2, <1>3, PTL DEF TimelySpec
=============================================================================

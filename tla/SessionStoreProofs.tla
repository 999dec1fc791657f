------------------------ MODULE SessionStoreProofs ------------------------
(***************************************************************************)
(* Proofs about SessionStore, for every set of identities and callers and  *)
(* every window, ceiling and bound.  StoreInv is proved in layers: each    *)
(* lemma assumes the conjuncts below it and shows that a step keeps its own.*)
(***************************************************************************)
EXTENDS SessionStore, FiniteSetTheorems, TLAPS

-----------------------------------------------------------------------------
(* What every step of the store is, however its clients are limited: the   *)
(* lemmas hold for the calls of any client, such as the gateway.           *)

AnyStep ==
  \/ \E c \in Caller :
       \/ \E i \in Id \cup Unmanaged : CallGet(c, i) \/ CallRefresh(c, i)
       \/ CallerStep(c)
  \/ Tick

LEMMA NextIsAny == [Next]_vars => [AnyStep]_vars
BY DEF Next, ClientCall, AnyStep, Quiescent

-----------------------------------------------------------------------------
(* Values.                                                                 *)

LEMMA NilSession == Nil \in Session
BY DEF Nil, Session, Unknown

LEMMA AnswerResult ==
  ASSUME NEW kind \in Kind, NEW s \in Session
  PROVE  Answer(kind, s) \in Result
BY DEF Answer, Result

LEMMA NewSession ==
  ASSUME NEW n \in Nat, NEW secs \in Lifetimes, NEW t \in Nat
  PROVE  [ptr |-> n, tok |-> n, exp |-> ExpiresAt(secs, t)] \in Session
BY StoreAssumption DEF Session, ExpiresAt, Unknown

LEMMA StaleSession ==
  ASSUME NEW s \in Session, NEW n \in Nat
  PROVE  StaleCopy(s, n) \in Session
BY DEF StaleCopy, Session, Past

LEMMA FinishTypes ==
  ASSUME TypeOK, NEW c \in Caller, NEW answer \in Result, Finish(c, answer)
  PROVE  pc' \in [Caller -> Place] /\ res' \in [Caller -> Result]
BY DEF TypeOK, Finish, Place

LEMMA GotoTypes ==
  ASSUME TypeOK, NEW c \in Caller, NEW where \in Place, Goto(c, where)
  PROVE  pc' \in [Caller -> Place] /\ res' \in [Caller -> Result]
BY DEF TypeOK, Goto, Place

-----------------------------------------------------------------------------
(* Type correctness, and who holds flightMu.                               *)

LEMMA TypeInit == Init => TypeOK /\ FlightOK
<1> SUFFICES ASSUME Init PROVE TypeOK /\ FlightOK
  OBVIOUS
<1>1. TypeOK
  BY NilSession, AnswerResult, StoreAssumption
  DEF Init, TypeOK, Start, Unknown, NoAnswer, Kind, Place
<1>2. FlightOK
  BY DEF Init, FlightOK, Waiting, LoggingIn
<1> QED BY <1>1, <1>2

\* What starting a recipe call, counted or not, writes.
LEMMA LoginTypes ==
  ASSUME TypeOK, NEW c \in Caller, NEW i \in Id, NEW stage \in Place,
         StartLogin(c, i, stage)
  PROVE  /\ logins' \in Nat
         /\ login' \in [Caller -> Nat]
         /\ flight' \in [Id -> Caller \cup {NoCaller}]
         /\ pc' \in [Caller -> Place]
         /\ res' \in [Caller -> Result]
<1>1. Goto(c, stage)
  BY DEF StartLogin
<1>2. pc' \in [Caller -> Place] /\ res' \in [Caller -> Result]
  BY <1>1, GotoTypes
<1>3. logins + 1 \in Nat
  BY DEF TypeOK
<1>4. login' \in [Caller -> Nat] /\ logins' \in Nat
  BY <1>3 DEF StartLogin, TypeOK
<1>5. flight' \in [Id -> Caller \cup {NoCaller}]
  BY DEF StartLogin, TypeOK
<1> QED BY <1>2, <1>4, <1>5

LEMMA CountedTypes ==
  ASSUME TypeOK, NEW c \in Caller, NEW i \in Id, NEW stage \in Place,
         StartCounted(c, i, stage)
  PROVE  /\ stamps' \in [Id -> SUBSET [n : Nat, at : Nat]]
         /\ attempts' \in [Id -> SUBSET [n : Nat, at : Nat]]
         /\ recoveries' \in [Id -> SUBSET [n : Nat, ptr : Nat]]
         /\ logins' \in Nat
         /\ login' \in [Caller -> Nat]
         /\ flight' \in [Id -> Caller \cup {NoCaller}]
         /\ pc' \in [Caller -> Place]
         /\ res' \in [Caller -> Result]
<1>1. CASE Limited(i)
  <2>1. Finish(c, Answer("limited", Nil))
    BY <1>1 DEF StartCounted
  <2>2. pc' \in [Caller -> Place] /\ res' \in [Caller -> Result]
    BY <2>1, FinishTypes, AnswerResult, NilSession DEF Kind
  <2> QED BY <1>1, <2>2 DEF StartCounted, TypeOK, Recent
<1>2. CASE ~Limited(i)
  <2>1. StartLogin(c, i, stage)
    BY <1>2 DEF StartCounted
  <2>2. [n |-> logins + 1, at |-> now] \in [n : Nat, at : Nat]
    BY DEF TypeOK
  <2>3. [n |-> logins + 1, ptr |-> before[c].ptr] \in [n : Nat, ptr : Nat]
    BY DEF TypeOK, Session
  <2>4. stamps' \in [Id -> SUBSET [n : Nat, at : Nat]]
    BY <1>2, <2>2 DEF StartCounted, TypeOK, Recent
  <2>5. attempts' \in [Id -> SUBSET [n : Nat, at : Nat]]
    BY <1>2, <2>2 DEF StartCounted, TypeOK
  <2>6. recoveries' \in [Id -> SUBSET [n : Nat, ptr : Nat]]
    BY <1>2, <2>3 DEF StartCounted, TypeOK
  <2> QED BY <2>1, <2>4, <2>5, <2>6, LoginTypes
<1> QED BY <1>1, <1>2

LEMMA TypeStep == TypeOK /\ FlightOK /\ [AnyStep]_vars => TypeOK'
<1> SUFFICES ASSUME TypeOK, FlightOK, [AnyStep]_vars PROVE TypeOK'
  OBVIOUS
<1>1. ASSUME NEW c \in Caller, NEW i \in Id \cup Unmanaged, CallGet(c, i)
      PROVE  TypeOK'
  <2>1. pc' \in [Caller -> Place] /\ res' \in [Caller -> Result]
    <3>1. CASE i \notin Id
      <4>1. Finish(c, Answer("unknown", Nil))
        BY <1>1, <3>1 DEF CallGet
      <4> QED BY <4>1, FinishTypes, AnswerResult, NilSession DEF Kind
    <3>2. CASE i \in Id /\ Usable(session[i])
      <4>1. Finish(c, Ok(session[i])) /\ session[i] \in Session
        BY <1>1, <3>2 DEF CallGet, TypeOK
      <4> QED BY <4>1, FinishTypes, AnswerResult DEF Kind, Ok
    <3>3. CASE i \in Id /\ ~Usable(session[i])
      <4>1. Goto(c, "getWait")
        BY <1>1, <3>3 DEF CallGet
      <4> QED BY <4>1, GotoTypes DEF Place
    <3> QED BY <3>1, <3>2, <3>3
  <2> QED BY <1>1, <2>1 DEF CallGet, TypeOK, entry, history
<1>2. ASSUME NEW c \in Caller, NEW i \in Id \cup Unmanaged, CallRefresh(c, i)
      PROVE  TypeOK'
  <2>1. CASE i \notin Id
    <3>1. Finish(c, Answer("unknown", Nil))
      BY <1>2, <2>1 DEF CallRefresh
    <3>2. pc' \in [Caller -> Place] /\ res' \in [Caller -> Result]
      BY <3>1, FinishTypes, AnswerResult, NilSession DEF Kind
    <3> QED BY <1>2, <2>1, <3>2 DEF CallRefresh, TypeOK, entry, history
  <2>2. CASE i \in Id
    <3>1. Goto(c, "refreshWait") /\ before' \in [Caller -> Session]
      BY <1>2, <2>2 DEF CallRefresh, TypeOK
    <3>2. pc' \in [Caller -> Place] /\ res' \in [Caller -> Result]
      BY <3>1, GotoTypes DEF Place
    <3> QED BY <1>2, <3>1, <3>2 DEF CallRefresh, TypeOK, entry, history
  <2> QED BY <2>1, <2>2
<1>3. ASSUME NEW c \in Caller, GetEnter(c)
      PROVE  TypeOK'
  <2> DEFINE i == want[c]
  <2>1. i \in Id
    BY <1>3 DEF GetEnter, FlightFree, FlightOK, Waiting
  <2>2. CASE Usable(session[i])
    <3>1. Finish(c, Ok(session[i])) /\ session[i] \in Session
      BY <1>3, <2>1, <2>2 DEF GetEnter, FlightFree, TypeOK, Usable
    <3>2. pc' \in [Caller -> Place] /\ res' \in [Caller -> Result]
      BY <3>1, FinishTypes, AnswerResult DEF Kind, Ok
    <3> QED BY <1>3, <2>2, <3>2 DEF GetEnter, FlightFree, TypeOK, Usable
  <2>3. CASE session[i] = Nil
    <3>1. StartLogin(c, i, "establish")
      BY <1>3, <2>3 DEF GetEnter, FlightFree, Usable
    <3> HIDE DEF i
    <3> QED BY <1>3, <2>1, <2>3, <3>1, LoginTypes DEF GetEnter, FlightFree, TypeOK, Usable, Place, i
  <2>4. CASE session[i] # Nil /\ Expired(session[i], now)
    <3>1. StartCounted(c, i, "renew")
      BY <1>3, <2>4 DEF GetEnter, FlightFree, Usable
    <3> HIDE DEF i
    <3> QED BY <1>3, <2>1, <3>1, CountedTypes DEF GetEnter, FlightFree, TypeOK, Place
  <2> QED BY <2>2, <2>3, <2>4 DEF Usable
<1>4. ASSUME NEW c \in Caller, RefreshEnter(c)
      PROVE  TypeOK'
  <2> DEFINE i == want[c]
  <2>1. i \in Id
    BY <1>4 DEF RefreshEnter, FlightFree, Swapped, FlightOK, Waiting
  <2>2. CASE session[i].ptr # before[c].ptr
    <3>1. Finish(c, Ok(session[i])) /\ session[i] \in Session
      BY <1>4, <2>1, <2>2 DEF RefreshEnter, FlightFree, Swapped, TypeOK
    <3>2. pc' \in [Caller -> Place] /\ res' \in [Caller -> Result]
      BY <3>1, FinishTypes, AnswerResult DEF Kind, Ok
    <3> QED BY <1>4, <2>2, <3>2 DEF RefreshEnter, FlightFree, Swapped, TypeOK
  <2>3. CASE session[i].ptr = before[c].ptr
    <3>1. StartCounted(c, i, "recover")
      BY <1>4, <2>3 DEF RefreshEnter, FlightFree, Swapped
    <3> HIDE DEF i
    <3> QED BY <1>4, <2>1, <3>1, CountedTypes DEF RefreshEnter, FlightFree, Swapped, TypeOK, Place
  <2> QED BY <2>2, <2>3
<1>5. ASSUME NEW c \in Caller, RecipeOk(c)
      PROVE  TypeOK'
  <2>1. PICK secs \in Lifetimes :
          LET new == [ptr |-> login[c], tok |-> login[c], exp |-> ExpiresAt(secs, now)]
          IN  session' = [session EXCEPT ![want[c]] = new] /\ Finish(c, Ok(new))
    BY <1>5 DEF RecipeOk, Unlock
  <2> DEFINE new == [ptr |-> login[c], tok |-> login[c], exp |-> ExpiresAt(secs, now)]
  <2>2. new \in Session
    BY NewSession DEF TypeOK
  <2>3. pc' \in [Caller -> Place] /\ res' \in [Caller -> Result]
    BY <2>1, <2>2, FinishTypes, AnswerResult DEF Kind, Ok
  <2>4. session' \in [Id -> Session]
    BY <2>1, <2>2 DEF TypeOK
  <2> QED BY <1>5, <2>3, <2>4 DEF RecipeOk, Unlock, TypeOK, history
<1>6. ASSUME NEW c \in Caller, RecipeErr(c)
      PROVE  TypeOK'
  <2>1. Finish(c, Answer("err", Nil))
    BY <1>6 DEF RecipeErr, Unlock
  <2>2. pc' \in [Caller -> Place] /\ res' \in [Caller -> Result]
    BY <2>1, FinishTypes, AnswerResult, NilSession DEF Kind
  <2>3. StaleCopy(before[c], login[c]) \in Session
    BY StaleSession DEF TypeOK
  <2>4. session' \in [Id -> Session]
    BY <1>6, <2>3 DEF RecipeErr, Unlock, TypeOK
  <2>5. before[c].tok \in Nat
    BY DEF TypeOK, Session
  <2>6. dead' \in [Id -> SUBSET Nat]
    BY <1>6, <2>5 DEF RecipeErr, Unlock, TypeOK
  <2> QED BY <1>6, <2>2, <2>4, <2>6 DEF RecipeErr, Unlock, TypeOK
<1>7. ASSUME NEW c \in Caller, Return(c)
      PROVE  TypeOK'
  <2>1. NoAnswer \in Result
    BY AnswerResult, NilSession DEF NoAnswer, Kind
  <2> QED BY <1>7, <2>1, NilSession DEF Return, TypeOK, Place, entry, history
<1>8. CASE Tick
  BY <1>8 DEF Tick, TypeOK, Start, entry, call, history
<1>9. CASE UNCHANGED vars
  BY <1>9 DEF TypeOK, vars, entry, call, history
<1> QED
  BY <1>1, <1>2, <1>3, <1>4, <1>5, <1>6, <1>7, <1>8, <1>9
  DEF AnyStep, CallerStep

LEMMA FlightStep == TypeOK /\ FlightOK /\ [AnyStep]_vars => FlightOK'
<1> SUFFICES ASSUME TypeOK, FlightOK, [AnyStep]_vars PROVE FlightOK'
  OBVIOUS
<1> USE StoreAssumption DEF TypeOK, FlightOK, Waiting, LoggingIn, Finish, Goto
<1>1. ASSUME NEW c \in Caller, NEW i \in Id \cup Unmanaged, CallGet(c, i)
      PROVE  FlightOK'
  BY <1>1 DEF CallGet, entry
<1>2. ASSUME NEW c \in Caller, NEW i \in Id \cup Unmanaged, CallRefresh(c, i)
      PROVE  FlightOK'
  BY <1>2 DEF CallRefresh, entry
<1>3. ASSUME NEW c \in Caller, GetEnter(c)
      PROVE  FlightOK'
  BY <1>3 DEF GetEnter, FlightFree, StartCounted, StartLogin
<1>4. ASSUME NEW c \in Caller, RefreshEnter(c)
      PROVE  FlightOK'
  BY <1>4 DEF RefreshEnter, FlightFree, Swapped, StartCounted, StartLogin
<1>5. ASSUME NEW c \in Caller, RecipeOk(c)
      PROVE  FlightOK'
  BY <1>5 DEF RecipeOk, Unlock
<1>6. ASSUME NEW c \in Caller, RecipeErr(c)
      PROVE  FlightOK'
  BY <1>6 DEF RecipeErr, Unlock
<1>7. ASSUME NEW c \in Caller, Return(c)
      PROVE  FlightOK'
  BY <1>7 DEF Return, entry
<1>8. CASE Tick \/ UNCHANGED vars
  BY <1>8 DEF Tick, vars, entry, call
<1> QED
  BY <1>1, <1>2, <1>3, <1>4, <1>5, <1>6, <1>7, <1>8
  DEF AnyStep, CallerStep

\* The store's state is well typed, whatever its callers do (entry,
\* store.go:25-33).
THEOREM TypeCorrect == Spec => []TypeOK
<1>1. Init => TypeOK /\ FlightOK
  BY TypeInit
<1>2. TypeOK /\ FlightOK /\ [Next]_vars => (TypeOK /\ FlightOK)'
  BY TypeStep, FlightStep, NextIsAny
<1> QED BY <1>1, <1>2, PTL DEF Spec

-----------------------------------------------------------------------------
(* Objects: pointers identify sessions, and they only grow.                *)

Typed == TypeOK /\ FlightOK

LEMMA ObjectsInit == Init => ObjectsOK
BY DEF Init, ObjectsOK, LoggingIn, Nil

\* A step that stores no session, and starts logins only with fresh numbers.
LEMMA EnterObjects ==
  ASSUME Typed, ObjectsOK, NEW c \in Caller, GetEnter(c) \/ RefreshEnter(c)
  PROVE  ObjectsOK'
<1> USE DEF Typed, TypeOK, FlightOK, ObjectsOK, Waiting, LoggingIn, Finish, Goto, Session
<1>1. CASE GetEnter(c)
  BY <1>1 DEF GetEnter, FlightFree, StartCounted, StartLogin
<1>2. CASE RefreshEnter(c)
  <2>1. CASE session[want[c]].ptr # before[c].ptr
    BY <1>2, <2>1 DEF RefreshEnter, FlightFree, Swapped
  <2>2. CASE session[want[c]].ptr = before[c].ptr
    <3>1. before[c] = session[want[c]]
      BY <1>2, <2>2 DEF RefreshEnter, FlightFree, Swapped, NotNewer
    <3> QED BY <1>2, <2>2, <3>1 DEF RefreshEnter, FlightFree, Swapped, StartCounted, StartLogin
  <2> QED BY <2>1, <2>2
<1> QED BY <1>1, <1>2

\* The end of a login stores, if anything, an object with the login's number.
LEMMA EndObjects ==
  ASSUME Typed, ObjectsOK, NEW c \in Caller, LoggingIn(c), NEW s \in Session,
         s.ptr = login[c], s.tok <= login[c], s.tok >= session[want[c]].tok,
         session' = [session EXCEPT ![want[c]] = s],
         pc' = [pc EXCEPT ![c] = "returned"],
         UNCHANGED <<logins, want, before, login>>
  PROVE  ObjectsOK'
<1> USE DEF Typed, TypeOK
<1> DEFINE i == want[c]
<1>1. i \in Id /\ flight[i] = c
  BY DEF FlightOK
<1>2. session[i].ptr < login[c] /\ login[c] <= logins
  BY DEF ObjectsOK
<1>3. session[i].ptr \in Nat /\ login[c] \in Nat /\ login[c] > 0
  BY <1>1, <1>2 DEF Session
<1>4. ASSUME NEW j \in Id
      PROVE  /\ session'[j].tok <= session'[j].ptr
             /\ session'[j].ptr <= logins'
             /\ session'[j].ptr = 0 => session'[j] = Nil
  <2>1. CASE j = i
    BY <1>1, <1>2, <1>3, <2>1
  <2>2. CASE j # i
    BY <2>2 DEF ObjectsOK
  <2> QED BY <2>1, <2>2
<1>5. ASSUME NEW d \in Caller
      PROVE  /\ LoggingIn(d)' => session'[want'[d]].ptr < login'[d] /\ login'[d] <= logins'
             /\ pc'[d] = "refreshWait" => NotNewer(before'[d], session'[want'[d]])
             /\ pc'[d] = "recover" => before'[d] = session'[want'[d]]
  <2>1. CASE d = c
    BY <2>1 DEF LoggingIn
  <2>2. CASE d # c /\ want[d] # i
    BY <2>2 DEF ObjectsOK, LoggingIn, NotNewer
  <2>3. CASE d # c /\ want[d] = i
    <3>1. ~LoggingIn(d) /\ pc'[d] = pc[d]
      BY <1>1, <2>3 DEF FlightOK
    <3>2. ASSUME pc[d] = "refreshWait" PROVE NotNewer(before[d], session'[i])
      <4>1. NotNewer(before[d], session[i])
        BY <2>3, <3>2 DEF ObjectsOK
      <4>2. session'[i] = s
        BY <1>1
      <4>3. before[d] \in Session /\ session[i] \in Session
        BY <1>1
      <4> QED BY <1>2, <4>1, <4>2, <4>3 DEF NotNewer, Session
    <3> QED BY <2>3, <3>1, <3>2 DEF LoggingIn
  <2> QED BY <2>1, <2>2, <2>3
<1> QED BY <1>4, <1>5 DEF ObjectsOK

\* The two ways a login ends, and the session each leaves.
LEMMA OkCommits ==
  ASSUME Typed, ObjectsOK, NEW c \in Caller, RecipeOk(c)
  PROVE  \E s \in Session :
           /\ s.ptr = login[c] /\ s.tok = login[c]
           /\ session' = [session EXCEPT ![want[c]] = s]
           /\ Finish(c, Ok(s))
<1>1. PICK secs \in Lifetimes :
        LET new == [ptr |-> login[c], tok |-> login[c], exp |-> ExpiresAt(secs, now)]
        IN  session' = [session EXCEPT ![want[c]] = new] /\ Finish(c, Ok(new))
  BY DEF RecipeOk, Unlock
<1> DEFINE new == [ptr |-> login[c], tok |-> login[c], exp |-> ExpiresAt(secs, now)]
<1>2. new \in Session
  BY NewSession DEF Typed, TypeOK
<1> QED BY <1>1, <1>2

LEMMA ErrLeaves ==
  ASSUME Typed, ObjectsOK, NEW c \in Caller, RecipeErr(c)
  PROVE  \/ UNCHANGED <<session, dead>>
         \/ /\ pc[c] = "recover" /\ before[c] = session[want[c]]
            /\ StaleCopy(before[c], login[c]) \in Session
            /\ session' = [session EXCEPT ![want[c]] = StaleCopy(before[c], login[c])]
            /\ dead' = [dead EXCEPT ![want[c]] = @ \cup {before[c].tok}]
BY StaleSession DEF RecipeErr, Unlock, Typed, TypeOK, ObjectsOK

LEMMA ObjectsStep == Typed /\ ObjectsOK /\ [AnyStep]_vars => ObjectsOK'
<1> SUFFICES ASSUME Typed, ObjectsOK, [AnyStep]_vars PROVE ObjectsOK'
  OBVIOUS
<1> USE DEF Typed, TypeOK
<1>1. ASSUME NEW c \in Caller, NEW i \in Id \cup Unmanaged, CallGet(c, i)
      PROVE  ObjectsOK'
  BY <1>1 DEF CallGet, Finish, Goto, ObjectsOK, LoggingIn, NotNewer, entry
<1>2. ASSUME NEW c \in Caller, NEW i \in Id \cup Unmanaged, CallRefresh(c, i)
      PROVE  ObjectsOK'
  BY <1>2 DEF CallRefresh, Finish, Goto, ObjectsOK, LoggingIn, NotNewer, Session, entry
<1>3. ASSUME NEW c \in Caller, GetEnter(c) \/ RefreshEnter(c)
      PROVE  ObjectsOK'
  BY <1>3, EnterObjects
<1>4. ASSUME NEW c \in Caller, RecipeOk(c)
      PROVE  ObjectsOK'
  <2>1. PICK s \in Session : /\ s.ptr = login[c] /\ s.tok = login[c]
                             /\ session' = [session EXCEPT ![want[c]] = s]
                             /\ Finish(c, Ok(s))
    BY <1>4, OkCommits
  <2>2. LoggingIn(c) /\ want[c] \in Id
    BY <1>4 DEF RecipeOk, Unlock, FlightOK
  <2>3. session[want[c]].tok <= login[c]
    BY <2>2 DEF ObjectsOK, Session
  <2>4. s.tok <= login[c] /\ s.tok >= session[want[c]].tok
    BY <2>1, <2>3 DEF Session
  <2>5. pc' = [pc EXCEPT ![c] = "returned"]
    BY <2>1 DEF Finish
  <2>6. UNCHANGED <<logins, want, before, login>>
    BY <1>4 DEF RecipeOk, Unlock
  <2> QED BY <2>1, <2>2, <2>4, <2>5, <2>6, EndObjects
<1>5. ASSUME NEW c \in Caller, RecipeErr(c)
      PROVE  ObjectsOK'
  <2>1. LoggingIn(c) /\ want[c] \in Id /\ pc' = [pc EXCEPT ![c] = "returned"]
    BY <1>5 DEF RecipeErr, Unlock, FlightOK, Finish
  <2>2. CASE UNCHANGED session
    <3>1. UNCHANGED <<session, logins, want, before, login>>
      BY <1>5, <2>2 DEF RecipeErr, Unlock
    <3>2. \A d \in Caller : pc'[d] = pc[d] \/ pc'[d] = "returned"
      BY <2>1
    <3> QED BY <3>1, <3>2 DEF ObjectsOK, LoggingIn, NotNewer
  <2>3. CASE ~UNCHANGED session
    <3> DEFINE s == StaleCopy(before[c], login[c])
    <3>1. /\ before[c] = session[want[c]] /\ s \in Session
          /\ session' = [session EXCEPT ![want[c]] = s]
      BY <1>5, <2>3, ErrLeaves
    <3>2. s.ptr = login[c] /\ s.tok = session[want[c]].tok
      BY <3>1 DEF StaleCopy, Session
    <3>3. s.tok <= login[c]
      BY <2>1, <3>2 DEF ObjectsOK, Session
    <3>4. s.tok >= session[want[c]].tok
      BY <2>1, <3>2 DEF Session
    <3> HIDE DEF s
    <3> QED BY <1>5, <2>1, <3>1, <3>2, <3>3, <3>4, EndObjects DEF RecipeErr, Unlock
  <2> QED BY <2>2, <2>3
<1>6. ASSUME NEW c \in Caller, Return(c)
      PROVE  ObjectsOK'
  BY <1>6 DEF Return, ObjectsOK, LoggingIn, NotNewer, entry
<1>7. CASE Tick \/ UNCHANGED vars
  BY <1>7 DEF Tick, vars, entry, call, ObjectsOK, LoggingIn, NotNewer
<1> QED
  BY <1>1, <1>2, <1>3, <1>4, <1>5, <1>6, <1>7
  DEF AnyStep, CallerStep

LEMMA MarkedInit == Init => MarkedOK
BY DEF Init, MarkedOK

\* A renewal brings credentials no snapshot has, a failure marks what it leaves.
LEMMA MarkedStep == Typed /\ ObjectsOK /\ MarkedOK /\ [AnyStep]_vars => MarkedOK'
<1> SUFFICES ASSUME Typed, ObjectsOK, MarkedOK, [AnyStep]_vars PROVE MarkedOK'
  OBVIOUS
<1> USE DEF Typed, TypeOK
<1>1. ASSUME NEW c \in Caller, NEW i \in Id \cup Unmanaged, CallGet(c, i)
      PROVE  MarkedOK'
  BY <1>1 DEF CallGet, Finish, Goto, MarkedOK, entry
<1>2. ASSUME NEW c \in Caller, NEW i \in Id \cup Unmanaged, CallRefresh(c, i)
      PROVE  MarkedOK'
  BY <1>2 DEF CallRefresh, Finish, Goto, MarkedOK, entry
<1>3. ASSUME NEW c \in Caller, GetEnter(c) \/ RefreshEnter(c) \/ Return(c)
      PROVE  MarkedOK'
  <2>1. UNCHANGED session /\ \A d \in Caller : pc'[d] = "refreshWait" =>
          pc[d] = "refreshWait" /\ want'[d] = want[d] /\ before'[d] = before[d]
    BY <1>3 DEF GetEnter, RefreshEnter, Return, StartCounted, StartLogin, Finish, Goto, entry
  <2> QED BY <2>1 DEF MarkedOK
<1>4. ASSUME NEW c \in Caller, NEW s \in Session, LoggingIn(c),
             session' = [session EXCEPT ![want[c]] = s],
             s.tok = login[c] \/ s.exp = Past,
             pc' = [pc EXCEPT ![c] = "returned"], UNCHANGED <<want, before>>
      PROVE  MarkedOK'
  <2> SUFFICES ASSUME NEW d \in Caller, pc[d] = "refreshWait", d # c,
                      session'[want[d]].ptr # before[d].ptr,
                      session'[want[d]].tok = before[d].tok
               PROVE  session'[want[d]].exp = Past
    BY <1>4 DEF MarkedOK
  <2>1. want[c] \in Id /\ want[d] \in Id
    BY <1>4 DEF FlightOK, Waiting
  <2>2. CASE want[d] # want[c]
    BY <1>4, <2>1, <2>2 DEF MarkedOK
  <2>3. CASE want[d] = want[c]
    <3>1. session'[want[d]] = s
      BY <1>4, <2>1, <2>3
    <3>2. NotNewer(before[d], session[want[c]]) /\ session[want[c]].ptr < login[c]
          /\ session[want[c]].tok <= session[want[c]].ptr
      BY <1>4, <2>1, <2>3 DEF ObjectsOK
    <3>3. s.tok # login[c]
      BY <2>1, <3>1, <3>2 DEF NotNewer, Session
    <3> QED BY <1>4, <3>1, <3>3
  <2> QED BY <2>2, <2>3
<1>5. ASSUME NEW c \in Caller, RecipeOk(c)
      PROVE  MarkedOK'
  <2>1. PICK s \in Session : /\ s.ptr = login[c] /\ s.tok = login[c]
                             /\ session' = [session EXCEPT ![want[c]] = s]
                             /\ Finish(c, Ok(s))
    BY <1>5, OkCommits
  <2> QED BY <1>4, <1>5, <2>1 DEF RecipeOk, Unlock, Finish
<1>6. ASSUME NEW c \in Caller, RecipeErr(c)
      PROVE  MarkedOK'
  <2>1. LoggingIn(c) /\ pc' = [pc EXCEPT ![c] = "returned"] /\ UNCHANGED <<want, before>>
    BY <1>6 DEF RecipeErr, Unlock, Finish
  <2>2. CASE UNCHANGED session
    BY <2>1, <2>2 DEF MarkedOK
  <2>3. CASE ~UNCHANGED session
    <3> DEFINE s == StaleCopy(before[c], login[c])
    <3>1. s \in Session /\ session' = [session EXCEPT ![want[c]] = s]
      BY <1>6, <2>3, ErrLeaves
    <3>2. s.exp = Past
      BY DEF StaleCopy, Session
    <3> HIDE DEF s
    <3> QED BY <1>4, <2>1, <3>1, <3>2
  <2> QED BY <2>2, <2>3
<1>7. CASE Tick \/ UNCHANGED vars
  BY <1>7 DEF Tick, vars, entry, call, MarkedOK
<1> QED
  BY <1>1, <1>2, <1>3, <1>5, <1>6, <1>7
  DEF AnyStep, CallerStep

-----------------------------------------------------------------------------
(* One recovery per object.                                                *)

LEMMA RecoveriesInit == Init => RecoveriesOK /\ OneRecoveryPerSession
BY DEF Init, RecoveriesOK, OneRecoveryPerSession

\* Steps that leave the objects alone and no recovery behind.
LEMMA QuietRecoveries ==
  ASSUME RecoveriesOK, OneRecoveryPerSession, UNCHANGED <<session, recoveries>>,
         \A d \in Caller : pc[d] = "recover" => pc'[d] = "recover" /\ want'[d] = want[d]
  PROVE  RecoveriesOK' /\ OneRecoveryPerSession'
BY DEF RecoveriesOK, OneRecoveryPerSession

\* A recovery that starts is the first of its object: flightMu was free, so an
\* earlier one has ended, and it left another object.
LEMMA StartsRecovery ==
  ASSUME Typed, ObjectsOK, RecoveriesOK, OneRecoveryPerSession,
         NEW c \in Caller, RefreshEnter(c), ~UNCHANGED recoveries
  PROVE  RecoveriesOK' /\ OneRecoveryPerSession'
<1> DEFINE i == want[c]
<1> DEFINE new == [n |-> logins + 1, ptr |-> session[i].ptr]
<1>1. i \in Id /\ flight[i] = NoCaller /\ pc[c] = "refreshWait"
  BY DEF RefreshEnter, FlightFree, Swapped, Typed, FlightOK, Waiting
<1>2. /\ recoveries' = [recoveries EXCEPT ![i] = @ \cup {new}]
      /\ pc' = [pc EXCEPT ![c] = "recover"]
      /\ UNCHANGED <<session, want>>
  BY <1>1 DEF RefreshEnter, FlightFree, Swapped, StartCounted, StartLogin, Goto
<1>3. recoveries'[i] = recoveries[i] \cup {new}
  BY <1>1, <1>2 DEF Typed, TypeOK
<1>4. pc'[c] = "recover" /\ want'[c] = i
  BY <1>2 DEF Typed, TypeOK
<1>5. \A d \in Caller : pc[d] = "recover" => want[d] # i
  BY <1>1, StoreAssumption DEF Typed, FlightOK, LoggingIn
<1>6. \A a \in recoveries[i] : a.ptr # new.ptr \/ new.ptr = 0
  BY <1>1, <1>5 DEF RecoveriesOK
<1>7. \A d \in Caller : pc[d] = "recover" => pc'[d] = "recover" /\ want'[d] = want[d]
  BY <1>2, <1>4 DEF Typed, TypeOK
<1>8. RecoveriesOK'
  <2> SUFFICES ASSUME NEW j \in Id, NEW a \in recoveries'[j]
               PROVE  /\ a.ptr <= session[j].ptr
                      /\ a.ptr = session[j].ptr /\ a.ptr # 0
                           => \E d \in Caller : pc'[d] = "recover" /\ want'[d] = j
    BY <1>2 DEF RecoveriesOK
  <2>1. CASE a \in recoveries[j]
    BY <2>1, <1>7 DEF RecoveriesOK
  <2>2. CASE a \notin recoveries[j]
    <3>1. j = i /\ a = new
      BY <1>2, <1>3, <2>2 DEF Typed, TypeOK
    <3>2. session[i].ptr \in Nat
      BY <1>1 DEF Typed, TypeOK, Session
    <3> QED BY <3>1, <3>2, <1>4
  <2> QED BY <2>1, <2>2
<1>9. OneRecoveryPerSession'
  <2> SUFFICES ASSUME NEW j \in Id, NEW a \in recoveries'[j], NEW b \in recoveries'[j],
                      a.ptr = b.ptr, a.ptr # 0
               PROVE  a = b
    BY DEF OneRecoveryPerSession
  <2>1. CASE j # i
    <3>1. recoveries'[j] = recoveries[j]
      BY <1>2, <2>1 DEF Typed, TypeOK
    <3> QED BY <3>1 DEF OneRecoveryPerSession
  <2>2. CASE j = i
    BY <1>3, <1>6, <2>2 DEF OneRecoveryPerSession
  <2> QED BY <2>1, <2>2
<1> QED BY <1>8, <1>9

\* A login that ends stores a newer object than any recovery was started for.
LEMMA EndRecoveries ==
  ASSUME Typed, ObjectsOK, RecoveriesOK, OneRecoveryPerSession,
         NEW c \in Caller, LoggingIn(c), NEW s \in Session, s.ptr = login[c],
         session' = [session EXCEPT ![want[c]] = s],
         pc' = [pc EXCEPT ![c] = "returned"], UNCHANGED <<want, recoveries>>
  PROVE  RecoveriesOK' /\ OneRecoveryPerSession'
<1> DEFINE i == want[c]
<1>1. i \in Id
  BY DEF Typed, FlightOK
<1>2. session[i].ptr < login[c] /\ session[i].ptr \in Nat /\ login[c] \in Nat
  BY <1>1 DEF ObjectsOK, Typed, TypeOK, Session
<1>3. RecoveriesOK'
  <2> SUFFICES ASSUME NEW j \in Id, NEW a \in recoveries[j]
               PROVE  /\ a.ptr <= session'[j].ptr
                      /\ a.ptr = session'[j].ptr /\ a.ptr # 0
                           => \E d \in Caller : pc'[d] = "recover" /\ want'[d] = j
    BY DEF RecoveriesOK
  <2>1. CASE j = i
    <3>1. session'[i].ptr = login[c]
      BY <1>1 DEF Typed, TypeOK
    <3>2. a.ptr <= session[i].ptr /\ a.ptr \in Nat
      BY <2>1 DEF RecoveriesOK, Typed, TypeOK
    <3> QED BY <1>2, <2>1, <3>1, <3>2
  <2>2. CASE j # i
    <3>1. session'[j] = session[j]
      BY <2>2 DEF Typed, TypeOK
    <3>2. \A d \in Caller : want[d] = j => pc'[d] = pc[d]
      BY <2>2 DEF Typed, TypeOK
    <3> QED BY <3>1, <3>2 DEF RecoveriesOK
  <2> QED BY <2>1, <2>2
<1>4. OneRecoveryPerSession'
  BY DEF OneRecoveryPerSession
<1> QED BY <1>3, <1>4

LEMMA RecoveriesStep ==
  Typed /\ ObjectsOK /\ RecoveriesOK /\ OneRecoveryPerSession /\ [AnyStep]_vars
    => RecoveriesOK' /\ OneRecoveryPerSession'
<1> SUFFICES ASSUME Typed, ObjectsOK, RecoveriesOK, OneRecoveryPerSession, [AnyStep]_vars
             PROVE  RecoveriesOK' /\ OneRecoveryPerSession'
  OBVIOUS
<1>0. pc \in [Caller -> Place] /\ want \in [Caller -> Id \cup Unmanaged \cup {NoId}]
  BY DEF Typed, TypeOK
<1>1. ASSUME NEW c \in Caller, NEW i \in Id \cup Unmanaged, CallGet(c, i) \/ CallRefresh(c, i)
      PROVE  RecoveriesOK' /\ OneRecoveryPerSession'
  BY <1>0, <1>1, QuietRecoveries DEF CallGet, CallRefresh, Finish, Goto, entry, history
<1>2. ASSUME NEW c \in Caller, GetEnter(c)
      PROVE  RecoveriesOK' /\ OneRecoveryPerSession'
  BY <1>0, <1>2, QuietRecoveries DEF GetEnter, FlightFree, StartCounted, StartLogin, Finish, Goto
<1>3. ASSUME NEW c \in Caller, RefreshEnter(c)
      PROVE  RecoveriesOK' /\ OneRecoveryPerSession'
  <2>1. CASE UNCHANGED recoveries
    <3>1. pc[c] = "refreshWait" /\ UNCHANGED <<session, want>>
      BY <1>3 DEF RefreshEnter, FlightFree, Swapped
    <3>2. \A d \in Caller : d # c => pc'[d] = pc[d]
      BY <1>3, <1>0 DEF RefreshEnter, FlightFree, Swapped, StartCounted, StartLogin, Finish, Goto
    <3> QED BY <2>1, <3>1, <3>2, QuietRecoveries
  <2> QED BY <1>3, <2>1, StartsRecovery
<1>4. ASSUME NEW c \in Caller, RecipeOk(c)
      PROVE  RecoveriesOK' /\ OneRecoveryPerSession'
  <2>1. PICK s \in Session : /\ s.ptr = login[c]
                             /\ session' = [session EXCEPT ![want[c]] = s]
                             /\ Finish(c, Ok(s))
    BY <1>4, OkCommits
  <2> QED BY <1>4, <2>1, EndRecoveries DEF RecipeOk, Unlock, Finish, history
<1>5. ASSUME NEW c \in Caller, RecipeErr(c)
      PROVE  RecoveriesOK' /\ OneRecoveryPerSession'
  <2>1. LoggingIn(c) /\ want[c] \in Id /\ pc' = [pc EXCEPT ![c] = "returned"]
        /\ UNCHANGED <<want, recoveries>>
    BY <1>5 DEF RecipeErr, Unlock, Typed, FlightOK, Finish
  <2>2. CASE UNCHANGED session /\ pc[c] # "recover"
    <3>1. \A d \in Caller : d # c => pc'[d] = pc[d]
      BY <1>0, <2>1
    <3> QED BY <2>1, <2>2, <3>1, QuietRecoveries
  <2>3. CASE UNCHANGED session /\ pc[c] = "recover"
    <3>1. session[want[c]] = Nil
      <4>1. before[c] = session[want[c]]
        BY <2>3 DEF ObjectsOK
      <4>2. before[c] # Nil => session' # session
        <5>1. ASSUME before[c] # Nil PROVE session'[want[c]].ptr = login[c]
          <6>1. session' = [session EXCEPT ![want[c]] = StaleCopy(before[c], login[c])]
            BY <1>5, <2>3, <5>1 DEF RecipeErr, Unlock
          <6>2. session'[want[c]] = StaleCopy(before[c], login[c])
            BY <2>1, <6>1 DEF Typed, TypeOK
          <6> QED BY <6>2 DEF StaleCopy, Typed, TypeOK, Session
        <5>2. session[want[c]].ptr < login[c] /\ session[want[c]].ptr \in Nat /\ login[c] \in Nat
          BY <2>1 DEF ObjectsOK, Typed, TypeOK, Session
        <5> QED BY <5>1, <5>2
      <4> QED BY <2>3, <4>1, <4>2
    <3>2. \A d \in Caller : want[d] # want[c] => pc'[d] = pc[d]
      BY <1>0, <2>1
    <3>3. session[want[c]].ptr = 0
      BY <3>1 DEF Nil
    <3> QED BY <2>1, <2>3, <3>2, <3>3 DEF RecoveriesOK, OneRecoveryPerSession
  <2>4. CASE ~UNCHANGED session
    <3> DEFINE s == StaleCopy(before[c], login[c])
    <3>1. s \in Session /\ session' = [session EXCEPT ![want[c]] = s]
      BY <1>5, <2>4, ErrLeaves
    <3>2. s.ptr = login[c]
      BY DEF StaleCopy, Typed, TypeOK, Session
    <3> HIDE DEF s
    <3> QED BY <2>1, <3>1, <3>2, EndRecoveries
  <2> QED BY <2>2, <2>3, <2>4
<1>6. ASSUME NEW c \in Caller, Return(c)
      PROVE  RecoveriesOK' /\ OneRecoveryPerSession'
  BY <1>0, <1>6, QuietRecoveries DEF Return, entry, history
<1>7. CASE Tick \/ UNCHANGED vars
  BY <1>7, QuietRecoveries DEF Tick, vars, entry, call, history
<1> QED
  BY <1>1, <1>2, <1>3, <1>4, <1>5, <1>6, <1>7
  DEF AnyStep, CallerStep

-----------------------------------------------------------------------------
(* Credentials that were given up.                                         *)

LEMMA DeadInit == Init => DeadOK
BY DEF Init, DeadOK

LEMMA DeadStep == Typed /\ ObjectsOK /\ DeadOK /\ [AnyStep]_vars => DeadOK'
<1> SUFFICES ASSUME Typed, ObjectsOK, DeadOK, [AnyStep]_vars PROVE DeadOK'
  OBVIOUS
<1>1. ASSUME UNCHANGED <<session, dead>> PROVE DeadOK'
  BY <1>1 DEF DeadOK
<1>2. ASSUME NEW c \in Caller, RecipeOk(c)
      PROVE  DeadOK'
  <2>1. PICK s \in Session : /\ s.tok = login[c]
                             /\ session' = [session EXCEPT ![want[c]] = s]
    BY <1>2, OkCommits
  <2>2. want[c] \in Id /\ LoggingIn(c) /\ UNCHANGED dead
    BY <1>2 DEF RecipeOk, Unlock, Typed, FlightOK, history
  <2>3. session[want[c]].tok < login[c]
    BY <2>2 DEF ObjectsOK, Typed, TypeOK, Session
  <2> SUFFICES ASSUME NEW j \in Id, NEW t \in dead[j]
               PROVE  t <= session'[j].tok /\ (t = session'[j].tok => session'[j].exp = Past)
    BY <2>2 DEF DeadOK
  <2>4. CASE j = want[c]
    <3>1. session'[j].tok = login[c]
      BY <2>1, <2>4 DEF Typed, TypeOK
    <3>2. t <= session[j].tok /\ t \in Nat /\ session[j].tok \in Nat /\ login[c] \in Nat
      BY DEF DeadOK, Typed, TypeOK, Session
    <3> QED BY <2>3, <2>4, <3>1, <3>2
  <2>5. CASE j # want[c]
    BY <2>1, <2>5 DEF DeadOK, Typed, TypeOK
  <2> QED BY <2>4, <2>5
<1>3. ASSUME NEW c \in Caller, RecipeErr(c)
      PROVE  DeadOK'
  <2>1. want[c] \in Id
    BY <1>3 DEF RecipeErr, Unlock, Typed, FlightOK
  <2>2. CASE UNCHANGED <<session, dead>>
    BY <1>1, <2>2
  <2>3. CASE ~UNCHANGED <<session, dead>>
    <3> DEFINE s == StaleCopy(before[c], login[c])
    <3>1. /\ before[c] = session[want[c]] /\ s \in Session
          /\ session' = [session EXCEPT ![want[c]] = s]
          /\ dead' = [dead EXCEPT ![want[c]] = @ \cup {before[c].tok}]
      BY <1>3, <2>3, ErrLeaves
    <3>2. s.tok = before[c].tok /\ s.exp = Past /\ before[c].tok \in Nat
      BY DEF StaleCopy, Typed, TypeOK, Session
    <3> HIDE DEF s
    <3> SUFFICES ASSUME NEW j \in Id, NEW t \in dead'[j]
                 PROVE  t <= session'[j].tok /\ (t = session'[j].tok => session'[j].exp = Past)
      BY DEF DeadOK
    <3>3. CASE j = want[c]
      <4>1. session'[j] = s /\ dead'[j] = dead[j] \cup {before[c].tok}
        BY <3>1, <3>3 DEF Typed, TypeOK
      <4>2. CASE t \in dead[j]
        BY <3>1, <3>2, <3>3, <4>1, <4>2 DEF DeadOK
      <4>3. CASE t = before[c].tok
        BY <3>2, <4>1, <4>3
      <4> QED BY <4>1, <4>2, <4>3
    <3>4. CASE j # want[c]
      <4>1. session'[j] = session[j] /\ dead'[j] = dead[j]
        BY <3>1, <3>4 DEF Typed, TypeOK
      <4> QED BY <4>1 DEF DeadOK
    <3> QED BY <3>3, <3>4
  <2> QED BY <2>2, <2>3
<1>4. ASSUME NEW c \in Caller, NEW i \in Id \cup Unmanaged, CallGet(c, i) \/ CallRefresh(c, i)
      PROVE  UNCHANGED <<session, dead>>
  BY <1>4 DEF CallGet, CallRefresh, entry, history
<1>5. ASSUME NEW c \in Caller, GetEnter(c) \/ RefreshEnter(c) \/ Return(c)
      PROVE  UNCHANGED <<session, dead>>
  BY <1>5 DEF GetEnter, FlightFree, RefreshEnter, Return, entry, history
<1>6. ASSUME Tick \/ UNCHANGED vars
      PROVE  UNCHANGED <<session, dead>>
  BY <1>6 DEF Tick, vars, entry, history
<1> QED
  BY <1>1, <1>2, <1>3, <1>4, <1>5, <1>6
  DEF AnyStep, CallerStep

-----------------------------------------------------------------------------
(* The sliding window.                                                     *)

\* The attempts in the window that ends at t.
InWindow(S, t) == {a \in S : a.at > t - Window /\ a.at <= t}

LEMMA WindowInit == Init => WindowOK /\ BurstCeiling
<1> SUFFICES ASSUME Init PROVE WindowOK /\ BurstCeiling
  OBVIOUS
<1>1. IsFiniteSet({}) /\ Cardinality({}) = 0
  BY FS_EmptySet
<1>2. \A i \in Id : attempts[i] = {} /\ stamps[i] = {}
  BY DEF Init
<1>3. WindowOK
  BY <1>1, <1>2 DEF WindowOK
<1>4. ASSUME NEW i \in Id, NEW t \in Start .. now
      PROVE  Cardinality({a \in attempts[i] : a.at > t - Window /\ a.at <= t}) <= MaxBurst
  <2>1. {a \in attempts[i] : a.at > t - Window /\ a.at <= t} = {}
    BY <1>2
  <2>2. Cardinality({a \in attempts[i] : a.at > t - Window /\ a.at <= t}) = 0
    BY <1>1, <2>1, Zenon
  <2>3. MaxBurst \in Nat
    BY StoreAssumption
  <2> QED BY <2>2, <2>3
<1> QED BY <1>3, <1>4 DEF BurstCeiling

\* Pruning at now keeps exactly the attempts of the window that ends now.
LEMMA PrunedIsWindow ==
  ASSUME Typed, WindowOK, NEW i \in Id
  PROVE  Recent(stamps[i]) = InWindow(attempts[i], now)
<1> USE StoreAssumption DEF Typed, TypeOK, WindowOK, Recent, InWindow
<1>1. ASSUME NEW a \in Recent(stamps[i]) PROVE a \in InWindow(attempts[i], now)
  BY <1>1
<1>2. ASSUME NEW a \in InWindow(attempts[i], now) PROVE a \in Recent(stamps[i])
  BY <1>2
<1> QED BY <1>1, <1>2

\* A counted login, or its refusal.
LEMMA CountedWindow ==
  ASSUME Typed, WindowOK, BurstCeiling, NEW c \in Caller, NEW i \in Id, NEW stage \in Place,
         StartCounted(c, i, stage), now' = now
  PROVE  WindowOK' /\ BurstCeiling'
<1> USE StoreAssumption
<1>0. now \in Nat /\ logins \in Nat /\ attempts[i] \subseteq [n : Nat, at : Nat]
  BY DEF Typed, TypeOK
<1>1. CASE Limited(i)
  <2>1. /\ stamps' = [stamps EXCEPT ![i] = Recent(@)]
        /\ UNCHANGED <<attempts, logins>>
    BY <1>1 DEF StartCounted
  <2>2. BurstCeiling'
    BY <2>1 DEF BurstCeiling
  <2>3. ASSUME NEW a \in attempts[i]
        PROVE  a \in Recent(stamps[i]) \/ a.at + Window <= now
    BY <1>0, <2>3 DEF WindowOK, Recent
  <2>4. stamps'[i] = Recent(stamps[i])
    BY <2>1 DEF Typed, TypeOK
  <2>5. \A j \in Id : j # i => stamps'[j] = stamps[j]
    BY <2>1 DEF Typed, TypeOK
  <2>6. Recent(stamps[i]) \subseteq attempts[i]
    BY DEF Recent, WindowOK
  <2>7. WindowOK'
    BY <2>1, <2>3, <2>4, <2>5, <2>6 DEF WindowOK
  <2> QED BY <2>2, <2>7
<1>2. CASE ~Limited(i)
  <2> DEFINE new == [n |-> logins + 1, at |-> now]
  <2>1. /\ stamps' = [stamps EXCEPT ![i] = Recent(@) \cup {new}]
        /\ attempts' = [attempts EXCEPT ![i] = @ \cup {new}]
        /\ logins' = logins + 1
    BY <1>2 DEF StartCounted, StartLogin
  <2>2. /\ stamps'[i] = Recent(stamps[i]) \cup {new}
        /\ attempts'[i] = attempts[i] \cup {new}
        /\ \A j \in Id : j # i => stamps'[j] = stamps[j] /\ attempts'[j] = attempts[j]
    BY <2>1 DEF Typed, TypeOK
  <2>3. IsFiniteSet(attempts'[i])
    <3>1. IsFiniteSet(attempts[i])
      BY DEF WindowOK
    <3> HIDE DEF new
    <3>2. IsFiniteSet(attempts[i] \cup {new})
      BY <3>1, FS_AddElement
    <3> QED BY <2>2, <3>2
  <2>4. new.n = logins + 1 /\ new.at = now /\ new \notin attempts[i]
    BY <1>0 DEF WindowOK
  <2> HIDE DEF new
  <2>5. WindowOK'
    <3> SUFFICES ASSUME NEW j \in Id
                 PROVE  /\ stamps'[j] \subseteq attempts'[j]
                        /\ IsFiniteSet(attempts'[j])
                        /\ \A a \in attempts'[j] :
                             a.n <= logins' /\ a.at <= now'
                             /\ (a \in stamps'[j] \/ a.at + Window <= now')
      BY DEF WindowOK
    <3>1. CASE j # i
      <4>1. stamps'[j] = stamps[j] /\ attempts'[j] = attempts[j]
        BY <2>2, <3>1
      <4>2. \A a \in attempts[j] : a.n \in Nat /\ a.n <= logins
        BY DEF Typed, TypeOK, WindowOK
      <4> QED BY <1>0, <2>1, <4>1, <4>2 DEF WindowOK
    <3>2. CASE j = i
      <4>1. \A a \in attempts[i] : /\ a.n \in Nat /\ a.n <= logins /\ a.at <= now
                                   /\ (a \in Recent(stamps[i]) \/ a.at + Window <= now)
        BY <1>0 DEF WindowOK, Recent
      <4>2. Recent(stamps[i]) \subseteq attempts[i]
        BY DEF Recent, WindowOK
      <4> QED BY <1>0, <2>1, <2>2, <2>3, <2>4, <3>2, <4>1, <4>2
    <3> QED BY <3>1, <3>2
  <2>6. BurstCeiling'
    <3> SUFFICES ASSUME NEW j \in Id, NEW t \in Start .. now
                 PROVE  Cardinality(InWindow(attempts'[j], t)) <= MaxBurst
      BY DEF BurstCeiling, InWindow
    <3>1. CASE j # i \/ t # now
      <4>1. InWindow(attempts'[j], t) = InWindow(attempts[j], t)
        <5>1. CASE j # i
          BY <2>2, <5>1 DEF InWindow
        <5>2. CASE j = i /\ t < now
          BY <1>0, <2>2, <2>4, <5>2 DEF InWindow, Start
        <5> QED BY <1>0, <3>1, <5>1, <5>2 DEF Start
      <4>2. Cardinality(InWindow(attempts[j], t)) <= MaxBurst
        BY DEF BurstCeiling, InWindow
      <4> QED BY <4>1, <4>2
    <3>2. CASE j = i /\ t = now
      <4> DEFINE W == InWindow(attempts[i], now)
      <4>1. InWindow(attempts'[j], t) = W \cup {new}
        BY <1>0, <2>2, <2>4, <3>2 DEF InWindow
      <4>2. IsFiniteSet(W)
        <5>1. IsFiniteSet(attempts[i]) /\ W \subseteq attempts[i]
          BY DEF WindowOK, InWindow
        <5> QED BY <5>1, FS_Subset
      <4>3. new \notin W
        BY <2>4 DEF InWindow
      <4>4. Cardinality(W \cup {new}) = Cardinality(W) + 1
        BY <4>2, <4>3, FS_AddElement
      <4>5. ~(Cardinality(W) >= MaxBurst)
        BY <1>2, PrunedIsWindow DEF Limited
      <4>6. Cardinality(W) \in Nat
        BY <4>2, FS_CardinalityType
      <4> QED BY <4>1, <4>4, <4>5, <4>6
    <3> QED BY <3>1, <3>2
  <2> QED BY <2>5, <2>6
<1> QED BY <1>1, <1>2

\* Steps that count nothing.
LEMMA QuietWindow ==
  ASSUME Typed, WindowOK, BurstCeiling, UNCHANGED <<now, stamps, attempts>>,
         logins' = logins \/ logins' = logins + 1
  PROVE  WindowOK' /\ BurstCeiling'
<1>1. BurstCeiling'
  BY DEF BurstCeiling
<1>2. \A i \in Id : \A a \in attempts[i] : a.n \in Nat
  BY DEF Typed, TypeOK
<1>3. logins \in Nat
  BY DEF Typed, TypeOK
<1>4. WindowOK'
  BY <1>2, <1>3 DEF WindowOK
<1> QED BY <1>1, <1>4

\* Time moves: the new last window holds no more than the one before it.
LEMMA TickWindow ==
  ASSUME Typed, WindowOK, BurstCeiling, Tick
  PROVE  WindowOK' /\ BurstCeiling'
<1> USE StoreAssumption
<1>0. now \in Nat /\ now >= Start /\ now' = now + 1 /\ UNCHANGED <<stamps, attempts, logins>>
  BY DEF Tick, Typed, TypeOK, entry, history
<1>1. \A i \in Id : \A a \in attempts[i] : a.at \in Nat
  BY DEF Typed, TypeOK
<1>2. WindowOK'
  BY <1>0, <1>1 DEF WindowOK
<1>3. BurstCeiling'
  <2> SUFFICES ASSUME NEW i \in Id, NEW t \in Start .. now + 1
               PROVE  Cardinality(InWindow(attempts[i], t)) <= MaxBurst
    BY <1>0 DEF BurstCeiling, InWindow
  <2>1. CASE t \in Start .. now
    BY <2>1 DEF BurstCeiling, InWindow
  <2>2. CASE t = now + 1
    <3> DEFINE W == InWindow(attempts[i], now)
    <3>1. InWindow(attempts[i], t) \subseteq W
      BY <1>0, <1>1, <2>2 DEF InWindow, WindowOK
    <3>2. IsFiniteSet(W)
      <4>1. IsFiniteSet(attempts[i]) /\ W \subseteq attempts[i]
        BY DEF WindowOK, InWindow
      <4> QED BY <4>1, FS_Subset
    <3>3. Cardinality(InWindow(attempts[i], t)) <= Cardinality(W)
      BY <3>1, <3>2, FS_Subset
    <3>4. Cardinality(W) <= MaxBurst
      BY <1>0 DEF BurstCeiling, InWindow, Start
    <3>5. Cardinality(W) \in Nat /\ Cardinality(InWindow(attempts[i], t)) \in Nat
      BY <3>1, <3>2, FS_Subset, FS_CardinalityType
    <3> QED BY <3>3, <3>4, <3>5
  <2> QED BY <1>0, <2>1, <2>2 DEF Start
<1> QED BY <1>2, <1>3

LEMMA WindowStep ==
  Typed /\ WindowOK /\ BurstCeiling /\ [AnyStep]_vars => WindowOK' /\ BurstCeiling'
<1> SUFFICES ASSUME Typed, WindowOK, BurstCeiling, [AnyStep]_vars PROVE WindowOK' /\ BurstCeiling'
  OBVIOUS
<1>1. ASSUME NEW c \in Caller, NEW i \in Id \cup Unmanaged, CallGet(c, i) \/ CallRefresh(c, i)
      PROVE  WindowOK' /\ BurstCeiling'
  BY <1>1, QuietWindow DEF CallGet, CallRefresh, entry, history
<1>2. ASSUME NEW c \in Caller, GetEnter(c)
      PROVE  WindowOK' /\ BurstCeiling'
  <2>1. want[c] \in Id /\ now' = now
    BY <1>2 DEF GetEnter, FlightFree, Typed, FlightOK, Waiting
  <2>2. CASE StartCounted(c, want[c], "renew")
    BY <2>1, <2>2, CountedWindow DEF Place
  <2>3. CASE UNCHANGED <<stamps, attempts>> /\ (logins' = logins \/ logins' = logins + 1)
    BY <2>1, <2>3, QuietWindow
  <2> QED BY <1>2, <2>2, <2>3 DEF GetEnter, FlightFree, StartLogin
<1>3. ASSUME NEW c \in Caller, RefreshEnter(c)
      PROVE  WindowOK' /\ BurstCeiling'
  <2>1. want[c] \in Id /\ now' = now
    BY <1>3 DEF RefreshEnter, FlightFree, Swapped, Typed, FlightOK, Waiting
  <2>2. CASE StartCounted(c, want[c], "recover")
    BY <2>1, <2>2, CountedWindow DEF Place
  <2>3. CASE UNCHANGED <<stamps, attempts, logins>>
    BY <2>1, <2>3, QuietWindow
  <2> QED BY <1>3, <2>2, <2>3 DEF RefreshEnter, FlightFree, Swapped
<1>4. ASSUME NEW c \in Caller, RecipeOk(c) \/ RecipeErr(c) \/ Return(c)
      PROVE  WindowOK' /\ BurstCeiling'
  BY <1>4, QuietWindow DEF RecipeOk, Unlock, RecipeErr, Return, entry, history
<1>5. CASE Tick
  BY <1>5, TickWindow
<1>6. CASE UNCHANGED vars
  BY <1>6, QuietWindow DEF vars, entry, history
<1> QED
  BY <1>1, <1>2, <1>3, <1>4, <1>5, <1>6
  DEF AnyStep, CallerStep

-----------------------------------------------------------------------------
(* The invariant.                                                          *)

LEMMA StoreInvInit == Init => StoreInv
BY TypeInit, ObjectsInit, MarkedInit, RecoveriesInit, DeadInit, WindowInit DEF StoreInv

LEMMA StoreInvStep == StoreInv /\ [AnyStep]_vars => StoreInv'
<1> SUFFICES ASSUME StoreInv, [AnyStep]_vars PROVE StoreInv'
  OBVIOUS
<1>1. Typed
  BY DEF StoreInv, Typed
<1> QED BY <1>1, TypeStep, FlightStep, ObjectsStep, MarkedStep, RecoveriesStep, DeadStep,
           WindowStep
        DEF StoreInv

\* The bookkeeping of every entry stays consistent (store.go:25-33, 45-86,
\* 135-228), with any number of callers, identities and failures.
THEOREM StoreSafe == Spec => []StoreInv
<1> QED BY StoreInvInit, StoreInvStep, NextIsAny, PTL DEF Spec

\* The backoff ceiling (rateLimited, store.go:74-86) holds in every window,
\* although the code prunes the stamps it compares with.
THEOREM BurstSafe == Spec => []BurstCeiling
<1>1. StoreInv => BurstCeiling
  BY DEF StoreInv
<1> QED BY <1>1, StoreSafe, PTL

\* At most one Refresh logs in for one session object (Refresh,
\* store.go:184-226), whether or not that login succeeds.
THEOREM SingleRecovery == Spec => []OneRecoveryPerSession
<1>1. StoreInv => OneRecoveryPerSession
  BY DEF StoreInv
<1> QED BY <1>1, StoreSafe, PTL

-----------------------------------------------------------------------------
(* What a caller is told.                                                  *)

\* The three ways a call ends with a session: it was usable, it was adopted, or
\* the caller's own login returned it.
LEMMA WaysToGet ==
  ASSUME StoreInv, [AnyStep]_vars, NEW c \in Caller, GetsSession(c)
  PROVE  /\ want'[c] \in Id
         /\ \/ res'[c].sess = session[want'[c]] /\ Usable(session[want'[c]])
               /\ pc[c] \in {"idle", "getWait"}
            \/ res'[c].sess = session[want'[c]] /\ pc[c] = "refreshWait"
               /\ session[want'[c]].ptr # before[c].ptr /\ want'[c] = want[c]
            \/ LoggingIn(c) /\ res'[c].sess.tok = login[c] /\ res'[c].sess.ptr = login[c]
               /\ want'[c] = want[c]
<1> USE DEF StoreInv, GetsSession
<1>0. /\ pc \in [Caller -> Place] /\ res \in [Caller -> Result]
      /\ want \in [Caller -> Id \cup Unmanaged \cup {NoId}]
  BY DEF TypeOK
<1>1. ASSUME NEW d \in Caller, NEW i \in Id \cup Unmanaged, CallGet(d, i)
      PROVE  c = d /\ i \in Id /\ want'[c] = i /\ res'[c].sess = session[i]
             /\ Usable(session[i]) /\ pc[c] = "idle"
  BY <1>0, <1>1 DEF CallGet, Finish, Goto, Answer, Ok, Place
<1>2. ASSUME NEW d \in Caller, NEW i \in Id \cup Unmanaged, CallRefresh(d, i)
      PROVE  FALSE
  BY <1>0, <1>2 DEF CallRefresh, Finish, Goto, Answer, Place
<1>3. ASSUME NEW d \in Caller, GetEnter(d)
      PROVE  c = d /\ want[c] \in Id /\ want' = want /\ res'[c].sess = session[want[c]]
             /\ Usable(session[want[c]]) /\ pc[c] = "getWait"
  <2>1. want[d] \in Id /\ want' = want /\ pc[d] = "getWait"
    BY <1>3 DEF GetEnter, FlightFree, FlightOK, Waiting
  <2>2. c = d
    BY <1>0, <1>3 DEF GetEnter, FlightFree, StartCounted, StartLogin, Finish, Goto
  <2>3. Usable(session[want[c]]) /\ res'[c] = Ok(session[want[c]])
    BY <1>0, <1>3, <2>2 DEF GetEnter, FlightFree, StartCounted, StartLogin, Finish, Goto, Answer, Place, Ok
  <2> QED BY <2>1, <2>2, <2>3 DEF Ok, Answer
<1>4. ASSUME NEW d \in Caller, RefreshEnter(d)
      PROVE  c = d /\ want[c] \in Id /\ want' = want /\ res'[c].sess = session[want[c]]
             /\ pc[c] = "refreshWait" /\ session[want[c]].ptr # before[c].ptr
  <2>1. want[d] \in Id /\ want' = want /\ pc[d] = "refreshWait"
    BY <1>4 DEF RefreshEnter, FlightFree, Swapped, FlightOK, Waiting
  <2>2. c = d
    BY <1>0, <1>4 DEF RefreshEnter, FlightFree, Swapped, StartCounted, StartLogin, Finish, Goto
  <2>3. session[want[c]].ptr # before[c].ptr /\ res'[c] = Ok(session[want[c]])
    BY <1>0, <1>4, <2>2 DEF RefreshEnter, FlightFree, Swapped, StartCounted, StartLogin, Finish, Goto, Answer, Place, Ok
  <2> QED BY <2>1, <2>2, <2>3 DEF Ok, Answer
<1>5. ASSUME NEW d \in Caller, RecipeOk(d)
      PROVE  c = d /\ want[c] \in Id /\ want' = want /\ LoggingIn(c)
             /\ res'[c].sess.tok = login[c] /\ res'[c].sess.ptr = login[c]
  <2>1. PICK s \in Session : s.ptr = login[d] /\ s.tok = login[d] /\ Finish(d, Ok(s))
    BY <1>5, OkCommits DEF Typed
  <2>2. want[d] \in Id /\ want' = want /\ LoggingIn(d)
    BY <1>5 DEF RecipeOk, Unlock, FlightOK
  <2>3. c = d
    BY <1>0, <2>1 DEF Finish
  <2> QED BY <1>0, <2>1, <2>2, <2>3 DEF Finish, Ok, Answer
<1>6. ASSUME NEW d \in Caller, RecipeErr(d) \/ Return(d)
      PROVE  FALSE
  BY <1>0, <1>6 DEF RecipeErr, Unlock, Return, Finish, Answer, Place
<1>7. ASSUME Tick \/ UNCHANGED vars
      PROVE  FALSE
  BY <1>7 DEF Tick, vars, call
<1> QED
  BY <1>1, <1>2, <1>3, <1>4, <1>5, <1>6, <1>7
  DEF AnyStep, CallerStep

\* Credentials a failed Refresh gave up are never handed out by a later Get
\* (store.go:211-217).
THEOREM DeadSafe == Spec => DeadNeverServed
<1>1. ASSUME StoreInv, [AnyStep]_vars, NEW c \in Caller, GetsSession(c), pc[c] # "refreshWait"
      PROVE  res'[c].sess.tok \notin dead[want'[c]]
  <2> DEFINE i == want'[c]
  <2>1. i \in Id
    BY <1>1, WaysToGet
  <2>2. \A t \in dead[i] : /\ t \in Nat /\ t <= session[i].tok
                           /\ t = session[i].tok => session[i].exp = Past
    BY <1>1, <2>1 DEF StoreInv, DeadOK, TypeOK
  <2>3. CASE res'[c].sess = session[i] /\ Usable(session[i])
    <3>1. session[i].exp # Past
      BY <1>1, <2>3 DEF Usable, Expired, Past, Unknown, Start, StoreInv, TypeOK
    <3> QED BY <2>2, <2>3, <3>1
  <2>4. CASE LoggingIn(c) /\ res'[c].sess.tok = login[c] /\ want'[c] = want[c]
    <3>1. session[i].tok <= session[i].ptr /\ session[i].ptr < login[c]
      BY <1>1, <2>1, <2>4 DEF StoreInv, ObjectsOK
    <3>2. session[i].tok \in Nat /\ session[i].ptr \in Nat /\ login[c] \in Nat
      BY <1>1, <2>1 DEF StoreInv, TypeOK, Session
    <3> QED BY <2>2, <2>4, <3>1, <3>2
  <2> QED BY <1>1, <2>3, <2>4, WaysToGet
<1>2. StoreInv /\ [Next]_vars =>
        [\A c \in Caller : GetsSession(c) /\ pc[c] # "refreshWait"
                             => res'[c].sess.tok \notin dead[want'[c]]]_vars
  BY <1>1, NextIsAny
<1> QED BY <1>2, StoreSafe, PTL DEF Spec, DeadNeverServed

\* A Refresh returns a session, and never an older one than its caller saw
\* (store.go:188-228).
THEOREM RefreshSafe == Spec => RefreshNeverRegresses
<1>1. ASSUME StoreInv, [AnyStep]_vars, NEW c \in Caller, GetsSession(c),
             pc[c] \in {"refreshWait", "recover"}
      PROVE  res'[c].sess # Nil /\ res'[c].sess.tok >= before[c].tok
  <2> DEFINE i == want'[c]
  <2>1. i \in Id /\ want'[c] \in Id
    BY <1>1, WaysToGet
  <2>2. /\ before[c].tok \in Nat /\ before[c].ptr \in Nat /\ login[c] \in Nat
        /\ session[i].tok \in Nat /\ session[i].ptr \in Nat
    BY <1>1, <2>1 DEF StoreInv, TypeOK, Session
  <2>3. CASE /\ res'[c].sess = session[i] /\ pc[c] = "refreshWait"
             /\ session[i].ptr # before[c].ptr /\ i = want[c]
    <3>1. NotNewer(before[c], session[i])
      BY <1>1, <2>3 DEF StoreInv, ObjectsOK
    <3>2. session[i].ptr > 0 /\ session[i].tok >= before[c].tok
      BY <2>2, <2>3, <3>1 DEF NotNewer
    <3>3. session[i] # Nil
      BY <3>2 DEF Nil
    <3> QED BY <2>3, <3>2, <3>3
  <2>4. CASE /\ LoggingIn(c) /\ res'[c].sess.tok = login[c] /\ res'[c].sess.ptr = login[c]
             /\ i = want[c]
    <3>1. before[c] = session[i]
      BY <1>1, <2>4 DEF LoggingIn, StoreInv, ObjectsOK
    <3>2. session[i].tok <= session[i].ptr /\ session[i].ptr < login[c]
      BY <1>1, <2>1, <2>4 DEF StoreInv, ObjectsOK
    <3>3. login[c] > 0 /\ login[c] >= before[c].tok
      BY <2>2, <3>1, <3>2
    <3>4. res'[c].sess # Nil
      BY <2>4, <3>3 DEF Nil
    <3> QED BY <2>4, <3>3, <3>4
  <2> QED BY <1>1, <2>3, <2>4, WaysToGet
<1>2. StoreInv /\ [Next]_vars =>
        [\A c \in Caller : GetsSession(c) /\ pc[c] \in {"refreshWait", "recover"}
           => res'[c].sess # Nil /\ res'[c].sess.tok >= before[c].tok]_vars
  BY <1>1, NextIsAny
<1> QED BY <1>2, StoreSafe, PTL DEF Spec, RefreshNeverRegresses

\* A Refresh that waited behind another one takes over a renewal, or the copy that a
\* failure marked (store.go:184-187 and 211-222).
THEOREM AdoptSafe == Spec => AdoptsFreshOrMarked
<1>1. ASSUME StoreInv, [AnyStep]_vars, NEW c \in Caller, GetsSession(c),
             pc[c] \in {"refreshWait", "recover"}
      PROVE  res'[c].sess.tok # before[c].tok \/ res'[c].sess.exp = Past
  <2> DEFINE i == want'[c]
  <2>1. i \in Id
    BY <1>1, WaysToGet
  <2>2. CASE /\ res'[c].sess = session[i] /\ pc[c] = "refreshWait"
             /\ session[i].ptr # before[c].ptr /\ i = want[c]
    BY <1>1, <2>2 DEF StoreInv, MarkedOK
  <2>3. CASE LoggingIn(c) /\ res'[c].sess.tok = login[c] /\ i = want[c]
    <3>1. /\ before[c] = session[i] /\ session[i].tok <= session[i].ptr
          /\ session[i].ptr < login[c]
      BY <1>1, <2>1, <2>3 DEF LoggingIn, StoreInv, ObjectsOK
    <3>2. session[i].tok \in Nat /\ session[i].ptr \in Nat /\ login[c] \in Nat
      BY <1>1, <2>1 DEF StoreInv, TypeOK, Session
    <3> QED BY <2>3, <3>1, <3>2
  <2> QED BY <1>1, <2>2, <2>3, WaysToGet
<1>2. StoreInv /\ [Next]_vars =>
        [\A c \in Caller : GetsSession(c) /\ pc[c] \in {"refreshWait", "recover"}
           => res'[c].sess.tok # before[c].tok \/ res'[c].sess.exp = Past]_vars
  BY <1>1, NextIsAny
<1> QED BY <1>2, StoreSafe, PTL DEF Spec, AdoptsFreshOrMarked

\* The session of an identity stays, gives way to a later one, or is marked.
LEMMA SessionMoves ==
  ASSUME StoreInv, [AnyStep]_vars, NEW i \in Id
  PROVE  \/ session'[i] = session[i]
         \/ session'[i].tok > session[i].tok
         \/ session'[i].tok = session[i].tok /\ session'[i].exp = Past
<1>0. /\ session[i].tok \in Nat /\ session[i].ptr \in Nat /\ Typed /\ ObjectsOK
      /\ session \in [Id -> Session]
  BY DEF StoreInv, Typed, TypeOK, Session
<1>2. ASSUME NEW c \in Caller, RecipeOk(c)
      PROVE  session'[i] = session[i] \/ session'[i].tok > session[i].tok
  <2>1. PICK s \in Session : s.tok = login[c] /\ session' = [session EXCEPT ![want[c]] = s]
    BY <1>0, <1>2, OkCommits
  <2>2. CASE i = want[c]
    <3>1. session'[i].tok = login[c] /\ login[c] \in Nat
      BY <1>0, <2>1, <2>2 DEF Typed, TypeOK
    <3>2. session[i].tok <= session[i].ptr /\ session[i].ptr < login[c]
      BY <1>0, <1>2, <2>2 DEF ObjectsOK, RecipeOk
    <3> QED BY <1>0, <3>1, <3>2
  <2>3. CASE i # want[c]
    BY <1>0, <2>1, <2>3
  <2> QED BY <2>2, <2>3
<1>3. ASSUME NEW c \in Caller, RecipeErr(c)
      PROVE  \/ session'[i] = session[i]
             \/ session'[i].tok = session[i].tok /\ session'[i].exp = Past
  <2>1. CASE ~UNCHANGED session
    <3>1. /\ before[c] = session[want[c]]
          /\ session' = [session EXCEPT ![want[c]] = StaleCopy(before[c], login[c])]
      BY <1>0, <1>3, <2>1, ErrLeaves
    <3>2. /\ StaleCopy(before[c], login[c]).tok = before[c].tok
          /\ StaleCopy(before[c], login[c]).exp = Past
      BY DEF StaleCopy, Session, StoreInv, TypeOK
    <3> QED BY <1>0, <3>1, <3>2
  <2> QED BY <2>1
<1>4. ASSUME NEW c \in Caller,
             \/ \E j \in Id \cup Unmanaged : CallGet(c, j) \/ CallRefresh(c, j)
             \/ GetEnter(c) \/ RefreshEnter(c) \/ Return(c)
      PROVE  UNCHANGED session
  BY <1>4 DEF CallGet, CallRefresh, GetEnter, RefreshEnter, Return, entry
<1>5. ASSUME Tick \/ UNCHANGED vars PROVE UNCHANGED session
  BY <1>5 DEF Tick, vars, entry
<1> QED BY <1>2, <1>3, <1>4, <1>5 DEF AnyStep, CallerStep

\* The credentials of an identity are only replaced by later ones: logins of one
\* identity never overtake each other (flightMu).
THEOREM MonotoneSafe == Spec => SessionMonotone
<1>1. ASSUME StoreInv, [Next]_vars, NEW i \in Id
      PROVE  session'[i].tok >= session[i].tok
  <2>1. session[i].tok \in Nat /\ StoreInv'
    BY <1>1, StoreInvStep, NextIsAny DEF StoreInv, TypeOK, Session
  <2>2. session'[i].tok \in Nat
    BY <2>1 DEF StoreInv, TypeOK, Session
  <2> QED BY <1>1, <2>1, <2>2, SessionMoves, NextIsAny
<1>2. StoreInv /\ [Next]_vars => [\A i \in Id : session'[i].tok >= session[i].tok]_vars
  BY <1>1
<1> QED BY <1>2, StoreSafe, PTL DEF Spec, SessionMonotone

-----------------------------------------------------------------------------
(* What survives the end of the process.                                   *)

LEMMA LastingInit == Init => LastingInv
<1> SUFFICES ASSUME Init PROVE LastingInv
  OBVIOUS
<1>1. GivenUpOK
  BY DEF Init, GivenUpOK, LoggingIn
<1> QED BY <1>1, TypeInit, ObjectsInit DEF LastingInv

\* A step that stores no session and gives none up, and starts logins only with
\* fresh numbers.
LEMMA QuietGivenUp ==
  ASSUME Typed, GivenUpOK, UNCHANGED <<session, dead>>, logins' \in Nat, logins <= logins',
         \A c \in Caller : LoggingIn(c)' =>
           \/ LoggingIn(c) /\ want'[c] = want[c] /\ login'[c] = login[c]
           \/ login'[c] = logins + 1
  PROVE  GivenUpOK'
<1>1. logins \in Nat
  BY DEF Typed, TypeOK
<1>2. ASSUME NEW i \in Id, NEW t \in dead[i], NEW c \in Caller, LoggingIn(c)', want'[c] = i
      PROVE  t < login'[c]
  <2>1. t \in Nat /\ t <= logins
    BY <1>1 DEF GivenUpOK
  <2>2. CASE LoggingIn(c) /\ want'[c] = want[c] /\ login'[c] = login[c]
    BY <1>2, <2>2 DEF GivenUpOK
  <2>3. CASE login'[c] = logins + 1
    BY <1>1, <2>1, <2>3
  <2> QED BY <1>2, <2>2, <2>3
<1>3. \A i \in Id : \A t \in dead[i] : t \in 1 .. logins'
  BY <1>1 DEF GivenUpOK
<1> QED BY <1>2, <1>3 DEF GivenUpOK

\* Every step but the end of a recipe call is such a step.
LEMMA QuietStep ==
  ASSUME Typed, [AnyStep]_vars, \A c \in Caller : ~RecipeOk(c) /\ ~RecipeErr(c)
  PROVE  /\ UNCHANGED <<session, dead>>
         /\ logins' \in Nat /\ logins <= logins'
         /\ \A c \in Caller : LoggingIn(c)' =>
              \/ LoggingIn(c) /\ want'[c] = want[c] /\ login'[c] = login[c]
              \/ login'[c] = logins + 1
<1> DEFINE Goal == /\ UNCHANGED <<session, dead>>
                   /\ logins' \in Nat /\ logins <= logins'
                   /\ \A c \in Caller : LoggingIn(c)' =>
                        \/ LoggingIn(c) /\ want'[c] = want[c] /\ login'[c] = login[c]
                        \/ login'[c] = logins + 1
<1>0. logins \in Nat /\ pc \in [Caller -> Place]
      /\ want \in [Caller -> Id \cup Unmanaged \cup {NoId}]
      /\ login \in [Caller -> Nat]
  BY DEF Typed, TypeOK
<1>1. ASSUME NEW c \in Caller, NEW i \in Id \cup Unmanaged, CallGet(c, i) \/ CallRefresh(c, i)
      PROVE  Goal
  <2>1. UNCHANGED <<session, dead, logins, login>>
    BY <1>1 DEF CallGet, CallRefresh, entry, history
  <2>2. pc'[c] \in {"getWait", "refreshWait", "returned"}
        /\ \A d \in Caller \ {c} : pc'[d] = pc[d] /\ want'[d] = want[d]
    BY <1>0, <1>1 DEF CallGet, CallRefresh, Finish, Goto
  <2>3. \A d \in Caller : LoggingIn(d)' => LoggingIn(d) /\ want'[d] = want[d]
    BY <2>2 DEF LoggingIn
  <2> QED BY <1>0, <2>1, <2>3
<1>2. ASSUME NEW c \in Caller, Return(c)
      PROVE  Goal
  <2>1. UNCHANGED <<session, dead, logins>>
    BY <1>2 DEF Return, entry, history
  <2>2. pc'[c] = "idle"
        /\ \A d \in Caller \ {c} : pc'[d] = pc[d] /\ want'[d] = want[d] /\ login'[d] = login[d]
    BY <1>0, <1>2 DEF Return
  <2>3. \A d \in Caller : LoggingIn(d)' =>
          LoggingIn(d) /\ want'[d] = want[d] /\ login'[d] = login[d]
    BY <2>2 DEF LoggingIn
  <2> QED BY <1>0, <2>1, <2>3
<1>3. ASSUME Tick \/ UNCHANGED vars PROVE Goal
  <2>1. UNCHANGED <<session, dead, logins, pc, want, login>>
    BY <1>3 DEF Tick, vars, entry, call, history
  <2> QED BY <1>0, <2>1 DEF LoggingIn
<1>4. ASSUME NEW c \in Caller, GetEnter(c) \/ RefreshEnter(c)
      PROVE  Goal
  <2>1. UNCHANGED <<session, dead, want>>
    BY <1>4 DEF GetEnter, RefreshEnter
  <2>2. \/ UNCHANGED <<logins, login>> /\ pc' = [pc EXCEPT ![c] = "returned"]
        \/ /\ logins' = logins + 1
           /\ login' = [login EXCEPT ![c] = logins + 1]
           /\ \A d \in Caller \ {c} : pc'[d] = pc[d]
    <3>1. CASE GetEnter(c)
      BY <1>0, <3>1 DEF GetEnter, StartCounted, StartLogin, Finish, Goto
    <3>2. CASE RefreshEnter(c)
      BY <1>0, <3>2 DEF RefreshEnter, StartCounted, StartLogin, Finish, Goto
    <3> QED BY <1>4, <3>1, <3>2
  <2>3. logins' \in Nat /\ logins <= logins'
    BY <1>0, <2>2
  <2>4. \A d \in Caller : LoggingIn(d)' =>
          (LoggingIn(d) /\ login'[d] = login[d]) \/ login'[d] = logins + 1
    BY <1>0, <2>2 DEF LoggingIn
  <2> QED BY <2>1, <2>3, <2>4
<1> QED BY <1>1, <1>2, <1>3, <1>4 DEF AnyStep, CallerStep

\* The recipe call of c ends: what it stores is newer than anything given up, and
\* what it gives up is what was stored, marked.
LEMMA OkGivenUp ==
  ASSUME Typed, ObjectsOK, GivenUpOK, NEW c \in Caller, RecipeOk(c)
  PROVE  GivenUpOK'
<1>1. PICK s \in Session : /\ s.tok = login[c]
                           /\ session' = [session EXCEPT ![want[c]] = s]
                           /\ Finish(c, Ok(s))
  BY OkCommits
<1>2. LoggingIn(c) /\ want[c] \in Id /\ UNCHANGED <<dead, logins, want, login>>
  BY DEF RecipeOk, Unlock, Typed, FlightOK, history
<1>3. login[c] \in Nat /\ login[c] # 0 /\ logins \in Nat
  BY <1>2 DEF ObjectsOK, Typed, TypeOK, Session
<1>4. \A d \in Caller : LoggingIn(d)' => LoggingIn(d)
  BY <1>1 DEF LoggingIn, Finish, Typed, TypeOK
<1>5. ASSUME NEW j \in Id
      PROVE  /\ session'[j].tok = 0 => session'[j] = Nil
             /\ \A t \in dead[j] : t = session'[j].tok => session'[j].exp = Past
  <2>1. CASE j = want[c]
    <3>1. session'[j] = s
      BY <1>1, <2>1 DEF Typed, TypeOK
    <3>2. \A t \in dead[j] : t \in Nat /\ t < login[c]
      BY <1>2, <1>3, <2>1 DEF GivenUpOK
    <3> QED BY <1>1, <1>3, <3>1, <3>2
  <2>2. CASE j # want[c]
    <3>1. session'[j] = session[j]
      BY <1>1, <2>2 DEF Typed, TypeOK
    <3> QED BY <3>1 DEF GivenUpOK
  <2> QED BY <2>1, <2>2
<1> QED BY <1>2, <1>4, <1>5 DEF GivenUpOK

LEMMA ErrGivenUp ==
  ASSUME Typed, ObjectsOK, GivenUpOK, NEW c \in Caller, RecipeErr(c)
  PROVE  GivenUpOK'
<1>1. LoggingIn(c) /\ want[c] \in Id /\ UNCHANGED <<logins, want, login>>
  BY DEF RecipeErr, Unlock, Typed, FlightOK
<1>2. pc' = [pc EXCEPT ![c] = "returned"]
  BY DEF RecipeErr, Finish
<1>3. \A d \in Caller : LoggingIn(d)' => LoggingIn(d) /\ d # c
  BY <1>2 DEF LoggingIn, Typed, TypeOK
<1>4. logins \in Nat
  BY DEF Typed, TypeOK
<1>5. CASE UNCHANGED <<session, dead>>
  BY <1>1, <1>3, <1>4, <1>5, QuietGivenUp
<1>6. CASE ~UNCHANGED <<session, dead>>
  <2> DEFINE s == StaleCopy(before[c], login[c])
  <2>1. /\ before[c] = session[want[c]] /\ s \in Session /\ before[c] # Nil
        /\ session' = [session EXCEPT ![want[c]] = s]
        /\ dead' = [dead EXCEPT ![want[c]] = @ \cup {before[c].tok}]
    BY <1>6, ErrLeaves DEF RecipeErr
  <2>2. s.tok = before[c].tok /\ s.exp = Past /\ before[c].tok \in Nat
    BY DEF StaleCopy, Typed, TypeOK, Session
  <2>3. before[c].tok \in 1 .. logins
    <3>1. before[c].tok # 0
      BY <1>1, <2>1 DEF GivenUpOK
    <3>2. session[want[c]].tok <= logins
      BY <1>1, <1>4 DEF ObjectsOK, Typed, TypeOK, Session
    <3> QED BY <1>4, <2>1, <2>2, <3>1, <3>2
  <2> HIDE DEF s
  <2> SUFFICES ASSUME NEW j \in Id
               PROVE  /\ session'[j].tok = 0 => session'[j] = Nil
                      /\ \A t \in dead'[j] :
                           /\ t \in 1 .. logins
                           /\ t = session'[j].tok => session'[j].exp = Past
                           /\ \A d \in Caller : LoggingIn(d)' /\ want[d] = j => t < login[d]
    BY <1>1 DEF GivenUpOK
  <2>4. CASE j # want[c]
    <3>1. session'[j] = session[j] /\ dead'[j] = dead[j]
      BY <2>1, <2>4 DEF Typed, TypeOK
    <3> QED BY <1>3, <3>1 DEF GivenUpOK
  <2>5. CASE j = want[c]
    <3>1. session'[j] = s /\ dead'[j] = dead[j] \cup {before[c].tok}
      BY <2>1, <2>5 DEF Typed, TypeOK
    <3>2. \A d \in Caller : LoggingIn(d)' => want[d] # j
      BY <1>1, <1>3, <2>5 DEF Typed, FlightOK
    <3> QED BY <2>2, <2>3, <3>1, <3>2 DEF GivenUpOK
  <2> QED BY <2>4, <2>5
<1> QED BY <1>5, <1>6

LEMMA GivenUpStep == Typed /\ ObjectsOK /\ GivenUpOK /\ [AnyStep]_vars => GivenUpOK'
<1> SUFFICES ASSUME Typed, ObjectsOK, GivenUpOK, [AnyStep]_vars PROVE GivenUpOK'
  OBVIOUS
<1>1. CASE \A c \in Caller : ~RecipeOk(c) /\ ~RecipeErr(c)
  BY <1>1, QuietStep, QuietGivenUp
<1> QED BY <1>1, OkGivenUp, ErrGivenUp

\* The end of the process, with every call and session in it.
LEMMA ForgetLasting == LastingInv /\ Forget => LastingInv'
<1> SUFFICES ASSUME LastingInv, Forget PROVE LastingInv'
  OBVIOUS
<1> USE DEF Forget, EmptyStore, CallsDropped, history
<1>1. TypeOK'
  BY NilSession, AnswerResult, StoreAssumption
     DEF LastingInv, TypeOK, NoAnswer, Kind, Place, Unknown
<1>2. FlightOK'
  BY DEF FlightOK, Waiting, LoggingIn
<1>3. ObjectsOK'
  BY DEF LastingInv, TypeOK, ObjectsOK, LoggingIn, Nil
<1>4. GivenUpOK'
  <2>1. \A i \in Id : dead'[i] = dead[i] /\ session'[i] = Nil
    OBVIOUS
  <2>2. \A i \in Id : \A t \in dead[i] : t \in 1 .. logins /\ t # 0
    BY DEF LastingInv, GivenUpOK, TypeOK
  <2>3. Nil.tok = 0 /\ \A c \in Caller : ~LoggingIn(c)'
    BY DEF Nil, LoggingIn
  <2> QED BY <2>1, <2>2, <2>3 DEF GivenUpOK
<1> QED BY <1>1, <1>2, <1>3, <1>4 DEF LastingInv

LEMMA LastingStep == LastingInv /\ [AnyStep \/ Forget]_vars => LastingInv'
<1> SUFFICES ASSUME LastingInv, [AnyStep \/ Forget]_vars PROVE LastingInv'
  OBVIOUS
<1>1. CASE Forget
  BY <1>1, ForgetLasting
<1>2. CASE [AnyStep]_vars
  BY <1>2, TypeStep, FlightStep, ObjectsStep, GivenUpStep DEF LastingInv, Typed
<1> QED BY <1>1, <1>2
-----------------------------------------------------------------------------
(* SessionStore implements SessionAuthority: under the mapping at the end  *)
(* of SessionStore every step of the store is a step of the authority, or  *)
(* leaves what the authority sees alone.                                   *)

\* What a caller has been told fits where it is: an idle one asks for nothing, one
\* inside a call was told nothing yet, one that returned was told something.
ToldOK ==
  \A c \in Caller :
    /\ pc[c] = "idle" => want[c] = NoId
    /\ pc[c] # "returned" => res[c] = NoAnswer
    /\ pc[c] = "returned" => res[c].kind # "none"

\* An object without credentials or expiry is no session: the authority, which does
\* not see pointers, takes nothing that is stored for None.
HeldOK == \A i \in Id : Material(session[i]) = Material(Nil) => session[i] = Nil

RefinementInv == StoreInv /\ ToldOK /\ HeldOK

-----------------------------------------------------------------------------
(* The invariant behind the mapping.                                       *)

LEMMA RefinementInit == Init => RefinementInv
<1> SUFFICES ASSUME Init PROVE RefinementInv
  OBVIOUS
<1>1. StoreInv
  BY StoreInvInit
<1>2. ToldOK
  BY DEF Init, ToldOK
<1>3. HeldOK
  BY DEF Init, HeldOK
<1> QED BY <1>1, <1>2, <1>3 DEF RefinementInv

\* A caller that moves on without an answer, and one that gets its answer.
LEMMA GotoTold ==
  ASSUME TypeOK, ToldOK, NEW c \in Caller, NEW where \in Place \ {"idle", "returned"},
         Goto(c, where), pc[c] # "returned", \A d \in Caller \ {c} : want'[d] = want[d]
  PROVE  ToldOK'
BY DEF TypeOK, ToldOK, Goto

LEMMA FinishTold ==
  ASSUME TypeOK, ToldOK, NEW c \in Caller, NEW kind \in Kind \ {"none"}, NEW s \in Session,
         Finish(c, Answer(kind, s)), \A d \in Caller \ {c} : want'[d] = want[d]
  PROVE  ToldOK'
BY DEF TypeOK, ToldOK, Finish, Answer

LEMMA ToldStep == Typed /\ ToldOK /\ [AnyStep]_vars => ToldOK'
<1> SUFFICES ASSUME Typed, ToldOK, [AnyStep]_vars PROVE ToldOK'
  OBVIOUS
<1> USE DEF Typed
<1>0. want \in [Caller -> Id \cup Unmanaged \cup {NoId}]
  BY DEF TypeOK
<1>1. ASSUME NEW c \in Caller, NEW i \in Id \cup Unmanaged, CallGet(c, i)
      PROVE  ToldOK'
  <2>1. pc[c] = "idle" /\ \A d \in Caller \ {c} : want'[d] = want[d]
    BY <1>0, <1>1 DEF CallGet
  <2>2. CASE i \notin Id
    BY <1>1, <2>1, <2>2, FinishTold, NilSession DEF CallGet, Kind
  <2>3. CASE i \in Id /\ Usable(session[i])
    <3>1. Finish(c, Answer("ok", session[i])) /\ session[i] \in Session
      BY <1>1, <2>3 DEF CallGet, Ok, TypeOK
    <3> QED BY <2>1, <3>1, FinishTold DEF Kind
  <2>4. CASE i \in Id /\ ~Usable(session[i])
    BY <1>1, <2>1, <2>4, GotoTold DEF CallGet, Place
  <2> QED BY <2>2, <2>3, <2>4
<1>2. ASSUME NEW c \in Caller, NEW i \in Id \cup Unmanaged, CallRefresh(c, i)
      PROVE  ToldOK'
  <2>1. pc[c] = "idle" /\ \A d \in Caller \ {c} : want'[d] = want[d]
    BY <1>0, <1>2 DEF CallRefresh
  <2>2. CASE i \notin Id
    BY <1>2, <2>1, <2>2, FinishTold, NilSession DEF CallRefresh, Kind
  <2>3. CASE i \in Id
    BY <1>2, <2>1, <2>3, GotoTold DEF CallRefresh, Place
  <2> QED BY <2>2, <2>3
<1>3. ASSUME NEW c \in Caller, GetEnter(c) \/ RefreshEnter(c)
      PROVE  ToldOK'
  <2>1. want' = want /\ want[c] \in Id /\ pc[c] # "returned" /\ session[want[c]] \in Session
    BY <1>3 DEF GetEnter, RefreshEnter, FlightOK, Waiting, TypeOK
  <2>2. \/ Finish(c, Answer("ok", session[want[c]]))
        \/ Finish(c, Answer("limited", Nil))
        \/ \E where \in {"establish", "renew", "recover"} : Goto(c, where)
    BY <1>3 DEF GetEnter, RefreshEnter, StartCounted, StartLogin, Ok
  <2> QED BY <2>1, <2>2, FinishTold, GotoTold, NilSession DEF Kind, Place
<1>4. ASSUME NEW c \in Caller, RecipeOk(c) \/ RecipeErr(c)
      PROVE  ToldOK'
  <2>1. want' = want
    BY <1>4 DEF RecipeOk, RecipeErr
  <2>2. CASE RecipeOk(c)
    <3>1. PICK secs \in Lifetimes :
            Finish(c, Answer("ok", [ptr |-> login[c], tok |-> login[c],
                                    exp |-> ExpiresAt(secs, now)]))
      BY <2>2 DEF RecipeOk, Ok
    <3>2. [ptr |-> login[c], tok |-> login[c], exp |-> ExpiresAt(secs, now)] \in Session
      BY NewSession DEF TypeOK
    <3> QED BY <2>1, <3>1, <3>2, FinishTold DEF Kind
  <2>3. CASE RecipeErr(c)
    BY <2>1, <2>3, FinishTold, NilSession DEF RecipeErr, Kind
  <2> QED BY <1>4, <2>2, <2>3
<1>5. ASSUME NEW c \in Caller, Return(c)
      PROVE  ToldOK'
  BY <1>5 DEF Return, ToldOK, TypeOK
<1>6. CASE Tick \/ UNCHANGED vars
  BY <1>6 DEF Tick, vars, call, ToldOK
<1> QED
  BY <1>1, <1>2, <1>3, <1>4, <1>5, <1>6 DEF AnyStep, CallerStep

LEMMA HeldStep == Typed /\ ObjectsOK /\ HeldOK /\ [AnyStep]_vars => HeldOK'
<1> SUFFICES ASSUME Typed, ObjectsOK, HeldOK, [AnyStep]_vars PROVE HeldOK'
  OBVIOUS
<1> USE DEF Typed
<1>1. CASE session' = session
  BY <1>1 DEF HeldOK
<1>2. ASSUME NEW c \in Caller, RecipeOk(c)
      PROVE  HeldOK'
  <2>1. PICK s \in Session : /\ s.tok = login[c]
                            /\ session' = [session EXCEPT ![want[c]] = s]
    BY <1>2, OkCommits
  <2>2. want[c] \in Id /\ login[c] > 0
    BY <1>2 DEF RecipeOk, FlightOK, ObjectsOK, LoggingIn, TypeOK, Session
  <2> QED BY <2>1, <2>2 DEF HeldOK, Material, Nil, TypeOK
<1>3. ASSUME NEW c \in Caller, RecipeErr(c)
      PROVE  HeldOK'
  <2>1. CASE session' = [session EXCEPT ![want[c]] = StaleCopy(before[c], login[c])]
    BY <2>1 DEF HeldOK, Material, Nil, StaleCopy, Past, Unknown, TypeOK, Session
  <2> QED BY <1>1, <1>3, <2>1, ErrLeaves
<1> QED
  BY <1>1, <1>2, <1>3
  DEF AnyStep, CallerStep, CallGet, CallRefresh, GetEnter, RefreshEnter, Return, Tick,
      entry, vars

LEMMA RefinementStep == RefinementInv /\ [Next]_vars => RefinementInv'
<1> SUFFICES ASSUME RefinementInv, [Next]_vars PROVE RefinementInv'
  OBVIOUS
<1>1. [AnyStep]_vars
  BY NextIsAny
<1>2. Typed /\ ObjectsOK /\ StoreInv /\ ToldOK /\ HeldOK
  BY DEF RefinementInv, StoreInv, Typed
<1> QED BY <1>1, <1>2, StoreInvStep, ToldStep, HeldStep DEF RefinementInv

-----------------------------------------------------------------------------
(* The initial states, and the steps one by one.                           *)

LEMMA AuthorityInit == Init => Authority!Init
BY DEF Init, Authority!Init, Start, Material, Nil, NoAnswer, Answer, Unknown,
       Authority!None, Authority!Unknown, Authority!Pending, Authority!Tell

\* What the authority sees.
HeldSeen == [i \in Id |-> Material(session[i])]
ToldSeen == [c \in Caller |-> [kind |-> res[c].kind, sess |-> Material(res[c].sess)]]

LEMMA FinishTells ==
  ASSUME res \in [Caller -> Result], NEW c \in Caller, NEW kind, NEW s,
         Finish(c, Answer(kind, s))
  PROVE  ToldSeen' = [ToldSeen EXCEPT ![c] = Authority!Tell(kind, Material(s))]
<1>1. res' = [res EXCEPT ![c] = Answer(kind, s)]
  BY DEF Finish
<1>2. ASSUME NEW d \in Caller, d # c PROVE ToldSeen'[d] = ToldSeen[d]
  BY <1>1, <1>2 DEF ToldSeen
<1>3. ToldSeen'[c] = Authority!Tell(kind, Material(s))
  BY <1>1 DEF ToldSeen, Answer, Authority!Tell
<1>4. ToldSeen' = [d \in Caller |-> ToldSeen'[d]] /\ ToldSeen = [d \in Caller |-> ToldSeen[d]]
  BY DEF ToldSeen
<1> QED BY <1>2, <1>3, <1>4

LEMMA GotoTells ==
  ASSUME NEW c \in Caller, NEW where, Goto(c, where)
  PROVE  ToldSeen' = ToldSeen
BY DEF Goto, ToldSeen

\* The authority holds a session exactly when the store does.
LEMMA HeldIs ==
  ASSUME session \in [Id -> Session], HeldOK, NEW i \in Id
  PROVE  /\ HeldSeen[i] = Material(session[i])
         /\ HeldSeen[i] = Authority!None <=> session[i] = Nil
BY DEF HeldOK, HeldSeen, Material, Nil, Unknown, Authority!None, Authority!Unknown

LEMMA NoMaterial == Material(Nil) = Authority!None
BY DEF Material, Nil, Unknown, Authority!None, Authority!Unknown

LEMMA GetAsks ==
  ASSUME RefinementInv, NEW c \in Caller, NEW i \in Id \cup Unmanaged, CallGet(c, i)
  PROVE  Authority!Ask(c, i)
<1>0. res \in [Caller -> Result] /\ session \in [Id -> Session] /\ HeldOK
  BY DEF RefinementInv, StoreInv, TypeOK
<1>1. want[c] = NoId /\ want' = [want EXCEPT ![c] = i]
  BY DEF CallGet, ToldOK, RefinementInv
<1>2. UNCHANGED <<now, session, flight, logins, login, attempts>>
  BY DEF CallGet, entry, history
<1>3. HeldSeen' = HeldSeen
  BY <1>2 DEF HeldSeen
<1>4. CASE i \notin Id
  <2>1. ToldSeen' = [ToldSeen EXCEPT ![c] = Authority!Tell("unknown", Authority!None)]
    BY <1>0, <1>4, FinishTells, NoMaterial DEF CallGet
  <2> QED BY <1>1, <1>2, <1>3, <1>4, <2>1 DEF Authority!Ask, HeldSeen, ToldSeen
<1>5. CASE i \in Id /\ Usable(session[i])
  <2>1. Finish(c, Answer("ok", session[i])) /\ session[i] # Nil
    BY <1>5 DEF CallGet, Ok, Usable
  <2>2. ToldSeen' = [ToldSeen EXCEPT ![c] = Authority!Tell("ok", HeldSeen[i])]
    BY <1>0, <1>5, <2>1, FinishTells, HeldIs
  <2>3. HeldSeen[i] # Authority!None
    BY <1>0, <1>5, <2>1, HeldIs
  <2> QED BY <1>1, <1>2, <1>3, <1>5, <2>2, <2>3 DEF Authority!Ask, HeldSeen, ToldSeen
<1>6. CASE i \in Id /\ ~Usable(session[i])
  <2>1. ToldSeen' = ToldSeen
    BY <1>6, GotoTells DEF CallGet
  <2> QED BY <1>1, <1>2, <1>3, <2>1 DEF Authority!Ask, HeldSeen, ToldSeen
<1> QED BY <1>4, <1>5, <1>6

LEMMA RefreshAsks ==
  ASSUME RefinementInv, NEW c \in Caller, NEW i \in Id \cup Unmanaged, CallRefresh(c, i)
  PROVE  Authority!Ask(c, i)
<1>0. res \in [Caller -> Result]
  BY DEF RefinementInv, StoreInv, TypeOK
<1>1. want[c] = NoId /\ want' = [want EXCEPT ![c] = i]
  BY DEF CallRefresh, ToldOK, RefinementInv
<1>2. UNCHANGED <<now, session, flight, logins, login, attempts>>
  BY DEF CallRefresh, entry, history
<1>3. HeldSeen' = HeldSeen
  BY <1>2 DEF HeldSeen
<1>4. CASE i \notin Id
  <2>1. ToldSeen' = [ToldSeen EXCEPT ![c] = Authority!Tell("unknown", Authority!None)]
    BY <1>0, <1>4, FinishTells, NoMaterial DEF CallRefresh
  <2> QED BY <1>1, <1>2, <1>3, <1>4, <2>1 DEF Authority!Ask, HeldSeen, ToldSeen
<1>5. CASE i \in Id
  <2>1. ToldSeen' = ToldSeen
    BY <1>5, GotoTells DEF CallRefresh
  <2> QED BY <1>1, <1>2, <1>3, <2>1 DEF Authority!Ask, HeldSeen, ToldSeen
<1> QED BY <1>4, <1>5

\* A caller inside a call has an open question.
LEMMA InCallOpen ==
  ASSUME RefinementInv, NEW c \in Caller, Waiting(c) \/ LoggingIn(c)
  PROVE  want[c] \in Id /\ Authority!Open(c)
<1>1. want[c] \in Id /\ res[c] = NoAnswer
  BY DEF RefinementInv, StoreInv, FlightOK, ToldOK, Waiting, LoggingIn
<1>2. ToldSeen[c] = Authority!Pending
  BY <1>1 DEF ToldSeen, NoAnswer, Answer, Material, Nil, Unknown, Authority!Pending,
              Authority!Tell, Authority!None, Authority!Unknown
<1> QED BY <1>1, <1>2 DEF Authority!Open, ToldSeen

\* What the store remembers of an identity's attempts is all that lie in the window.
LEMMA WindowsAgree ==
  ASSUME WindowOK, TypeOK, NEW i \in Id
  PROVE  Recent(stamps[i]) = Authority!InWindow(i)
BY StoreAssumption DEF WindowOK, TypeOK, Recent, Authority!InWindow

\* The authority counts with the same Cardinality.
LEMMA SameCardinality ==
  ASSUME NEW S
  PROVE  Authority!Cardinality(S) = Cardinality(S)
BY DEF Cardinality, Authority!Cardinality

LEMMA AdoptTells ==
  ASSUME RefinementInv, NEW c \in Caller, Waiting(c), flight[want[c]] = NoCaller,
         session[want[c]] # Nil, Finish(c, Ok(session[want[c]])),
         UNCHANGED <<now, session, flight, logins, login, want, attempts>>
  PROVE  Authority!Adopt(c)
<1>0. res \in [Caller -> Result] /\ session \in [Id -> Session] /\ HeldOK
  BY DEF RefinementInv, StoreInv, TypeOK
<1>1. want[c] \in Id /\ Authority!Open(c)
  BY InCallOpen
<1>2. HeldSeen[want[c]] = Material(session[want[c]]) /\ HeldSeen[want[c]] # Authority!None
  BY <1>0, <1>1, HeldIs
<1>3. ToldSeen' = [ToldSeen EXCEPT ![c] = Authority!Tell("ok", HeldSeen[want[c]])]
  BY <1>0, <1>2, FinishTells DEF Ok
<1>4. HeldSeen' = HeldSeen
  BY DEF HeldSeen
<1> QED BY <1>1, <1>2, <1>3, <1>4 DEF Authority!Adopt, HeldSeen, ToldSeen

\* A counted start is a refusal, or the start of a login that is counted.
LEMMA CountedBegins ==
  ASSUME RefinementInv, NEW c \in Caller, NEW stage, Waiting(c), flight[want[c]] = NoCaller,
         StartCounted(c, want[c], stage), UNCHANGED <<now, session, want>>
  PROVE  Authority!Refuse(c) \/ Authority!Begin(c)
<1> DEFINE i == want[c]
<1>0. res \in [Caller -> Result] /\ TypeOK /\ WindowOK
  BY DEF RefinementInv, StoreInv, TypeOK
<1>1. i \in Id /\ Authority!Open(c)
  BY InCallOpen
<1>2. Recent(stamps[i]) = Authority!InWindow(i)
  BY <1>0, <1>1, WindowsAgree
<1>3. HeldSeen' = HeldSeen
  BY DEF HeldSeen
<1>4. CASE Limited(i)
  <2>1. Authority!Cardinality(Authority!InWindow(i)) >= MaxBurst
    BY <1>2, <1>4, SameCardinality DEF Limited
  <2>2. ToldSeen' = [ToldSeen EXCEPT ![c] = Authority!Tell("limited", Authority!None)]
    BY <1>0, <1>4, FinishTells, NoMaterial DEF StartCounted
  <2>3. UNCHANGED <<flight, logins, login, attempts>>
    BY <1>4 DEF StartCounted
  <2> QED BY <1>1, <1>3, <2>1, <2>2, <2>3 DEF Authority!Refuse, HeldSeen, ToldSeen
<1>5. CASE ~Limited(i)
  <2>1. Authority!Cardinality(Authority!InWindow(i)) < MaxBurst
    <3>1. IsFiniteSet(attempts[i]) /\ Recent(stamps[i]) \subseteq attempts[i]
      BY <1>0, <1>1 DEF WindowOK, Recent
    <3>2. Cardinality(Recent(stamps[i])) \in Nat
      BY <3>1, FS_Subset, FS_CardinalityType
    <3> QED BY <1>2, <1>5, <3>2, SameCardinality, StoreAssumption DEF Limited
  <2>2. ToldSeen' = ToldSeen
    BY <1>5, GotoTells DEF StartCounted, StartLogin
  <2>3. /\ flight' = [flight EXCEPT ![i] = c]
        /\ logins' = logins + 1
        /\ login' = [login EXCEPT ![c] = logins + 1]
        /\ attempts' = [attempts EXCEPT ![i] = @ \cup {[n |-> logins + 1, at |-> now]}]
    BY <1>5 DEF StartCounted, StartLogin
  <2> QED BY <1>1, <1>3, <2>1, <2>2, <2>3 DEF Authority!Begin, HeldSeen, ToldSeen
<1> QED BY <1>4, <1>5

LEMMA EnterDecides ==
  ASSUME RefinementInv, NEW c \in Caller, GetEnter(c) \/ RefreshEnter(c)
  PROVE  Authority!Adopt(c) \/ Authority!Refuse(c) \/ Authority!Begin(c)
<1> DEFINE i == want[c]
<1>0. res \in [Caller -> Result] /\ session \in [Id -> Session] /\ HeldOK
  BY DEF RefinementInv, StoreInv, TypeOK
<1>1. Waiting(c) /\ flight[i] = NoCaller /\ UNCHANGED <<now, session, want>>
  BY DEF GetEnter, RefreshEnter, Waiting, FlightFree
<1>2. i \in Id /\ Authority!Open(c)
  BY <1>1, InCallOpen
<1>3. CASE /\ session[i] # Nil
           /\ Finish(c, Ok(session[i]))
           /\ UNCHANGED <<flight, logins, login, attempts>>
  BY <1>1, <1>3, AdoptTells
<1>4. CASE \E stage : StartCounted(c, i, stage)
  BY <1>1, <1>4, CountedBegins
<1>5. CASE session[i] = Nil /\ StartLogin(c, i, "establish") /\ UNCHANGED attempts
  <2>1. HeldSeen[i] = Authority!None /\ HeldSeen' = HeldSeen
    BY <1>0, <1>1, <1>2, <1>5, HeldIs DEF HeldSeen
  <2>2. ToldSeen' = ToldSeen
    BY <1>5, GotoTells DEF StartLogin
  <2>3. /\ flight' = [flight EXCEPT ![i] = c]
        /\ logins' = logins + 1
        /\ login' = [login EXCEPT ![c] = logins + 1]
    BY <1>5 DEF StartLogin
  <2> QED BY <1>1, <1>2, <1>5, <2>1, <2>2, <2>3 DEF Authority!Begin, HeldSeen, ToldSeen
<1>6. CASE GetEnter(c)
  BY <1>3, <1>4, <1>5, <1>6 DEF GetEnter, Usable
<1>7. CASE RefreshEnter(c)
  <2>1. Swapped(c) => session[i] # Nil
    <3>1. NotNewer(before[c], session[i])
      BY <1>7 DEF RefreshEnter, RefinementInv, StoreInv, ObjectsOK
    <3>2. before[c].ptr \in Nat /\ session[i].ptr \in Nat
      BY <1>0, <1>2 DEF RefinementInv, StoreInv, TypeOK, Session
    <3> QED BY <3>1, <3>2 DEF NotNewer, Swapped, Nil
  <2> QED BY <1>3, <1>4, <1>7, <2>1 DEF RefreshEnter
<1> QED BY <1>6, <1>7

LEMMA OkSucceeds ==
  ASSUME RefinementInv, NEW c \in Caller, RecipeOk(c)
  PROVE  Authority!Succeed(c)
<1> DEFINE i == want[c]
<1>0. res \in [Caller -> Result] /\ session \in [Id -> Session]
  BY DEF RefinementInv, StoreInv, TypeOK
<1>1. i \in Id /\ Authority!Open(c) /\ flight[i] = c
  BY InCallOpen DEF RecipeOk, RefinementInv, StoreInv, FlightOK
<1>2. PICK secs \in Lifetimes :
        LET new == [ptr |-> login[c], tok |-> login[c], exp |-> ExpiresAt(secs, now)]
        IN  session' = [session EXCEPT ![i] = new] /\ Finish(c, Ok(new))
  BY DEF RecipeOk
<1> DEFINE new == [ptr |-> login[c], tok |-> login[c], exp |-> ExpiresAt(secs, now)]
           mat == [tok |-> login[c], exp |-> Authority!ExpiresAt(secs, now)]
<1>3. Material(new) = mat
  BY DEF Material, ExpiresAt, Unknown, Authority!ExpiresAt, Authority!Unknown
<1>4. ToldSeen' = [ToldSeen EXCEPT ![c] = Authority!Tell("ok", mat)]
  BY <1>0, <1>2, <1>3, FinishTells DEF Ok
<1>5. HeldSeen' = [HeldSeen EXCEPT ![i] = mat]
  <2> HIDE DEF new, mat
  <2> QED BY <1>0, <1>1, <1>2, <1>3 DEF HeldSeen, new
<1>6. flight' = [flight EXCEPT ![i] = NoCaller]
  BY DEF RecipeOk, Unlock
<1>7. UNCHANGED <<now, logins, login, want, attempts>>
  BY DEF RecipeOk, history
<1> QED BY <1>1, <1>4, <1>5, <1>6, <1>7 DEF Authority!Succeed, HeldSeen, ToldSeen

LEMMA ErrFails ==
  ASSUME RefinementInv, NEW c \in Caller, RecipeErr(c)
  PROVE  Authority!Fail(c)
<1> DEFINE i == want[c]
<1>0. /\ res \in [Caller -> Result] /\ session \in [Id -> Session] /\ HeldOK
      /\ before \in [Caller -> Session]
  BY DEF RefinementInv, StoreInv, TypeOK
<1>1. i \in Id /\ Authority!Open(c) /\ flight[i] = c
  BY InCallOpen DEF RecipeErr, RefinementInv, StoreInv, FlightOK
<1>2. ToldSeen' = [ToldSeen EXCEPT ![c] = Authority!Tell("err", Authority!None)]
  BY <1>0, FinishTells, NoMaterial DEF RecipeErr
<1>3. flight' = [flight EXCEPT ![i] = NoCaller]
  BY DEF RecipeErr, Unlock
<1>4. UNCHANGED <<now, logins, login, want, attempts>>
  BY DEF RecipeErr
<1>5. CASE UNCHANGED session
  <2>1. HeldSeen' = HeldSeen
    BY <1>5 DEF HeldSeen
  <2> QED BY <1>1, <1>2, <1>3, <1>4, <2>1 DEF Authority!Fail, HeldSeen, ToldSeen
<1>6. CASE ~UNCHANGED session
  <2>1. /\ before[c] = session[i] /\ before[c] # Nil
        /\ session' = [session EXCEPT ![i] = StaleCopy(before[c], login[c])]
    BY <1>6, ErrLeaves DEF RefinementInv, StoreInv, Typed, RecipeErr
  <2>2. HeldSeen[i] = Material(session[i]) /\ HeldSeen[i] # Authority!None
    BY <1>0, <1>1, <2>1, HeldIs
  <2>3. Material(StaleCopy(session[i], login[c])) = [HeldSeen[i] EXCEPT !.exp = Authority!Past]
    BY <1>0, <1>1, <2>2 DEF Material, StaleCopy, Past, Authority!Past, Session
  <2>4. HeldSeen' = [HeldSeen EXCEPT ![i].exp = Authority!Past]
    <3>1. ASSUME NEW j \in Id, j # i PROVE HeldSeen'[j] = HeldSeen[j]
      BY <1>0, <2>1, <3>1 DEF HeldSeen
    <3>2. HeldSeen'[i] = [HeldSeen[i] EXCEPT !.exp = Authority!Past]
      BY <1>0, <1>1, <2>1, <2>3 DEF HeldSeen
    <3>3. HeldSeen' = [j \in Id |-> HeldSeen'[j]] /\ HeldSeen = [j \in Id |-> HeldSeen[j]]
      BY DEF HeldSeen
    <3> HIDE DEF i
    <3> QED BY <1>1, <3>1, <3>2, <3>3
  <2> QED BY <1>1, <1>2, <1>3, <1>4, <2>2, <2>4 DEF Authority!Fail, HeldSeen, ToldSeen
<1> QED BY <1>5, <1>6

LEMMA ReturnLeaves ==
  ASSUME RefinementInv, NEW c \in Caller, Return(c)
  PROVE  Authority!Leave(c)
<1>0. res \in [Caller -> Result] /\ res[c].kind # "none"
  BY DEF RefinementInv, StoreInv, TypeOK, ToldOK, Return
<1>1. ToldSeen[c] # Authority!Pending
  BY <1>0 DEF ToldSeen, Authority!Pending, Authority!Tell
<1>2. ToldSeen' = [ToldSeen EXCEPT ![c] = Authority!Pending]
  <2>1. res' = [res EXCEPT ![c] = Answer("none", Nil)]
    BY DEF Return, NoAnswer
  <2>2. ASSUME NEW d \in Caller, d # c PROVE ToldSeen'[d] = ToldSeen[d]
    BY <2>1, <2>2 DEF ToldSeen
  <2>3. ToldSeen'[c] = Authority!Pending
    BY <1>0, <2>1, NoMaterial DEF ToldSeen, Answer, Authority!Pending, Authority!Tell
  <2>4. ToldSeen' = [d \in Caller |-> ToldSeen'[d]] /\ ToldSeen = [d \in Caller |-> ToldSeen[d]]
    BY DEF ToldSeen
  <2> QED BY <2>2, <2>3, <2>4
<1>3. HeldSeen' = HeldSeen
  BY DEF Return, entry, HeldSeen
<1>4. /\ want' = [want EXCEPT ![c] = NoId] /\ login' = [login EXCEPT ![c] = 0]
      /\ UNCHANGED <<now, flight, logins, attempts>>
  BY DEF Return, entry, history
<1> QED BY <1>1, <1>2, <1>3, <1>4 DEF Authority!Leave, HeldSeen, ToldSeen

LEMMA AuthorityStep == RefinementInv /\ [Next]_vars => [Authority!Next]_Authority!vars
<1> SUFFICES ASSUME RefinementInv, [Next]_vars PROVE [Authority!Next]_Authority!vars
  OBVIOUS
<1>1. ASSUME NEW c \in Caller, NEW i \in Id \cup Unmanaged, CallGet(c, i) \/ CallRefresh(c, i)
      PROVE  Authority!Next
  BY <1>1, GetAsks, RefreshAsks DEF Authority!Next
<1>2. ASSUME NEW c \in Caller, GetEnter(c) \/ RefreshEnter(c)
      PROVE  Authority!Next
  BY <1>2, EnterDecides DEF Authority!Next
<1>3. ASSUME NEW c \in Caller, RecipeOk(c) \/ RecipeErr(c) \/ Return(c)
      PROVE  Authority!Next
  BY <1>3, OkSucceeds, ErrFails, ReturnLeaves DEF Authority!Next
<1>4. CASE Tick
  <2>1. HeldSeen' = HeldSeen /\ ToldSeen' = ToldSeen
    BY <1>4 DEF Tick, entry, call, HeldSeen, ToldSeen
  <2>2. now' = now + 1 /\ UNCHANGED <<flight, logins, login, want, attempts>>
    BY <1>4 DEF Tick, entry, call, history
  <2>3. Authority!Tick
    BY <2>1, <2>2 DEF Authority!Tick, HeldSeen, ToldSeen
  <2> QED BY <2>3 DEF Authority!Next
<1>5. CASE UNCHANGED vars
  BY <1>5 DEF vars, entry, call, history, Authority!vars
<1> QED
  BY <1>1, <1>2, <1>3, <1>4, <1>5, NextIsAny DEF AnyStep, CallerStep

\* What the store's clients are told by Get and Refresh (store.go:135-228), with its
\* locks, its two-step waiting, its object pointers and its pruned stamps, is what the
\* authority of SessionAuthority could have told them: one login at a time per
\* identity, the session held at that instant or the outcome of the client's own
\* login, and a refusal only when the window really is full.
THEOREM AuthorityImplemented == Spec => ImplementsAuthority
<1>1. Init => RefinementInv /\ Authority!Init
  BY RefinementInit, AuthorityInit
<1>2. RefinementInv /\ [Next]_vars => RefinementInv' /\ [Authority!Next]_Authority!vars
  BY RefinementStep, AuthorityStep
<1> QED BY <1>1, <1>2, PTL DEF Spec, ImplementsAuthority, Authority!Spec
=============================================================================

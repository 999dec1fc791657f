-------------------------- MODULE ReplayProofs --------------------------
(***************************************************************************)
(* Proofs about a replay, for every list of identities, every corpus and   *)
(* every behaviour of the target, the store and the daemon: the report is  *)
(* honest, and the sessions behind its rows are comparable.                *)
(*                                                                         *)
(* ReplayInv follows a session on its way from the store to a cell: nothing*)
(* that the command may still be given is older than what it already sent. *)
(***************************************************************************)
EXTENDS Replay, SessionStoreProofs

-----------------------------------------------------------------------------
(* Sessions on their way.                                                  *)

LEMMA StoredAhead == LastingInv => \A i \in Id : Ahead(i, session[i].tok)
<1> SUFFICES ASSUME LastingInv, NEW i \in Id PROVE Ahead(i, session[i].tok)
  OBVIOUS
<1>1. /\ session[i].tok \in Nat /\ session[i].ptr \in Nat /\ logins \in Nat
      /\ session[i].tok <= session[i].ptr /\ session[i].ptr <= logins
  BY DEF LastingInv, TypeOK, Session, ObjectsOK
<1>2. ASSUME NEW c \in Caller, LoggingIn(c), want[c] = i PROVE session[i].tok < login[c]
  <2>1. session[i].ptr < login[c] /\ login[c] \in Nat
    BY <1>2 DEF LastingInv, TypeOK, ObjectsOK
  <2> QED BY <1>1, <2>1
<1> QED BY <1>1, <1>2 DEF Ahead

\* What is ahead stays ahead, also when the daemon ends and the next one starts
\* with an empty store: logins are numbered in their order.
LEMMA AheadOk ==
  ASSUME LastingInv, NEW i \in Id, NEW t \in Nat, Ahead(i, t), NEW c \in Caller, RecipeOk(c)
  PROVE  Ahead(i, t)'
<1>0. Typed /\ ObjectsOK
  BY DEF LastingInv, Typed
<1>1. PICK s \in Session : /\ s.tok = login[c] /\ session' = [session EXCEPT ![want[c]] = s]
                           /\ Finish(c, Ok(s))
  BY <1>0, OkCommits
<1>2. LoggingIn(c) /\ want[c] \in Id /\ UNCHANGED <<logins, want, login>>
  BY <1>0 DEF RecipeOk, Unlock, Typed, FlightOK
<1>3. \A d \in Caller : LoggingIn(d)' => LoggingIn(d)
  BY <1>0, <1>1 DEF LoggingIn, Finish, Typed, TypeOK
<1>4. ASSUME session'[i] # Nil PROVE t <= session'[i].tok
  <2>1. CASE i = want[c]
    <3>1. session'[i] = s /\ t < login[c] /\ login[c] \in Nat
      BY <1>0, <1>1, <1>2, <2>1 DEF Ahead, Typed, TypeOK
    <3> QED BY <1>1, <3>1
  <2>2. CASE i # want[c]
    <3>1. session'[i] = session[i]
      BY <1>0, <1>1, <2>2 DEF Typed, TypeOK
    <3> QED BY <1>4, <3>1 DEF Ahead
  <2> QED BY <2>1, <2>2
<1> QED BY <1>2, <1>3, <1>4 DEF Ahead

LEMMA AheadErr ==
  ASSUME LastingInv, NEW i \in Id, NEW t \in Nat, Ahead(i, t), NEW c \in Caller, RecipeErr(c)
  PROVE  Ahead(i, t)'
<1>0. Typed /\ ObjectsOK
  BY DEF LastingInv, Typed
<1>1. LoggingIn(c) /\ want[c] \in Id /\ UNCHANGED <<logins, want, login>>
  BY <1>0 DEF RecipeErr, Unlock, Typed, FlightOK
<1>2. \A d \in Caller : LoggingIn(d)' => LoggingIn(d)
  BY <1>0 DEF RecipeErr, LoggingIn, Finish, Typed, TypeOK
<1>3. ASSUME session'[i] # Nil PROVE t <= session'[i].tok
  <2>1. CASE UNCHANGED session
    BY <1>3, <2>1 DEF Ahead
  <2>2. CASE ~UNCHANGED session
    <3> DEFINE s == StaleCopy(before[c], login[c])
    <3>1. /\ before[c] = session[want[c]] /\ before[c] # Nil
          /\ session' = [session EXCEPT ![want[c]] = s]
      BY <1>0, <2>2, ErrLeaves DEF RecipeErr
    <3>2. s.tok = before[c].tok
      BY <1>0 DEF StaleCopy, Typed, TypeOK, Session
    <3> HIDE DEF s
    <3>3. CASE i = want[c]
      <4>1. session'[i] = s
        BY <1>0, <3>1, <3>3 DEF Typed, TypeOK
      <4> QED BY <3>1, <3>2, <3>3, <4>1 DEF Ahead
    <3>4. CASE i # want[c]
      <4>1. session'[i] = session[i]
        BY <1>0, <3>1, <3>4 DEF Typed, TypeOK
      <4> QED BY <1>3, <4>1 DEF Ahead
    <3> QED BY <3>3, <3>4
  <2> QED BY <2>1, <2>2
<1> QED BY <1>1, <1>2, <1>3 DEF Ahead

\* A step that stores nothing and starts logins only with fresh numbers.
LEMMA AheadQuiet ==
  ASSUME LastingInv, NEW i \in Id, NEW t \in Nat, Ahead(i, t), UNCHANGED session,
         logins' \in Nat, logins <= logins',
         \A c \in Caller : LoggingIn(c)' =>
           \/ LoggingIn(c) /\ want'[c] = want[c] /\ login'[c] = login[c]
           \/ login'[c] = logins + 1
  PROVE  Ahead(i, t)'
<1>1. logins \in Nat /\ t <= logins
  BY DEF LastingInv, TypeOK, Ahead
<1>2. ASSUME NEW c \in Caller, LoggingIn(c)', want'[c] = i PROVE t < login'[c]
  <2>1. CASE LoggingIn(c) /\ want'[c] = want[c] /\ login'[c] = login[c]
    BY <1>2, <2>1 DEF Ahead
  <2>2. CASE login'[c] = logins + 1
    BY <1>1, <2>2
  <2> QED BY <1>2, <2>1, <2>2
<1> QED BY <1>1, <1>2 DEF Ahead

LEMMA AheadStep ==
  ASSUME LastingInv, NEW i \in Id, NEW t \in Nat, Ahead(i, t), [AnyStep \/ Forget]_vars
  PROVE  Ahead(i, t)'
<1>1. CASE Forget
  BY <1>1 DEF Forget, EmptyStore, CallsDropped, Ahead, LoggingIn
<1>2. CASE [AnyStep]_vars /\ \A c \in Caller : ~RecipeOk(c) /\ ~RecipeErr(c)
  BY <1>2, QuietStep, AheadQuiet DEF LastingInv, Typed
<1> QED BY <1>1, <1>2, AheadOk, AheadErr

-----------------------------------------------------------------------------
(* Steps that leave the command alone.                                     *)

\* A step of the store or of its daemon while the command waits, or works elsewhere.
Elsewhere ==
  /\ UNCHANGED run
  /\ \/ StoreWorks \/ DaemonStep
     \/ ~At("done") /\ Tick /\ UNCHANGED control
     \/ UNCHANGED <<vars, control>>

LEMMA TimePasses ==
  ASSUME ReplayInv, [AnyStep \/ Forget]_vars
  PROVE  now \in Nat /\ now' \in Nat /\ now <= now'
<1>1. now \in Nat /\ LastingInv'
  BY LastingStep DEF ReplayInv, LastingInv, TypeOK
<1>2. now' = now \/ now' = now + 1
  BY DEF AnyStep, CallGet, CallRefresh, CallerStep, GetEnter, RefreshEnter, RecipeOk, RecipeErr,
         Return, Tick, Forget, vars
<1> QED BY <1>1, <1>2 DEF LastingInv, TypeOK

LEMMA PrecedesStays ==
  ASSUME NEW s \in Session, NEW t \in Session, Precedes(s, t), run'.src = run.src,
         now \in Nat, now' \in Nat, now <= now'
  PROVE  Precedes(s, t)'
BY DEF Precedes, Expired, Session

LEMMA ElsewhereStore == Elsewhere => [AnyStep \/ Forget]_vars
<1> SUFFICES ASSUME Elsewhere PROVE [AnyStep \/ Forget]_vars
  OBVIOUS
<1>1. StoreWorks => AnyStep
  BY ReplayAssumption DEF StoreWorks, CallProceeds, AnyStep, CallerStep
<1>2. DaemonStep => AnyStep \/ Forget \/ UNCHANGED vars
  BY DEF DaemonStep, DaemonEnds, DaemonStarts, DaemonServes, AnyStep
<1> QED BY <1>1, <1>2 DEF Elsewhere, AnyStep

\* What a Get of the command ends with is what is stored.
LEMMA GetAnswers ==
  ASSUME LastingInv, GetEnter(Command) \/ RecipeOk(Command) \/ RecipeErr(Command), Answered'
  PROVE  /\ want'[Command] \in Id /\ session'[want'[Command]] # Nil
         /\ res'[Command].sess = session'[want'[Command]]
<1>0. Typed /\ ObjectsOK /\ Command \in Caller
  BY ReplayAssumption DEF LastingInv, Typed
<1> DEFINE i == want[Command]
<1>1. CASE GetEnter(Command)
  <2>1. i \in Id /\ UNCHANGED <<session, want>>
    BY <1>0, <1>1 DEF GetEnter, Typed, FlightOK, Waiting
  <2>2. res' = [res EXCEPT ![Command] = Ok(session[i])] /\ Usable(session[i])
    BY <1>0, <1>1 DEF GetEnter, StartCounted, StartLogin, Finish, Goto, Answered, Answer,
                      Typed, TypeOK
  <2>3. res'[Command].sess = session[i]
    BY <1>0, <2>2 DEF Ok, Answer, Typed, TypeOK
  <2> QED BY <2>1, <2>2, <2>3 DEF Usable
<1>2. CASE RecipeOk(Command)
  <2>1. PICK s \in Session : /\ s.tok = login[Command]
                             /\ session' = [session EXCEPT ![i] = s]
                             /\ Finish(Command, Ok(s))
    BY <1>0, <1>2, OkCommits
  <2>2. i \in Id /\ LoggingIn(Command) /\ UNCHANGED want
    BY <1>0, <1>2 DEF RecipeOk, Unlock, Typed, FlightOK
  <2>3. login[Command] # 0
    BY <1>0, <2>2 DEF ObjectsOK, Typed, TypeOK, Session
  <2>4. session'[i] = s /\ res'[Command].sess = s
    BY <1>0, <2>1, <2>2 DEF Typed, TypeOK, Finish, Ok, Answer
  <2> QED BY <2>1, <2>2, <2>3, <2>4 DEF Nil
<1>3. CASE RecipeErr(Command)
  BY <1>0, <1>3 DEF RecipeErr, Finish, Answer, Answered, Typed, TypeOK
<1> QED BY <1>1, <1>2, <1>3

LEMMA CommandMoves ==
  ASSUME ReplayInv, Elsewhere
  PROVE  /\ ~At("asked") => pc'[Command] = "idle"
         /\ pc'[Command] \in {"idle", "getWait", "establish", "renew", "returned"}
         /\ pc'[Command] # "idle" => pc[Command] # "idle" /\ want'[Command] = want[Command]
         /\ Answered' =>
              \/ Answered /\ res'[Command] = res[Command] /\ want'[Command] = want[Command]
              \/ /\ want'[Command] \in Id /\ session'[want'[Command]] # Nil
                 /\ res'[Command].sess = session'[want'[Command]]
<1>0. Command \in Caller /\ pc \in [Caller -> Place]
      /\ want \in [Caller -> Id \cup Unmanaged \cup {NoId}] /\ res \in [Caller -> Result]
  BY ReplayAssumption DEF ReplayInv, LastingInv, TypeOK
<1>1. pc[Command] \in {"idle", "getWait", "establish", "renew", "returned"}
      /\ (~At("asked") => pc[Command] = "idle")
  BY DEF ReplayInv, ProgressOK
<1>2. CASE StoreWorks
  <2>1. GetEnter(Command) \/ RecipeOk(Command) \/ RecipeErr(Command)
    BY <1>2 DEF StoreWorks, CallProceeds
  <2>2. UNCHANGED want
    BY <2>1 DEF GetEnter, RecipeOk, RecipeErr
  <2>3. pc[Command] # "idle" /\ pc'[Command] \in {"establish", "renew", "returned"}
    BY <1>0, <2>1 DEF GetEnter, RecipeOk, RecipeErr, LoggingIn, StartCounted, StartLogin,
                      Finish, Goto
  <2>4. At("asked")
    BY <1>1, <2>3
  <2> QED BY <2>1, <2>2, <2>3, <2>4, GetAnswers DEF ReplayInv
<1>3. ASSUME NEW c \in Caller, DaemonServes(c)
      PROVE  /\ pc'[Command] = pc[Command] /\ want'[Command] = want[Command]
             /\ res'[Command] = res[Command]
  BY <1>0, <1>3 DEF DaemonServes, CallGet, CallRefresh, CallerStep, GetEnter, RefreshEnter,
       RecipeOk, RecipeErr, Return, StartCounted, StartLogin, Finish, Goto
<1>4. ASSUME DaemonEnds PROVE pc'[Command] = "idle"
  BY <1>0, <1>4 DEF DaemonEnds, Forget, CallsDropped
<1>5. CASE DaemonStarts \/ Tick \/ UNCHANGED vars
  BY <1>1, <1>5 DEF DaemonStarts, Tick, vars, call, Answered
<1> QED BY <1>1, <1>2, <1>3, <1>4, <1>5 DEF Elsewhere, DaemonStep, Answered

\* A store of the command's own changes only when a Get of the command ends, and then
\* only what had to be replaced.
LEMMA OwnMoves ==
  ASSUME ReplayInv, Elsewhere
  PROVE  /\ OwnOK'
         /\ run.src = "own" /\ pc[Command] \in {"idle", "returned"} => UNCHANGED session
         /\ run.src = "own" => \A i \in Id :
              session'[i] = session[i] \/ session[i] = Nil \/ Expired(session[i], now)
<1>0. /\ Command \in Caller /\ pc \in [Caller -> Place] /\ session \in [Id -> Session]
      /\ Typed /\ ObjectsOK /\ now \in Nat /\ now' \in Nat /\ now <= now'
  BY ReplayAssumption, TimePasses, ElsewhereStore DEF ReplayInv, LastingInv, TypeOK, Typed
<1>1. CASE StoreWorks
  <2>0. GetEnter(Command) \/ RecipeOk(Command) \/ RecipeErr(Command)
    BY <1>1 DEF StoreWorks, CallProceeds
  <2>1. pc[Command] \in {"getWait", "establish", "renew"} /\ UNCHANGED <<want, run, control, now>>
    BY <1>0, <1>1, <2>0 DEF ReplayInv, ProgressOK, StoreWorks, CallProceeds, GetEnter, RecipeOk,
                            RecipeErr, LoggingIn
  <2>2. run.src = "own" \/ Listening
    BY <1>1 DEF StoreWorks, StoreUp
  <2>3. \A c \in Caller \ {Command} : pc'[c] = pc[c]
    BY <1>0, <2>0 DEF GetEnter, RecipeOk, RecipeErr, StartCounted, StartLogin, Finish, Goto
  <2>4. CASE GetEnter(Command)
    <3>1. UNCHANGED session
      BY <2>4 DEF GetEnter
    <3>2. /\ pc'[Command] = "establish" => session[want[Command]] = Nil
          /\ pc'[Command] = "renew" => Expired(session[want[Command]], now)
      BY <1>0, <2>4 DEF GetEnter, StartCounted, StartLogin, Finish, Goto
    <3> QED BY <2>1, <2>2, <2>3, <3>1, <3>2 DEF ReplayInv, OwnOK, Listening, control
  <2>5. CASE RecipeOk(Command) \/ RecipeErr(Command)
    <3>1. pc'[Command] = "returned"
      BY <1>0, <2>5 DEF RecipeOk, RecipeErr, Finish
    <3>2. pc[Command] \in {"establish", "renew"}
      BY <2>1, <2>5 DEF RecipeOk, RecipeErr, LoggingIn
    <3>3. \E s : session' = [session EXCEPT ![want[Command]] = s]
      <4>1. CASE RecipeOk(Command)
        BY <1>0, <4>1, OkCommits
      <4>2. CASE RecipeErr(Command)
        <5>1. UNCHANGED session
          BY <1>0, <3>2, <4>2 DEF RecipeErr
        <5>2. session' = [session EXCEPT ![want[Command]] = session[want[Command]]]
          BY <1>0, <5>1
        <5> QED BY <5>2
      <4> QED BY <2>5, <4>1, <4>2
    <3>4. \A i \in Id \ {want[Command]} : session'[i] = session[i]
      BY <1>0, <3>3
    <3>5. run.src = "own" => session[want[Command]] = Nil \/ Expired(session[want[Command]], now)
      BY <3>2 DEF ReplayInv, OwnOK
    <3>6. OwnOK'
      BY <2>1, <2>2, <2>3, <3>1 DEF ReplayInv, OwnOK, Listening, control
    <3> QED BY <2>1, <3>4, <3>5, <3>6
  <2> QED BY <2>0, <2>4, <2>5
<1>2. CASE DaemonStep
  <2>1. run.src # "own" /\ UNCHANGED run
    BY <1>2 DEF DaemonStep
  <2>2. Listening' \/ \A c \in Caller : pc'[c] = "idle"
    BY <1>2 DEF DaemonStep, DaemonEnds, Forget, CallsDropped, DaemonStarts, DaemonServes, control,
                Listening
  <2> QED BY <2>1, <2>2 DEF OwnOK
<1>3. CASE (Tick /\ UNCHANGED control) \/ UNCHANGED <<vars, control>>
  <2>1. UNCHANGED <<session, pc, want, control, run>>
    BY <1>3 DEF Elsewhere, Tick, vars, entry, call
  <2>2. \A c \in Caller : want[c] \in Id /\ Expired(session[want[c]], now)
                            => Expired(session[want[c]], now')
    BY <1>0 DEF Expired, Session
  <2>3. pc[Command] = "renew" => want[Command] \in Id
    BY <1>0 DEF Typed, FlightOK, LoggingIn
  <2> QED BY <1>0, <2>1, <2>2, <2>3 DEF ReplayInv, OwnOK, Listening, control
<1> QED BY <1>1, <1>2, <1>3 DEF Elsewhere

\* A session that was sent is followed on through such a step.
LEMMA SentMoves ==
  ASSUME ReplayInv, Elsewhere, NEW x \in Cells, x.sent /\ x.id \in Id => x.sess # Nil, SentOK(x)
  PROVE  SentOK(x)'
<1> SUFFICES ASSUME x.sent, x.id \in Id
             PROVE  SentOK(x)'
  BY DEF SentOK
<1> DEFINE i == x.id
<1>0. /\ x.sess \in Session /\ x.sess.tok \in Nat /\ x.sess # Nil /\ UNCHANGED run
      /\ [AnyStep \/ Forget]_vars /\ LastingInv /\ LastingInv'
      /\ now \in Nat /\ now' \in Nat /\ now <= now'
  BY ElsewhereStore, TimePasses, LastingStep DEF ReplayInv, Cells, Session, Elsewhere
<1>1. Ahead(i, x.sess.tok)'
  BY <1>0, AheadStep DEF SentOK
<1>2. run'.src = "own" => x.sess = session'[i] \/ Expired(x.sess, now')
  <2>1. CASE Expired(x.sess, now)
    BY <1>0, <2>1 DEF Expired, Session
  <2>2. CASE x.sess = session[i]
    <3>1. run.src = "own" => session'[i] = session[i] \/ Expired(session[i], now)
      BY <1>0, <2>2, OwnMoves
    <3> QED BY <1>0, <2>2, <3>1 DEF Expired, Session
  <2> QED BY <1>0, <2>1, <2>2 DEF SentOK
<1>3. ASSUME Answered', want'[Command] = i PROVE Precedes(x.sess, res[Command].sess)'
  <2>1. CASE Answered /\ res'[Command] = res[Command] /\ want'[Command] = want[Command]
    <3>1. res[Command].sess \in Session
      BY <1>0, ReplayAssumption DEF LastingInv, TypeOK, Result
    <3> QED BY <1>0, <1>3, <2>1, <3>1, PrecedesStays DEF SentOK
  <2>2. CASE session'[i] # Nil /\ res'[Command].sess = session'[i]
    <3>1. x.sess.tok <= session'[i].tok
      BY <1>1, <2>2 DEF Ahead
    <3> QED BY <1>2, <2>2, <3>1 DEF Precedes
  <2> QED BY <1>3, <2>1, <2>2, CommandMoves
<1>4. ASSUME At("sent")', CurrentId' = i PROVE Precedes(x.sess, run.sess)'
  <2>1. Precedes(x.sess, run.sess) /\ run.sess \in Session
    BY <1>0, <1>4 DEF SentOK, At, CurrentId, ReplayInv, RunTypeOK
  <2> QED BY <1>0, <2>1, PrecedesStays
<1> QED BY <1>1, <1>2, <1>3, <1>4 DEF SentOK

\* Before its end a run has printed nothing.
LEMMA NothingPrinted == ~At("done") => ReportHonest
BY DEF ReportHonest, MarkerHonest, ExitHonest, OneIdentityPerCell, RunNeverRegresses,
       OneSessionPerIdentity, Printed

LEMMA ReportStays ==
  ASSUME ReportHonest, UNCHANGED <<run, now>>
  PROVE  ReportHonest'
<1>1. (MarkerHonest /\ ExitHonest /\ OneIdentityPerCell)'
  BY DEF ReportHonest, MarkerHonest, ExitHonest, OneIdentityPerCell, Printed, At, WithCorpus
<1>2. SentPairs' = SentPairs /\ Printed' = Printed
  BY DEF SentPairs, Printed, At
<1>3. (RunNeverRegresses /\ OneSessionPerIdentity)'
  BY <1>2 DEF ReportHonest, RunNeverRegresses, OneSessionPerIdentity, Sent
<1> QED BY <1>1, <1>3 DEF ReportHonest

LEMMA ElsewhereInv == ReplayInv /\ Elsewhere => ReplayInv'
<1> SUFFICES ASSUME ReplayInv, Elsewhere PROVE ReplayInv'
  OBVIOUS
<1>0. /\ UNCHANGED run /\ [AnyStep \/ Forget]_vars /\ LastingInv /\ LastingInv'
      /\ now \in Nat /\ now' \in Nat /\ now <= now' /\ Command \in Caller
  BY ElsewhereStore, TimePasses, LastingStep, ReplayAssumption DEF ReplayInv, Elsewhere
<1>1. RunTypeOK'
  BY <1>0 DEF ReplayInv, RunTypeOK
<1>2. ProgressOK'
  BY <1>0, CommandMoves DEF ReplayInv, ProgressOK, At, CurrentId
<1>3. AnswerOK'
  <2>1. ASSUME Answered'
        PROVE  /\ want'[Command] \in Id /\ res'[Command].sess # Nil
               /\ Ahead(want[Command], res[Command].sess.tok)'
               /\ run'.src = "own" => res'[Command].sess = session'[want'[Command]]
    <3>1. CASE Answered /\ res'[Command] = res[Command] /\ want'[Command] = want[Command]
      <4>1. /\ want[Command] \in Id /\ res[Command].sess.tok \in Nat /\ res[Command].sess # Nil
            /\ Ahead(want[Command], res[Command].sess.tok)
            /\ run.src = "own" => res[Command].sess = session[want[Command]]
        BY <1>0, <3>1 DEF ReplayInv, AnswerOK, LastingInv, TypeOK, Result, Session
      <4>2. run.src = "own" => UNCHANGED session
        BY <3>1, OwnMoves DEF Answered
      <4>3. \A i \in Id : \A n \in Nat : Ahead(i, n) => Ahead(i, n)'
        BY <1>0, AheadStep
      <4> DEFINE i == want[Command]
                 n == res[Command].sess.tok
      <4>4. Ahead(want[Command], res[Command].sess.tok)'
        <5>1. i' = i /\ n' = n
          BY <3>1
        <5>2. Ahead(i, n)' <=> (/\ n <= logins'
                                /\ session'[i] # Nil => n <= session'[i].tok
                                /\ \A c \in Caller : LoggingIn(c)' /\ want'[c] = i => n < login'[c])
          BY <5>1 DEF Ahead
        <5>3. \A j \in Id : \A m \in Nat : Ahead(j, m) =>
                /\ m <= logins'
                /\ session'[j] # Nil => m <= session'[j].tok
                /\ \A c \in Caller : LoggingIn(c)' /\ want'[c] = j => m < login'[c]
          BY <4>3 DEF Ahead
        <5> QED BY <4>1, <5>2, <5>3
      <4> QED BY <1>0, <3>1, <4>1, <4>2, <4>4
    <3>2. CASE /\ want'[Command] \in Id /\ session'[want'[Command]] # Nil
               /\ res'[Command].sess = session'[want'[Command]]
      <4>1. (LastingInv => \A i \in Id : Ahead(i, session[i].tok))'
        BY StoredAhead, PTL
      <4> QED BY <1>0, <2>1, <3>2, <4>1
    <3> QED BY <2>1, <3>1, <3>2, CommandMoves
  <2>2. ASSUME At("sent"), CurrentId \in Id
        PROVE  /\ Ahead(CurrentId, run.sess.tok)'
               /\ run'.src = "own" => run'.sess = session'[CurrentId']
    <3>1. Ahead(CurrentId, run.sess.tok) /\ run.sess.tok \in Nat
      BY <2>2 DEF ReplayInv, AnswerOK, RunTypeOK, Session
    <3>2. CurrentId' = CurrentId /\ run'.sess = run.sess
      BY <1>0 DEF CurrentId
    <3>3. \A i \in Id : \A n \in Nat : Ahead(i, n) => Ahead(i, n)'
      BY <1>0, AheadStep
    <3>4. Ahead(CurrentId, run.sess.tok)'
      BY <2>2, <3>1, <3>2, <3>3 DEF Ahead
    <3>5. run.src = "own" => UNCHANGED session
      BY <2>2, OwnMoves DEF ReplayInv, ProgressOK, At
    <3> QED BY <1>0, <2>2, <3>2, <3>4, <3>5 DEF ReplayInv, AnswerOK
  <2>3. At("sent")' = At("sent") /\ CurrentId' = CurrentId
    BY <1>0 DEF At, CurrentId
  <2> QED BY <2>1, <2>2, <2>3 DEF AnswerOK
<1>4. RowsOK'
  <2>1. Rows' = Rows
    BY <1>0 DEF Rows
  <2>2. \A k \in DOMAIN Rows : \A n \in DOMAIN Rows[k] : Rows[k][n] \in Cells
    BY DEF Rows, ReplayInv, RunTypeOK
  <2>3. ASSUME NEW k \in DOMAIN Rows, NEW n \in DOMAIN Rows[k]
        PROVE  CellOK(Rows[k][n], n)' /\ SentOK(Rows[k][n])'
    <3> DEFINE x == Rows[k][n]
    <3>1. CellOK(x, n) /\ SentOK(x) /\ x \in Cells
      BY <2>2, <2>3 DEF ReplayInv, RowsOK
    <3>2. x.sent /\ x.id \in Id => x.sess # Nil
      BY <3>1, ReplayAssumption, StoreAssumption DEF CellOK
    <3>3. \A y \in Cells : (y.sent /\ y.id \in Id => y.sess # Nil) /\ SentOK(y) => SentOK(y)'
      BY SentMoves
    <3>4. x' = x
      BY <2>1
    <3>5. SentOK(Rows[k][n])'
      BY <3>1, <3>2, <3>3, <3>4 DEF SentOK, Ahead, Precedes
    <3>6. CellOK(Rows[k][n], n)'
      BY <1>0, <3>1, <3>4 DEF CellOK
    <3> QED BY <3>5, <3>6
  <2>4. OrderOK'
    <3> SUFFICES ASSUME NEW j \in DOMAIN Rows, NEW k \in DOMAIN Rows,
                        NEW m \in DOMAIN Rows[j], NEW n \in DOMAIN Rows[k],
                        Later(j, m, k, n), Rows[j][m].id = Rows[k][n].id,
                        Rows[j][m].sent, Rows[k][n].sent
                 PROVE  Precedes(Rows[j][m].sess, Rows[k][n].sess)'
      BY <2>1 DEF OrderOK, Later
    <3>1. Precedes(Rows[j][m].sess, Rows[k][n].sess)
      BY DEF ReplayInv, RowsOK, OrderOK
    <3>2. Rows[j][m].sess \in Session /\ Rows[k][n].sess \in Session
      BY <2>2 DEF Cells
    <3> QED BY <1>0, <2>1, <3>1, <3>2 DEF Precedes, Expired, Session
  <2> QED BY <2>1, <2>3, <2>4 DEF RowsOK
<1>5. OwnOK'
  BY OwnMoves
<1>6. ReportHonest'
  <2>1. CASE At("done")
    <3>1. UNCHANGED now
      BY <2>1 DEF Elsewhere, StoreWorks, CallProceeds, GetEnter, RecipeOk, RecipeErr, DaemonStep,
                  vars
    <3> QED BY <1>0, <3>1, ReportStays DEF ReplayInv
  <2>2. CASE ~At("done")
    <3>1. ~At("done")'
      BY <1>0, <2>2 DEF At
    <3>2. (~At("done") => ReportHonest)'
      BY NothingPrinted, PTL
    <3> QED BY <3>1, <3>2
  <2> QED BY <2>1, <2>2
<1> QED BY <1>0, <1>1, <1>2, <1>3, <1>4, <1>5, <1>6 DEF ReplayInv

-----------------------------------------------------------------------------
(* Requests.                                                               *)

\* Whatever the file holds, no loaded request carries a captured identity
\* (loadHAR, har.go:11-20).
LEMMA LoadedClean ==
  ASSUME NEW f, NEW format, NEW unsafe, NEW k \in DOMAIN LoadOptions(f, format, unsafe).reqs
  PROVE  LoadOptions(f, format, unsafe).reqs[k].headers \cap IdentityHeaders = {}
<1> DEFINE Clean(loaded) ==
             \A n \in DOMAIN loaded.reqs : loaded.reqs[n].headers \cap IdentityHeaders = {}
<1>1. Clean(Failed)
  BY DEF Failed
<1>2. ASSUME NEW lines PROVE Clean(LoadRequests(lines))
  BY <1>1 DEF LoadRequests, Loaded, Shape, Request
<1>3. ASSUME NEW entries PROVE Clean(LoadHAR(entries))
  BY <1>1 DEF LoadHAR, Loaded, Request, KeepHeaders
<1>4. ASSUME NEW ops PROVE Clean(LoadOpenAPI(ops, unsafe))
  BY DEF LoadOpenAPI, Loaded, Shape, Request
<1> HIDE DEF Clean
<1>5. Clean(LoadOptions(f, format, unsafe))
  <2>1. ASSUME NEW as
        PROVE  Clean(IF f.kind # as
                       THEN Failed
                       ELSE CASE as = "requests" -> LoadRequests(f.items)
                              [] as = "har"      -> LoadHAR(f.items)
                              [] as = "openapi"  -> LoadOpenAPI(f.items, unsafe)
                              [] OTHER           -> Failed)
    BY <1>1, <1>2, <1>3, <1>4
  <2> QED BY <2>1 DEF LoadOptions
<1> QED BY <1>5 DEF Clean

-----------------------------------------------------------------------------
(* The steps of the command.                                               *)

\* A session the command was told of, or sends, when a step of its own leaves the
\* store alone.
LEMMA SentAnew ==
  ASSUME ReplayInv, NEW x \in Cells, SentOK(x),
         [AnyStep]_vars, UNCHANGED <<session, now>>, run'.src = run.src,
         Answered' => /\ want'[Command] \in Id /\ session[want'[Command]] # Nil
                      /\ res'[Command].sess = session[want'[Command]],
         At("sent")' /\ CurrentId' \in Id =>
           Answered /\ want[Command] = CurrentId' /\ run'.sess = res[Command].sess
  PROVE  SentOK(x)'
<1> SUFFICES ASSUME x.sent, x.id \in Id
             PROVE  SentOK(x)'
  BY DEF SentOK
<1>1. x.sess \in Session /\ x.sess.tok \in Nat /\ LastingInv
  BY DEF ReplayInv, Cells, Session
<1>2. Ahead(x.id, x.sess.tok) /\ Ahead(x.id, x.sess.tok)'
  BY <1>1, AheadStep DEF SentOK
<1>3. run.src = "own" => x.sess = session[x.id] \/ Expired(x.sess, now)
  BY DEF SentOK
<1>4. ASSUME Answered', want'[Command] = x.id PROVE Precedes(x.sess, res[Command].sess)'
  BY <1>2, <1>3, <1>4 DEF Ahead, Precedes
<1>5. ASSUME At("sent")', CurrentId' = x.id PROVE Precedes(x.sess, run.sess)'
  <2>1. Precedes(x.sess, res[Command].sess) /\ run'.sess = res[Command].sess
    BY <1>5 DEF SentOK
  <2> QED BY <2>1 DEF Precedes
<1> QED BY <1>2, <1>3, <1>4, <1>5 DEF SentOK

LEMMA RowsTyped ==
  ASSUME RunTypeOK, NEW k \in DOMAIN Rows, NEW n \in DOMAIN Rows[k]
  PROVE  Rows[k][n] \in Cells
BY DEF RunTypeOK, Rows

\* The rows after a step of the command that records nothing.
LEMMA SameRows ==
  ASSUME ReplayInv, [AnyStep]_vars, UNCHANGED <<session, now>>,
         run'.src = run.src, run'.ids = run.ids, run'.row = run.row, run'.table = run.table,
         Answered' => /\ want'[Command] \in Id /\ session[want'[Command]] # Nil
                      /\ res'[Command].sess = session[want'[Command]],
         At("sent")' /\ CurrentId' \in Id =>
           Answered /\ want[Command] = CurrentId' /\ run'.sess = res[Command].sess
  PROVE  RowsOK'
<1>1. Rows' = Rows
  BY DEF Rows
<1>2. \A y \in Cells : SentOK(y) => SentOK(y)'
  BY SentAnew
<1>3. ASSUME NEW k \in DOMAIN Rows, NEW n \in DOMAIN Rows[k]
      PROVE  CellOK(Rows[k][n], n)' /\ SentOK(Rows[k][n])'
  <2>1. Rows[k][n] \in Cells
    BY RowsTyped DEF ReplayInv
  <2>2. CellOK(Rows[k][n], n) /\ SentOK(Rows[k][n])
    BY DEF ReplayInv, RowsOK
  <2> QED BY <1>1, <1>2, <2>1, <2>2 DEF SentOK, CellOK, Ahead, Precedes
<1>4. OrderOK'
  <2>1. OrderOK
    BY DEF ReplayInv, RowsOK
  <2> QED BY <1>1, <2>1 DEF OrderOK, Precedes, Later
<1> QED BY <1>1, <1>3, <1>4 DEF RowsOK

\* What Record does: the cell joins the current row, which may end with it.
LEMMA RecordEffect ==
  ASSUME RunTypeOK, NEW cell \in Cells, Record(cell), Len(run.row) < Len(run.ids)
  PROVE  /\ RunTypeOK'
         /\ run'.src = run.src /\ run'.ids = run.ids /\ run'.reqs = run.reqs
         /\ run'.file = run.file /\ run'.printed = run.printed /\ run'.sess = Nil
         /\ \/ /\ Len(run.row) + 1 < Len(run.ids) /\ run'.stage = "cell"
               /\ run'.row = Append(run.row, cell) /\ run'.table = run.table
            \/ /\ Len(run.row) + 1 = Len(run.ids) /\ run'.stage = AfterRow
               /\ run'.row = <<>> /\ run'.table = Append(run.table, Append(run.row, cell))
<1> DEFINE row == Append(run.row, cell)
<1>1. /\ run.row \in Seq(Cells) /\ run.table \in Seq(Seq(Cells)) /\ run.ids \in Seq(Id \cup Unmanaged)
      /\ DOMAIN run = DOMAIN NotRun /\ AfterRow \in {"cell", "print"}
  BY DEF RunTypeOK, AfterRow
<1>2. row \in Seq(Cells) /\ Len(row) = Len(run.row) + 1 /\ Append(run.table, row) \in Seq(Seq(Cells))
  BY <1>1
<1>3. Nil \in Session
  BY NilSession
<1>4. CASE Len(row) < Len(run.ids)
  <2>1. run' = [run EXCEPT !.sess = Nil, !.stage = "cell", !.row = row]
    BY <1>4 DEF Record
  <2> HIDE DEF row
  <2>2. /\ DOMAIN run' = DOMAIN run /\ run'.sess = Nil /\ run'.stage = "cell" /\ run'.row = row
        /\ run'.src = run.src /\ run'.ids = run.ids /\ run'.reqs = run.reqs
        /\ run'.file = run.file /\ run'.printed = run.printed /\ run'.table = run.table
    BY <1>1, <2>1 DEF NotRun
  <2> QED BY <1>1, <1>2, <1>3, <1>4, <2>2 DEF RunTypeOK, row
<1>5. CASE ~(Len(row) < Len(run.ids))
  <2>1. run' = [run EXCEPT !.sess = Nil, !.stage = "cell", !.row = <<>>,
                           !.table = Append(run.table, row), !.stage = AfterRow]
    BY <1>1, <1>5 DEF Record, NotRun
  <2> HIDE DEF row
  <2>2. /\ DOMAIN run' = DOMAIN run /\ run'.sess = Nil /\ run'.stage = AfterRow /\ run'.row = <<>>
        /\ run'.src = run.src /\ run'.ids = run.ids /\ run'.reqs = run.reqs
        /\ run'.file = run.file /\ run'.printed = run.printed
        /\ run'.table = Append(run.table, row)
    BY <1>1, <2>1 DEF NotRun
  <2>3. Len(run.row) + 1 = Len(run.ids)
    BY <1>1, <1>2, <1>5
  <2> QED BY <1>1, <1>2, <1>3, <2>2, <2>3 DEF RunTypeOK, row
<1> QED BY <1>4, <1>5

\* The rows grow by the cell, after all that were there.
LEMMA RowsGrow ==
  ASSUME RunTypeOK, NEW cell \in Cells, Record(cell), Len(run.row) < Len(run.ids)
  PROVE  \A k \in DOMAIN Rows' : \A n \in DOMAIN Rows'[k] :
           \/ /\ k \in DOMAIN Rows /\ n \in DOMAIN Rows[k] /\ Rows'[k][n] = Rows[k][n]
              /\ Later(k, n, Len(run.table) + 1, Len(run.row) + 1)
           \/ /\ k = Len(run.table) + 1 /\ n = Len(run.row) + 1 /\ Rows'[k][n] = cell
<1> DEFINE row == Append(run.row, cell)
           K == Len(run.table) + 1
           N == Len(run.row) + 1
<1>1. /\ run.row \in Seq(Cells) /\ run.table \in Seq(Seq(Cells))
      /\ run'.row \in Seq(Cells) /\ run'.table \in Seq(Seq(Cells))
  BY RecordEffect DEF RunTypeOK
<1>2. row \in Seq(Cells) /\ DOMAIN row = 1 .. N /\ row[N] = cell
      /\ \A n \in DOMAIN run.row : row[n] = run.row[n] /\ n < N /\ n \in Nat
  BY <1>1
<1>3. DOMAIN Rows = 1 .. K /\ Rows[K] = run.row /\ \A k \in DOMAIN run.table : Rows[k] = run.table[k]
  BY <1>1 DEF Rows
<1>4. DOMAIN run.row = 1 .. N - 1 /\ DOMAIN run.table = 1 .. K - 1 /\ K \in Nat /\ N \in Nat
  BY <1>1
<1>5. ASSUME NEW k \in DOMAIN Rows'
      PROVE  \/ k \in 1 .. K - 1 /\ Rows'[k] = run.table[k]
             \/ k = K /\ Rows'[k] = row
             \/ k = K + 1 /\ Rows'[k] = <<>>
  <2>1. CASE run'.row = row /\ run'.table = run.table
    BY <1>1, <1>2, <1>4, <2>1 DEF Rows
  <2>2. CASE run'.row = <<>> /\ run'.table = Append(run.table, row)
    <3>1. DOMAIN run'.table = 1 .. K /\ run'.table[K] = row
          /\ \A j \in 1 .. K - 1 : run'.table[j] = run.table[j]
      BY <1>1, <1>2, <1>4, <2>2
    <3>2. Rows' = Append(run'.table, <<>>) /\ run'.table \in Seq(Seq(Cells))
          /\ Len(run'.table) = K
      BY <1>1, <1>4, <2>2, <3>1 DEF Rows
    <3>3. DOMAIN Rows' = 1 .. K + 1 /\ Rows'[K + 1] = <<>>
          /\ \A j \in 1 .. K : Rows'[j] = run'.table[j]
      <4> DEFINE old == run'.table
                 new == Rows'
                 S   == Seq(Cells)
      <4>1. new = Append(old, <<>>) /\ old \in Seq(S) /\ Len(old) = K
        BY <3>2
      <4> HIDE DEF old, new, K, S
      <4>2. DOMAIN new = 1 .. K + 1 /\ new[K + 1] = <<>> /\ \A j \in 1 .. K : new[j] = old[j]
        BY <4>1
      <4> QED BY <4>2 DEF old, new
    <3>4. K \in Nat /\ k \in 1 .. K + 1
      BY <1>4, <1>5, <3>3
    <3> HIDE DEF K, row
    <3>5. CASE k = K + 1
      BY <3>3, <3>5
    <3>6. CASE k = K
      <4>1. K \in 1 .. K
        BY <3>4, <3>6
      <4> QED BY <3>1, <3>3, <3>6, <4>1
    <3>7. CASE k # K /\ k # K + 1
      <4>1. k \in 1 .. K - 1 /\ k \in 1 .. K
        BY <3>4, <3>7
      <4>2. run'.table[k] = run.table[k]
        BY <3>1, <4>1
      <4> QED BY <3>3, <4>1, <4>2
    <3> QED BY <3>5, <3>6, <3>7
  <2> QED BY <2>1, <2>2, RecordEffect
<1> HIDE DEF row
<1>6. ASSUME NEW k \in DOMAIN Rows', NEW n \in DOMAIN Rows'[k]
      PROVE  \/ /\ k \in DOMAIN Rows /\ n \in DOMAIN Rows[k] /\ Rows'[k][n] = Rows[k][n]
                /\ Later(k, n, K, N)
             \/ k = K /\ n = N /\ Rows'[k][n] = cell
  <2>1. CASE k \in 1 .. K - 1 /\ Rows'[k] = run.table[k]
    BY <1>3, <1>4, <1>6, <2>1 DEF Later
  <2>2. CASE k = K /\ Rows'[k] = row
    BY <1>2, <1>3, <1>4, <1>6, <2>2 DEF Later
  <2>3. CASE k = K + 1 /\ Rows'[k] = <<>>
    BY <1>6, <2>3
  <2> QED BY <1>5, <2>1, <2>2, <2>3
<1> QED BY <1>6

\* A recorded cell keeps the invariant, if it is true of its identity and carries
\* the session of the exchange that took place.
LEMMA RecordRows ==
  ASSUME ReplayInv, NEW cell \in Cells, Record(cell), Len(run.row) < Len(run.ids),
         [AnyStep]_vars, UNCHANGED <<session, now>>, pc'[Command] = "idle",
         CellOK(cell, Len(run.row) + 1),
         cell.sent => At("sent") /\ cell.sess = run.sess
  PROVE  RowsOK'
<1> DEFINE K == Len(run.table) + 1
           N == Len(run.row) + 1
<1>0. /\ RunTypeOK /\ LastingInv /\ run'.src = run.src /\ run'.ids = run.ids
      /\ ~Answered' /\ ~At("sent")' /\ cell.id = CurrentId
  BY RecordEffect DEF ReplayInv, Answered, At, AfterRow, CellOK, CurrentId, RunTypeOK
<1>1. \A k \in DOMAIN Rows' : \A n \in DOMAIN Rows'[k] :
        \/ /\ k \in DOMAIN Rows /\ n \in DOMAIN Rows[k] /\ Rows'[k][n] = Rows[k][n]
           /\ Later(k, n, K, N)
        \/ k = K /\ n = N /\ Rows'[k][n] = cell
  BY <1>0, RowsGrow
<1>2. \A x \in Cells : SentOK(x) => SentOK(x)'
  <2>1. \A x \in Cells : SentOK(x) =>
          /\ x.sent /\ x.id \in Id => Ahead(x.id, x.sess.tok)'
          /\ x.sent /\ x.id \in Id /\ run.src = "own" => x.sess = session[x.id] \/ Expired(x.sess, now)
    BY <1>0, AheadStep DEF SentOK, Cells, Session
  <2> QED BY <1>0, <2>1 DEF SentOK
<1>3. cell.sent /\ cell.id \in Id =>
        /\ Ahead(cell.id, cell.sess.tok)'
        /\ run.src = "own" => cell.sess = session[cell.id]
  <2> SUFFICES ASSUME cell.sent, cell.id \in Id
               PROVE  /\ Ahead(cell.id, cell.sess.tok)'
                      /\ run.src = "own" => cell.sess = session[cell.id]
    OBVIOUS
  <2>1. /\ Ahead(cell.id, cell.sess.tok) /\ cell.sess.tok \in Nat
        /\ run.src = "own" => cell.sess = session[cell.id]
    BY <1>0 DEF ReplayInv, AnswerOK, Cells, Session
  <2> QED BY <1>0, <2>1, AheadStep
<1>4. SentOK(cell)'
  BY <1>0, <1>3 DEF SentOK
<1>5. ASSUME NEW k \in DOMAIN Rows', NEW n \in DOMAIN Rows'[k]
      PROVE  CellOK(Rows[k][n], n)' /\ SentOK(Rows[k][n])'
  <2>1. CASE k \in DOMAIN Rows /\ n \in DOMAIN Rows[k] /\ Rows'[k][n] = Rows[k][n]
    <3>1. CellOK(Rows[k][n], n) /\ SentOK(Rows[k][n]) /\ Rows[k][n] \in Cells
      BY <1>0, <2>1, RowsTyped DEF ReplayInv, RowsOK
    <3> QED BY <1>0, <1>2, <2>1, <3>1 DEF SentOK, CellOK, Ahead, Precedes
  <2>2. CASE k = K /\ n = N /\ Rows'[k][n] = cell
    BY <1>0, <1>4, <2>2 DEF SentOK, CellOK, Ahead, Precedes
  <2> QED BY <1>1, <2>1, <2>2
<1>6. OrderOK'
  <2> SUFFICES ASSUME NEW j \in DOMAIN Rows', NEW k \in DOMAIN Rows',
                      NEW m \in DOMAIN Rows'[j], NEW n \in DOMAIN Rows'[k],
                      Later(j, m, k, n), Rows'[j][m].id = Rows'[k][n].id,
                      Rows'[j][m].sent, Rows'[k][n].sent
               PROVE  Precedes(Rows[j][m].sess, Rows[k][n].sess)'
    BY DEF OrderOK, Later
  <2>0. RunTypeOK /\ K \in Nat /\ N \in Nat
    BY <1>0 DEF RunTypeOK
  <2>1. j \in DOMAIN Rows /\ m \in DOMAIN Rows[j] /\ Rows'[j][m] = Rows[j][m]
    <3>1. CASE j = K /\ m = N
      <4>1. k \in DOMAIN Rows /\ n \in DOMAIN Rows[k] => Later(k, n, K, N)
        BY <1>1, <3>1 DEF Later
      <4>2. k \in DOMAIN Rows /\ n \in DOMAIN Rows[k] => k \in Int /\ n \in Int
        <5>1. Rows \in Seq(Seq(Cells))
          BY <2>0 DEF RunTypeOK, Rows
        <5>2. ASSUME k \in DOMAIN Rows PROVE k \in Int /\ Rows[k] \in Seq(Cells)
          BY <5>1, <5>2
        <5>3. ASSUME NEW s \in Seq(Cells), n \in DOMAIN s PROVE n \in Int
          BY <5>3
        <5> QED BY <5>2, <5>3
      <4>3. ~(k = K /\ n = N) /\ ~(k \in DOMAIN Rows /\ n \in DOMAIN Rows[k])
        BY <2>0, <3>1, <4>1, <4>2 DEF Later
      <4> QED BY <1>1, <4>3
    <3> QED BY <1>1, <3>1
  <2>2. CASE k \in DOMAIN Rows /\ n \in DOMAIN Rows[k] /\ Rows'[k][n] = Rows[k][n]
    <3>1. Precedes(Rows[j][m].sess, Rows[k][n].sess)
      BY <2>1, <2>2 DEF ReplayInv, RowsOK, OrderOK
    <3> QED BY <1>0, <2>1, <2>2, <3>1 DEF Precedes
  <2>3. CASE k = K /\ n = N /\ Rows'[k][n] = cell
    <3> DEFINE x == Rows[j][m]
    <3>1. SentOK(x) /\ CellOK(x, m) /\ x \in Cells /\ x.sent /\ x.id = CurrentId
          /\ At("sent") /\ cell.sess = run.sess
      BY <1>0, <2>1, <2>3, RowsTyped DEF ReplayInv, RowsOK
    <3>2. CASE x.id \in Id
      <4>1. Precedes(x.sess, run.sess)
        BY <3>1, <3>2 DEF SentOK
      <4> QED BY <1>0, <2>1, <2>3, <3>1, <4>1 DEF Precedes
    <3>3. CASE x.id \notin Id
      <4>1. x.sess = Nil /\ cell.sess = Nil
        BY <1>0, <2>3, <3>1, <3>3 DEF CellOK
      <4>2. Nil.tok \in Nat
        BY DEF Nil
      <4> QED BY <2>1, <2>3, <4>1, <4>2 DEF Precedes
    <3> QED BY <3>2, <3>3
  <2> QED BY <1>1, <2>2, <2>3
<1> QED BY <1>5, <1>6 DEF RowsOK

LEMMA RecordStep ==
  ASSUME ReplayInv, NEW cell \in Cells, Record(cell), run.stage \in {"cell", "asked", "sent"},
         [AnyStep]_vars, UNCHANGED <<session, now, control>>,
         pc'[Command] = "idle", \A c \in Caller \ {Command} : pc'[c] = pc[c],
         CellOK(cell, Len(run.row) + 1),
         cell.sent => At("sent") /\ cell.sess = run.sess
  PROVE  ReplayInv'
<1>0. /\ RunTypeOK /\ ProgressOK /\ OwnOK /\ Command \in Caller
      /\ Len(run.row) < Len(run.ids) /\ HasRequest(run.reqs, Len(run.table) + 1)
      /\ run.printed = <<>>
  BY ReplayAssumption DEF ReplayInv, ProgressOK, At
<1>1. /\ RunTypeOK'
      /\ run'.src = run.src /\ run'.ids = run.ids /\ run'.reqs = run.reqs
      /\ run'.file = run.file /\ run'.printed = run.printed /\ run'.sess = Nil
      /\ \/ /\ Len(run.row) + 1 < Len(run.ids) /\ run'.stage = "cell"
            /\ run'.row = Append(run.row, cell) /\ run'.table = run.table
         \/ /\ Len(run.row) + 1 = Len(run.ids) /\ run'.stage = AfterRow
            /\ run'.row = <<>> /\ run'.table = Append(run.table, Append(run.row, cell))
  BY <1>0, RecordEffect
<1>2. LastingInv'
  BY LastingStep DEF ReplayInv
<1>3. /\ run.row \in Seq(Cells) /\ run.table \in Seq(Seq(Cells))
      /\ Append(run.row, cell) \in Seq(Cells) /\ Len(Append(run.row, cell)) = Len(run.row) + 1
      /\ Len(run.row) \in Nat /\ Len(run.table) \in Nat /\ Len(run.ids) \in Nat
  BY <1>0 DEF RunTypeOK
<1>4. run'.stage \in {"cell", "print"}
  BY <1>1 DEF AfterRow
<1>5. ProgressOK'
  <2>1. /\ \A k \in DOMAIN run'.table : Len(run'.table[k]) = Len(run'.ids)
        /\ run'.stage = "print" => run'.row = <<>>
        /\ run'.stage = "cell" =>
             Len(run'.row) < Len(run'.ids) /\ HasRequest(run'.reqs, Len(run'.table) + 1)
    <3>1. CASE run'.row = Append(run.row, cell) /\ run'.table = run.table /\ run'.stage = "cell"
               /\ Len(run.row) + 1 < Len(run.ids)
      BY <1>0, <1>1, <1>3, <3>1 DEF ProgressOK
    <3>2. CASE /\ run'.row = <<>> /\ run'.table = Append(run.table, Append(run.row, cell))
               /\ run'.stage = AfterRow /\ Len(run.row) + 1 = Len(run.ids)
      <4>1. Len(run'.table) = Len(run.table) + 1
            /\ \A k \in DOMAIN run'.table :
                 (k \in DOMAIN run.table /\ run'.table[k] = run.table[k])
                   \/ run'.table[k] = Append(run.row, cell)
        BY <1>3, <3>2
      <4>2. Len(run'.row) = 0 /\ Len(run'.table) + 1 = Len(run.table) + 2
        BY <1>3, <3>2, <4>1
      <4> QED BY <1>0, <1>1, <1>3, <3>2, <4>1, <4>2 DEF ProgressOK, AfterRow, HasRequest
    <3> QED BY <1>1, <3>1, <3>2
  <2> QED BY <1>0, <1>1, <1>4, <2>1 DEF ProgressOK, At, CurrentId, HasRequest
<1>6. AnswerOK'
  BY <1>4 DEF AnswerOK, Answered, At
<1>7. RowsOK'
  BY <1>0, RecordRows
<1>8. OwnOK'
  BY <1>0, <1>1 DEF OwnOK, Listening, control
<1>9. ReportHonest'
  <2>1. (~At("done") => ReportHonest)'
    BY NothingPrinted, PTL
  <2> QED BY <1>4, <2>1 DEF At
<1> QED BY <1>1, <1>2, <1>5, <1>6, <1>7, <1>8, <1>9 DEF ReplayInv

LEMMA CellTypes ==
  ASSUME ReplayInv, run.stage \in {"cell", "asked", "sent"},
         NEW err \in BOOLEAN, NEW status \in Statuses \cup {0}, NEW sent \in BOOLEAN
  PROVE  /\ Cell(err, status, sent) \in Cells
         /\ CurrentId \in Id \cup Unmanaged
         /\ ~sent => CellOK(Cell(err, status, sent), Len(run.row) + 1)
         /\ At("sent") => CellOK(Cell(err, status, sent), Len(run.row) + 1)
<1>1. CurrentId \in Id \cup Unmanaged /\ run.sess \in Session
  BY DEF ReplayInv, RunTypeOK, ProgressOK, CurrentId
<1>2. CurrentReq.headers \cap IdentityHeaders = {}
  BY DEF ReplayInv, ProgressOK, CurrentReq, HasRequest
<1>3. At("sent") => (run.sess = Nil <=> CurrentId = Anon) /\ (CurrentId # Anon => CurrentId \in Id)
  BY DEF ReplayInv, ProgressOK
<1> QED BY <1>1, <1>2, <1>3 DEF Cell, Cells, CellOK, CurrentId

-----------------------------------------------------------------------------
(* The actions of the command.                                             *)

LEMMA RefuseStep ==
  ASSUME ReplayInv, At("start"), Refuse, UNCHANGED <<vars, control>>
  PROVE  ReplayInv'
<1>0. /\ run = NotRun /\ pc[Command] = "idle" /\ RunTypeOK /\ run.printed = <<>>
  BY DEF ReplayInv, ProgressOK, At, NotRun
<1>1. run' = [NotRun EXCEPT !.stage = "done", !.exit = 1]
  BY <1>0 DEF Refuse
<1>2. /\ DOMAIN run' = DOMAIN NotRun /\ run'.stage = "done" /\ run'.src = "none" /\ run'.exit = 1
      /\ run'.ids = <<>> /\ run'.row = <<>> /\ run'.table = <<>> /\ run'.sess = Nil
      /\ run'.reqs = <<>> /\ run'.printed = <<>>
  BY <1>1 DEF NotRun
<1>3. LastingInv'
  BY LastingStep DEF ReplayInv, vars
<1>4. UNCHANGED <<pc, want, res, session, socket>>
  BY DEF vars, entry, call, control
<1>5. RunTypeOK'
  BY <1>2, NilSession DEF RunTypeOK
<1>6. ProgressOK'
  BY <1>0, <1>2, <1>4 DEF ProgressOK, At
<1>7. AnswerOK' /\ RowsOK'
  <2>1. DOMAIN Rows' = {1} /\ Rows'[1] = <<>>
    BY <1>2 DEF Rows
  <2> QED BY <1>0, <1>2, <1>4, <2>1 DEF AnswerOK, Answered, At, RowsOK, OrderOK
<1>8. OwnOK'
  BY <1>0, <1>2, <1>4 DEF ReplayInv, OwnOK, Listening, NotRun
<1>9. ReportHonest'
  <2>1. ~Printed' /\ ExitHonest'
    BY <1>2 DEF Printed, ExitHonest
  <2> QED BY <2>1 DEF ReportHonest, MarkerHonest, OneIdentityPerCell, RunNeverRegresses,
                      OneSessionPerIdentity
<1> QED BY <1>3, <1>5, <1>6, <1>7, <1>8, <1>9 DEF ReplayInv

LEMMA LaunchStep ==
  ASSUME ReplayInv, At("start"), NEW ids \in AsLists, ids # <<>>, NEW reqs, HasRequest(reqs, 1),
         \A k \in DOMAIN reqs : reqs[k].headers \cap IdentityHeaders = {},
         NEW f, NEW unsafe, Launch(ids, reqs, f, unsafe), UNCHANGED <<vars, control>>
  PROVE  ReplayInv'
<1>0. run = NotRun /\ pc[Command] = "idle"
  BY DEF ReplayInv, ProgressOK, At
<1> DEFINE src == IF SocketExists THEN "daemon" ELSE "own"
<1>1. run' = [NotRun EXCEPT !.stage = "cell", !.ids = ids, !.reqs = reqs, !.file = f,
                            !.unsafe = unsafe, !.src = src]
  BY <1>0 DEF Launch
<1> HIDE DEF src
<1>2. /\ DOMAIN run' = DOMAIN NotRun /\ run'.stage = "cell" /\ run'.src = src
      /\ run'.ids = ids /\ run'.row = <<>> /\ run'.table = <<>> /\ run'.sess = Nil
      /\ run'.reqs = reqs /\ run'.printed = <<>>
  BY <1>1 DEF NotRun
<1>3. LastingInv'
  BY LastingStep DEF ReplayInv, vars
<1>4. UNCHANGED <<pc, want, res, session, socket>>
  BY DEF vars, entry, call, control
<1>5. ids \in Seq(Id \cup Unmanaged) /\ Len(ids) > 0
  <2>1. ids \in Seq(Id \cup Unmanaged)
    BY ReplayAssumption
  <2> QED BY <2>1
<1>6. RunTypeOK'
  BY <1>2, <1>5, NilSession DEF RunTypeOK, src
<1>7. ProgressOK'
  BY <1>0, <1>2, <1>4, <1>5 DEF ProgressOK, At, HasRequest
<1>8. AnswerOK' /\ RowsOK'
  <2>1. DOMAIN Rows' = {1} /\ Rows'[1] = <<>>
    BY <1>2 DEF Rows
  <2> QED BY <1>0, <1>2, <1>4, <2>1 DEF AnswerOK, Answered, At, RowsOK, OrderOK
<1>9. OwnOK'
  <2>1. src = "own" => socket = "none"
    BY DEF src, SocketExists
  <2>2. ~Listening => \A c \in Caller : pc[c] = "idle"
    BY <1>0 DEF ReplayInv, OwnOK, NotRun
  <2> QED BY <1>0, <1>2, <1>4, <2>1, <2>2 DEF OwnOK, Listening
<1>10. ReportHonest'
  BY <1>2 DEF ReportHonest, MarkerHonest, ExitHonest, OneIdentityPerCell, RunNeverRegresses,
              OneSessionPerIdentity, Printed, At
<1> QED BY <1>3, <1>6, <1>7, <1>8, <1>9, <1>10 DEF ReplayInv

LEMMA BeginStep == ReplayInv /\ Begin => ReplayInv'
<1> SUFFICES ASSUME ReplayInv, Begin PROVE ReplayInv'
  OBVIOUS
<1>1. PICK ids \in AsLists :
        \/ \E method \in Methods : RunPath(ids, method)
        \/ \E f \in Files, format \in Formats \cup {""}, unsafe \in BOOLEAN :
             RunCorpus(ids, f, format, unsafe)
  BY DEF Begin
<1>2. ASSUME NEW method \in Methods, RunPath(ids, method) PROVE ReplayInv'
  <2>1. CASE Refuse
    BY <1>2, <2>1, RefuseStep DEF RunPath
  <2>2. CASE ids # <<>> /\ Launch(ids, <<Shape(method, 0)>>, NoFile, FALSE)
    <3>1. HasRequest(<<Shape(method, 0)>>, 1)
          /\ \A k \in DOMAIN <<Shape(method, 0)>> :
               <<Shape(method, 0)>>[k].headers \cap IdentityHeaders = {}
      BY DEF HasRequest, Shape, Request
    <3> QED BY <1>2, <2>2, <3>1, LaunchStep DEF RunPath
  <2> QED BY <1>2, <2>1, <2>2 DEF RunPath
<1>3. ASSUME NEW f \in Files, NEW format \in Formats \cup {""}, NEW unsafe \in BOOLEAN,
             RunCorpus(ids, f, format, unsafe)
      PROVE  ReplayInv'
  <2>1. CASE Refuse
    BY <1>3, <2>1, RefuseStep DEF RunCorpus
  <2>2. CASE /\ ids # <<>> /\ HasRequest(LoadOptions(f, format, unsafe).reqs, 1)
             /\ Launch(ids, LoadOptions(f, format, unsafe).reqs, f, unsafe)
    BY <1>3, <2>2, LoadedClean, LaunchStep DEF RunCorpus
  <2> QED BY <1>3, <2>1, <2>2 DEF RunCorpus
<1> QED BY <1>1, <1>2, <1>3

\* The cells that fail before anything is sent, and the exchange.
LEMMA FailedStep == ReplayInv /\ (RequestFails \/ DialFails \/ ConnectionLost) => ReplayInv'
<1> SUFFICES ASSUME ReplayInv, RequestFails \/ DialFails \/ ConnectionLost PROVE ReplayInv'
  OBVIOUS
<1>1. /\ run.stage \in {"cell", "asked"} /\ Record(Cell(TRUE, 0, FALSE)) /\ pc[Command] = "idle"
      /\ UNCHANGED <<vars, control>>
  BY DEF RequestFails, DialFails, ConnectionLost, At, ReplayInv, ProgressOK
<1>2. Cell(TRUE, 0, FALSE) \in Cells /\ CellOK(Cell(TRUE, 0, FALSE), Len(run.row) + 1)
      /\ ~Cell(TRUE, 0, FALSE).sent
  BY <1>1, CellTypes DEF Cell
<1>3. [AnyStep]_vars /\ UNCHANGED <<session, now, control, pc>>
  BY <1>1 DEF vars, entry, call
<1> QED BY <1>1, <1>2, <1>3, RecordStep

LEMMA ExchangeStep == ReplayInv /\ Exchange => ReplayInv'
<1> SUFFICES ASSUME ReplayInv, Exchange PROVE ReplayInv'
  OBVIOUS
<1>1. PICK err \in BOOLEAN, status \in Statuses \cup {0} : Record(Cell(err, status, TRUE))
  BY ReplayAssumption DEF Exchange
<1>2. At("sent") /\ run.stage = "sent" /\ pc[Command] = "idle" /\ UNCHANGED <<vars, control>>
  BY DEF Exchange, At, ReplayInv, ProgressOK
<1>3. Cell(err, status, TRUE) \in Cells /\ CellOK(Cell(err, status, TRUE), Len(run.row) + 1)
      /\ Cell(err, status, TRUE).sess = run.sess
  BY <1>2, CellTypes DEF Cell
<1>4. [AnyStep]_vars /\ UNCHANGED <<session, now, control, pc>>
  BY <1>2 DEF vars, entry, call
<1> QED BY <1>1, <1>2, <1>3, <1>4, RecordStep

\* Moving on to another stage of the same cell.
LEMMA SendBareStep == ReplayInv /\ SendBare => ReplayInv'
<1> SUFFICES ASSUME ReplayInv, SendBare PROVE ReplayInv'
  OBVIOUS
<1>0. /\ RunTypeOK /\ ProgressOK /\ OwnOK /\ run.stage = "cell" /\ pc[Command] = "idle"
      /\ run.sess = Nil /\ CurrentId = Anon /\ UNCHANGED <<vars, control>>
  BY DEF ReplayInv, ProgressOK, SendBare, At
<1>1. /\ DOMAIN run' = DOMAIN run /\ run'.stage = "sent" /\ run'.src = run.src
      /\ run'.ids = run.ids /\ run'.row = run.row /\ run'.table = run.table
      /\ run'.sess = run.sess /\ run'.reqs = run.reqs /\ run'.printed = run.printed
  BY <1>0 DEF SendBare, RunTypeOK, NotRun
<1>2. LastingInv' /\ UNCHANGED <<session, now, pc, want, res, socket>> /\ [AnyStep]_vars
  BY <1>0, LastingStep DEF ReplayInv, vars, entry, call, control
<1>3. CurrentId' = Anon /\ Anon \notin Id
  BY <1>0, <1>1, ReplayAssumption, StoreAssumption DEF CurrentId
<1>4. RunTypeOK' /\ ProgressOK' /\ OwnOK'
  BY <1>0, <1>1, <1>2, <1>3
     DEF RunTypeOK, ProgressOK, OwnOK, At, CurrentId, Listening, HasRequest
<1>5. AnswerOK' /\ RowsOK'
  BY <1>0, <1>1, <1>2, <1>3, SameRows DEF AnswerOK, Answered
<1>6. ReportHonest'
  <2>1. (~At("done") => ReportHonest)'
    BY NothingPrinted, PTL
  <2> QED BY <1>1, <2>1 DEF At
<1> QED BY <1>2, <1>4, <1>5, <1>6 DEF ReplayInv

LEMMA AskStep == ReplayInv /\ AskSession => ReplayInv'
<1> SUFFICES ASSUME ReplayInv, AskSession PROVE ReplayInv'
  OBVIOUS
<1>0. /\ RunTypeOK /\ ProgressOK /\ OwnOK /\ LastingInv /\ run.stage = "cell" /\ run.sess = Nil
      /\ CurrentId # Anon /\ CallGet(Command, CurrentId) /\ UNCHANGED control
      /\ Command \in Caller /\ StoreUp
  BY ReplayAssumption DEF ReplayInv, ProgressOK, AskSession, At
<1>1. /\ DOMAIN run' = DOMAIN run /\ run'.stage = "asked" /\ run'.src = run.src
      /\ run'.ids = run.ids /\ run'.row = run.row /\ run'.table = run.table
      /\ run'.sess = run.sess /\ run'.reqs = run.reqs /\ run'.printed = run.printed
  BY <1>0 DEF AskSession, RunTypeOK, NotRun
<1>2. CurrentId' = CurrentId /\ CurrentId \in Id \cup Unmanaged
  BY <1>0, <1>1, CellTypes DEF CurrentId
<1>3. [AnyStep]_vars /\ UNCHANGED <<session, now, socket>>
  BY <1>0, <1>2 DEF AnyStep, CallGet, entry, control
<1>4. LastingInv'
  BY <1>0, <1>3, LastingStep
<1>5. /\ pc'[Command] \in {"getWait", "returned"} /\ want'[Command] = CurrentId
      /\ \A c \in Caller \ {Command} : pc'[c] = pc[c]
      /\ Answered' => /\ CurrentId \in Id /\ session[CurrentId] # Nil
                      /\ res'[Command].sess = session[CurrentId]
  <2>1. pc \in [Caller -> Place] /\ res \in [Caller -> Result]
        /\ want \in [Caller -> Id \cup Unmanaged \cup {NoId}]
    BY <1>0 DEF LastingInv, TypeOK
  <2>2. CASE Finish(Command, Answer("unknown", Nil))
    BY <1>0, <2>1, <2>2 DEF CallGet, Finish, Answered, Answer
  <2>3. CASE CurrentId \in Id /\ Usable(session[CurrentId]) /\ Finish(Command, Ok(session[CurrentId]))
    BY <1>0, <2>1, <2>3 DEF CallGet, Finish, Answered, Answer, Ok, Usable
  <2>4. CASE Goto(Command, "getWait")
    BY <1>0, <2>1, <2>4 DEF CallGet, Goto, Answered
  <2> QED BY <1>0, <2>2, <2>3, <2>4 DEF CallGet
<1>6. RunTypeOK' /\ ProgressOK'
  BY <1>0, <1>1, <1>2, <1>5 DEF RunTypeOK, ProgressOK, At, HasRequest
<1>7. AnswerOK'
  <2>1. (LastingInv => \A i \in Id : Ahead(i, session[i].tok))'
    BY StoredAhead, PTL
  <2> QED BY <1>1, <1>3, <1>4, <1>5, <2>1 DEF AnswerOK, At
<1>8. RowsOK'
  BY <1>1, <1>3, <1>5, SameRows DEF At
<1>9. OwnOK'
  BY <1>0, <1>1, <1>3, <1>5 DEF OwnOK, StoreUp, Listening
<1>10. ReportHonest'
  <2>1. (~At("done") => ReportHonest)'
    BY NothingPrinted, PTL
  <2> QED BY <1>1, <2>1 DEF At
<1> QED BY <1>4, <1>6, <1>7, <1>8, <1>9, <1>10 DEF ReplayInv

LEMMA TakeStep == ReplayInv /\ TakeSession => ReplayInv'
<1> SUFFICES ASSUME ReplayInv, TakeSession PROVE ReplayInv'
  OBVIOUS
<1>0. /\ RunTypeOK /\ ProgressOK /\ OwnOK /\ LastingInv /\ run.stage = "asked" /\ run.sess = Nil
      /\ CurrentId # Anon /\ Return(Command) /\ UNCHANGED control /\ Command \in Caller
      /\ pc[Command] = "returned" /\ want[Command] = CurrentId /\ run.printed = <<>>
  BY ReplayAssumption DEF ReplayInv, ProgressOK, TakeSession, At, Return
<1>1. [AnyStep]_vars /\ UNCHANGED <<session, now, socket>>
  BY <1>0 DEF AnyStep, CallerStep, Return, entry, control
<1>2. pc'[Command] = "idle" /\ \A c \in Caller \ {Command} : pc'[c] = pc[c]
  BY <1>0 DEF Return, LastingInv, TypeOK
<1>3. CASE res[Command].kind = "ok"
  <2>0. /\ CurrentId \in Id /\ res[Command].sess # Nil /\ res[Command].sess \in Session
        /\ Ahead(CurrentId, res[Command].sess.tok)
        /\ run.src = "own" => res[Command].sess = session[CurrentId]
    BY <1>0, <1>3 DEF ReplayInv, AnswerOK, Answered, LastingInv, TypeOK, Result
  <2>1. /\ DOMAIN run' = DOMAIN run /\ run'.stage = "sent" /\ run'.src = run.src
        /\ run'.ids = run.ids /\ run'.row = run.row /\ run'.table = run.table
        /\ run'.sess = res[Command].sess /\ run'.reqs = run.reqs /\ run'.printed = run.printed
    BY <1>0, <1>3 DEF TakeSession, RunTypeOK, NotRun
  <2>2. CurrentId' = CurrentId
    BY <2>1 DEF CurrentId
  <2>3. LastingInv'
    BY <1>0, <1>1, LastingStep
  <2>4. RunTypeOK' /\ ProgressOK'
    BY <1>0, <1>2, <2>0, <2>1, <2>2 DEF RunTypeOK, ProgressOK, At, HasRequest
  <2>5. AnswerOK'
    <3>1. res[Command].sess.tok \in Nat
      BY <2>0 DEF Session
    <3>2. \A n \in Nat : Ahead(CurrentId, n) =>
            /\ n <= logins'
            /\ session'[CurrentId] # Nil => n <= session'[CurrentId].tok
            /\ \A c \in Caller : LoggingIn(c)' /\ want'[c] = CurrentId => n < login'[c]
      <4>1. \A i \in Id, n \in Nat : Ahead(i, n) => Ahead(i, n)'
        BY <1>0, <1>1, AheadStep
      <4> QED BY <2>0, <4>1 DEF Ahead
    <3>3. Ahead(CurrentId, run.sess.tok)'
      BY <2>0, <2>1, <2>2, <3>1, <3>2 DEF Ahead
    <3> QED BY <1>1, <1>2, <2>0, <2>1, <2>2, <3>3 DEF AnswerOK, Answered
  <2>6. RowsOK'
    BY <1>0, <1>1, <1>2, <1>3, <2>1, <2>2, SameRows DEF Answered
  <2>7. OwnOK'
    BY <1>0, <1>1, <1>2, <2>1 DEF OwnOK, Listening
  <2>8. ReportHonest'
    <3>1. (~At("done") => ReportHonest)'
      BY NothingPrinted, PTL
    <3> QED BY <2>1, <3>1 DEF At
  <2> QED BY <2>3, <2>4, <2>5, <2>6, <2>7, <2>8 DEF ReplayInv
<1>4. CASE res[Command].kind # "ok"
  <2>1. Record(Cell(TRUE, 0, FALSE))
    BY <1>4 DEF TakeSession
  <2>2. Cell(TRUE, 0, FALSE) \in Cells /\ CellOK(Cell(TRUE, 0, FALSE), Len(run.row) + 1)
        /\ ~Cell(TRUE, 0, FALSE).sent
    BY <1>0, CellTypes DEF Cell
  <2> QED BY <1>0, <1>1, <1>2, <2>1, <2>2, RecordStep
<1> QED BY <1>3, <1>4

-----------------------------------------------------------------------------
(* The report.                                                             *)

\* Two statuses among a row's answers, counted or compared.
LEMMA MarkedRow ==
  ASSUME NEW row \in Seq(Cells)
  PROVE  Differs(row) <=> Cardinality(Answers(row)) > 1
<1> DEFINE answered == {n \in DOMAIN row : ~row[n].err}
           statusOf == [n \in answered |-> row[n].status]
<1>1. IsFiniteSet(answered)
  <2>1. Len(row) \in Nat /\ DOMAIN row = 1 .. Len(row) /\ answered \in SUBSET (1 .. Len(row))
    OBVIOUS
  <2>2. IsFiniteSet(1 .. Len(row))
    BY <2>1, FS_Interval
  <2> HIDE DEF answered
  <2> QED BY <2>1, <2>2, FS_Subset
<1>2. statusOf \in Surjection(answered, Answers(row))
  BY DEF Answers, Surjection
<1>3. IsFiniteSet(Answers(row))
  <2> HIDE DEF answered, statusOf
  <2> QED BY <1>1, <1>2, FS_Surjection
<1>4. Cardinality(Answers(row)) \in Nat
  BY <1>3, FS_CardinalityType
<1>5. Cardinality(Answers(row)) = 0 <=> Answers(row) = {}
  BY <1>3, FS_EmptySet
<1>6. Cardinality(Answers(row)) = 1 <=> \E s : Answers(row) = {s}
  BY <1>3, FS_Singleton
<1>7. Differs(row) <=> \E s, t \in Answers(row) : s # t
  BY DEF Differs, Answers
<1>8. (\E s, t \in Answers(row) : s # t)
        <=> Answers(row) # {} /\ ~\E s : Answers(row) = {s}
  OBVIOUS
<1>9. Differs(row) <=> Cardinality(Answers(row)) # 0 /\ Cardinality(Answers(row)) # 1
  BY <1>5, <1>6, <1>7, <1>8, Zenon
<1>10. \A n \in Nat : n # 0 /\ n # 1 <=> n > 1
  OBVIOUS
<1> QED BY <1>4, <1>9, <1>10, Zenon

\* The finished rows, as they are printed.
LEMMA ReportEffect ==
  ASSUME ReplayInv, Report
  PROVE  /\ DOMAIN run' = DOMAIN run /\ run'.stage = "done" /\ run'.src = run.src
         /\ run'.ids = run.ids /\ run'.reqs = run.reqs /\ run'.file = run.file
         /\ run'.row = run.row /\ run.row = <<>> /\ run'.table = <<>> /\ run'.sess = Nil
         /\ run'.exit = ExitCode(run.table)
         /\ DOMAIN run'.printed = DOMAIN run.table
         /\ \A k \in DOMAIN run.table :
              /\ run'.printed[k].marked = (WithCorpus /\ Differs(run.table[k]))
              /\ run'.printed[k].cells = run.table[k]
<1>1. DOMAIN run = DOMAIN NotRun /\ run.row = <<>> /\ run.sess = Nil
  BY DEF ReplayInv, RunTypeOK, ProgressOK, Report, At
<1>2. run' = [run EXCEPT !.stage = "done", !.exit = ExitCode(run.table),
                         !.printed = [k \in DOMAIN run.table |-> PrintedRow(k)],
                         !.table = <<>>]
  BY DEF Report
<1>3. \A k : PrintedRow(k).marked = (WithCorpus /\ Differs(run.table[k]))
             /\ PrintedRow(k).cells = run.table[k]
  BY DEF PrintedRow
<1>4. /\ DOMAIN run' = DOMAIN run /\ run'.stage = "done" /\ run'.src = run.src
      /\ run'.ids = run.ids /\ run'.reqs = run.reqs /\ run'.file = run.file
      /\ run'.row = run.row /\ run'.table = <<>> /\ run'.sess = run.sess
      /\ run'.exit = ExitCode(run.table)
      /\ run'.printed = [k \in DOMAIN run.table |-> PrintedRow(k)]
  BY <1>1, <1>2 DEF NotRun
<1> HIDE DEF PrintedRow
<1> QED BY <1>1, <1>3, <1>4

\* A row of the table is a row of Rows.
LEMMA TableRows ==
  ASSUME ReplayInv, NEW k \in DOMAIN run.table
  PROVE  /\ k \in DOMAIN Rows /\ Rows[k] = run.table[k] /\ run.table[k] \in Seq(Cells)
         /\ DOMAIN run.table[k] = DOMAIN run.ids
<1>1. run.table \in Seq(Seq(Cells)) /\ run.ids \in Seq(Id \cup Unmanaged)
      /\ Len(run.table[k]) = Len(run.ids)
  BY DEF ReplayInv, RunTypeOK, ProgressOK
<1> QED BY <1>1 DEF Rows

\* What the marker and the exit code say of the rows printed.
LEMMA ReportMarks == ReplayInv /\ Report => MarkerHonest' /\ ExitHonest'
<1> SUFFICES ASSUME ReplayInv, Report PROVE MarkerHonest' /\ ExitHonest'
  OBVIOUS
<1>1. /\ run'.file = run.file /\ run'.exit = ExitCode(run.table)
      /\ DOMAIN run'.printed = DOMAIN run.table
      /\ \A k \in DOMAIN run.table :
           /\ run'.printed[k].marked = (WithCorpus /\ Differs(run.table[k]))
           /\ run'.printed[k].cells = run.table[k]
  BY ReportEffect
<1>2. \A k \in DOMAIN run.table : Differs(run.table[k]) <=> Cardinality(Answers(run.table[k])) > 1
  BY TableRows, MarkedRow
<1>3. WithCorpus' = WithCorpus
  BY <1>1 DEF WithCorpus
<1>4. MarkerHonest'
  <2> SUFFICES ASSUME WithCorpus, NEW k \in DOMAIN run.table
               PROVE  run'.printed[k].marked <=> Cardinality(Answers(run.table[k])) > 1
    BY <1>1, <1>3 DEF MarkerHonest
  <2> QED BY <1>1, <1>2
<1>5. ExitHonest'
  <2>1. ExitCode(run.table) = 0 <=> \E k \in DOMAIN run.table :
                                      \E n \in DOMAIN run.table[k] : ~run.table[k][n].err
    BY DEF ExitCode, RowFailed
  <2> QED BY <1>1, <2>1 DEF ExitHonest
<1> QED BY <1>4, <1>5

\* What the cells printed say of the sessions they were sent with.
LEMMA ReportSessions ==
  ReplayInv /\ Report => (OneIdentityPerCell /\ RunNeverRegresses /\ OneSessionPerIdentity)'
<1> SUFFICES ASSUME ReplayInv, Report
             PROVE  (OneIdentityPerCell /\ RunNeverRegresses /\ OneSessionPerIdentity)'
  OBVIOUS
<1>1. /\ run'.src = run.src /\ run'.ids = run.ids /\ DOMAIN run'.printed = DOMAIN run.table
      /\ \A k \in DOMAIN run.table : run'.printed[k].cells = run.table[k]
      /\ now' = now
  BY ReportEffect DEF Report, vars
<1>2. \A k \in DOMAIN run.table : \A n \in DOMAIN run.table[k] : CellOK(run.table[k][n], n)
  BY TableRows DEF ReplayInv, RowsOK
<1>3. OneIdentityPerCell'
  BY <1>1, <1>2 DEF OneIdentityPerCell, CellOK
<1>4. ASSUME NEW p \in SentPairs'
      PROVE  Precedes(run.table[p.j][p.m].sess, run.table[p.k][p.n].sess)
             /\ Sent(p.j, p.m)' = run.table[p.j][p.m].sess
             /\ Sent(p.k, p.n)' = run.table[p.k][p.n].sess
  <2>1. /\ p.j \in DOMAIN run.table /\ p.k \in DOMAIN run.table
        /\ p.m \in DOMAIN run.ids /\ p.n \in DOMAIN run.ids
        /\ Later(p.j, p.m, p.k, p.n) /\ run.ids[p.m] = run.ids[p.n]
        /\ run.table[p.j][p.m].sent /\ run.table[p.k][p.n].sent
    BY <1>1 DEF SentPairs, Later
  <2>2. /\ p.j \in DOMAIN Rows /\ Rows[p.j] = run.table[p.j] /\ p.m \in DOMAIN run.table[p.j]
        /\ p.k \in DOMAIN Rows /\ Rows[p.k] = run.table[p.k] /\ p.n \in DOMAIN run.table[p.k]
    BY <2>1, TableRows
  <2>3. run.table[p.j][p.m].id = run.table[p.k][p.n].id
    BY <1>2, <2>1, <2>2 DEF CellOK
  <2>4. Precedes(run.table[p.j][p.m].sess, run.table[p.k][p.n].sess)
    BY <2>1, <2>2, <2>3 DEF ReplayInv, RowsOK, OrderOK
  <2> QED BY <1>1, <2>1, <2>4 DEF Sent
<1>5. RunNeverRegresses'
  BY <1>4 DEF RunNeverRegresses, Precedes
<1>6. OneSessionPerIdentity'
  BY <1>1, <1>4 DEF OneSessionPerIdentity, Precedes, Expired
<1> QED BY <1>3, <1>5, <1>6

LEMMA ReportStep == ReplayInv /\ Report => ReplayInv'
<1> SUFFICES ASSUME ReplayInv, Report PROVE ReplayInv'
  OBVIOUS
<1>0. /\ RunTypeOK /\ ProgressOK /\ OwnOK /\ LastingInv /\ run.stage = "print"
      /\ pc[Command] = "idle" /\ UNCHANGED <<vars, control>>
  BY DEF ReplayInv, ProgressOK, Report, At
<1>1. /\ DOMAIN run' = DOMAIN run /\ run'.stage = "done" /\ run'.src = run.src
      /\ run'.ids = run.ids /\ run'.reqs = run.reqs
      /\ run'.row = <<>> /\ run'.table = <<>> /\ run'.sess = Nil
  BY ReportEffect
<1>2. LastingInv' /\ UNCHANGED <<session, now, pc, want, res, socket>>
  BY <1>0, LastingStep DEF vars, entry, call, control
<1>3. RunTypeOK'
  BY <1>0, <1>1, NilSession DEF RunTypeOK
<1>4. ProgressOK'
  BY <1>0, <1>1, <1>2 DEF ProgressOK, At
<1>5. AnswerOK' /\ RowsOK'
  <2>1. DOMAIN Rows' = {1} /\ Rows'[1] = <<>>
    BY <1>1 DEF Rows
  <2> QED BY <1>0, <1>1, <1>2, <2>1 DEF AnswerOK, Answered, At, RowsOK, OrderOK
<1>6. OwnOK'
  BY <1>0, <1>1, <1>2 DEF OwnOK, Listening
<1>7. ReportHonest'
  BY ReportMarks, ReportSessions DEF ReportHonest
<1> QED BY <1>2, <1>3, <1>4, <1>5, <1>6, <1>7 DEF ReplayInv

-----------------------------------------------------------------------------
(* The matrix.                                                             *)

\* A file that is read is of one of the three formats.
LEMMA LoadedKind ==
  ASSUME NEW f, NEW format \in Formats \cup {""}, NEW unsafe, LoadOptions(f, format, unsafe).ok
  PROVE  f.kind # "path"
<1>1. ~Failed.ok
  BY DEF Failed
<1>2. DetectFormat(f) \in Formats
  BY DEF DetectFormat, Formats
<1> DEFINE as == IF format = "" THEN DetectFormat(f) ELSE format
<1>3. as \in Formats
  BY <1>2 DEF Formats
<1>4. f.kind # as => LoadOptions(f, format, unsafe) = Failed
  BY DEF LoadOptions
<1> HIDE DEF as
<1> QED BY <1>1, <1>3, <1>4 DEF Formats

LEMMA SourceStays ==
  ASSUME SourceOK, run'.file = run.file, run'.unsafe = run.unsafe, run'.reqs = run.reqs
  PROVE  SourceOK'
BY DEF SourceOK, WithCorpus

\* The steps that leave the finished rows alone.
LEMMA FollowMoves ==
  ASSUME FollowOK, run.stage \in {"cell", "asked", "sent"},
         run'.stage \in {"cell", "asked", "sent"},
         run'.file = run.file, run'.unsafe = run.unsafe, run'.reqs = run.reqs,
         run'.table = run.table
  PROVE  FollowOK'
<1>1. SourceOK'
  BY SourceStays DEF FollowOK
<1>2. ~Printed' /\ ~At("print")'
  BY DEF Printed, At
<1> QED BY <1>1, <1>2 DEF FollowOK, MatrixFollows, HasRequest

LEMMA FollowRecord ==
  ASSUME ReplayInv, FollowOK, NEW cell \in Cells, Record(cell),
         run.stage \in {"cell", "asked", "sent"}
  PROVE  FollowOK'
<1>0. /\ RunTypeOK /\ run.printed = <<>> /\ Len(run.row) < Len(run.ids)
      /\ HasRequest(run.reqs, Len(run.table) + 1)
      /\ run.table \in Seq(Seq(Cells)) /\ Len(run.table) \in Nat
  BY DEF ReplayInv, ProgressOK, At, RunTypeOK
<1>1. /\ run'.reqs = run.reqs /\ run'.file = run.file
      /\ \/ run'.stage = "cell" /\ run'.table = run.table
         \/ run'.stage = AfterRow /\ run'.table = Append(run.table, Append(run.row, cell))
  BY <1>0, RecordEffect
<1>2. run'.unsafe = run.unsafe
  BY <1>0 DEF Record, RunTypeOK, NotRun
<1>3. CASE run'.stage = "cell" /\ run'.table = run.table
  BY <1>1, <1>2, <1>3, FollowMoves
<1>4. CASE run'.stage = AfterRow /\ run'.table = Append(run.table, Append(run.row, cell))
  <2>1. run'.stage \in {"cell", "print"} /\ ~Printed'
    BY <1>4 DEF AfterRow, Printed, At
  <2>2. SourceOK'
    BY <1>1, <1>2, SourceStays DEF FollowOK
  <2>3. Len(run'.table) = Len(run.table) + 1 /\ DOMAIN run'.table = 1 .. Len(run.table) + 1
        /\ DOMAIN run.table = 1 .. Len(run.table)
    <3>1. Append(run.row, cell) \in Seq(Cells)
      BY <1>0 DEF RunTypeOK
    <3> QED BY <1>0, <1>4, <3>1
  <2>4. \A k \in DOMAIN run'.table : HasRequest(run'.reqs, k)
    BY <1>0, <1>1, <2>3 DEF FollowOK
  <2>5. run'.stage = "print" =>
          run'.table # <<>> /\ ~HasRequest(run'.reqs, Len(run'.table) + 1)
    <3>1. run'.table # <<>>
      BY <1>0, <2>3
    <3>2. Len(run'.table) + 1 = Len(run.table) + 2
      BY <1>0, <2>3
    <3>3. run'.stage = "print" => ~HasRequest(run.reqs, Len(run.table) + 2)
      BY <1>4 DEF AfterRow
    <3> QED BY <1>1, <3>1, <3>2, <3>3
  <2> QED BY <2>1, <2>2, <2>4, <2>5 DEF FollowOK, MatrixFollows, At, HasRequest
<1> QED BY <1>1, <1>3, <1>4

\* What is printed has the rows of the table.
LEMMA FollowReport == ReplayInv /\ FollowOK /\ Report => FollowOK'
<1> SUFFICES ASSUME ReplayInv, FollowOK, Report PROVE FollowOK'
  OBVIOUS
<1>0. /\ RunTypeOK /\ ProgressOK /\ run.stage = "print" /\ run.table \in Seq(Seq(Cells))
      /\ run.ids \in Seq(Id \cup Unmanaged)
  BY DEF ReplayInv, Report, At, RunTypeOK
<1>1. /\ run'.stage = "done" /\ run'.ids = run.ids /\ run'.reqs = run.reqs
      /\ run'.file = run.file /\ run'.unsafe = run.unsafe
      /\ run'.printed = [k \in DOMAIN run.table |-> PrintedRow(k)]
  BY <1>0 DEF Report, RunTypeOK, NotRun
<1>2. SourceOK'
  BY <1>0, <1>1, SourceStays DEF FollowOK
<1>3. ASSUME NEW k \in DOMAIN run.table
      PROVE  /\ HasRequest(run.reqs, k)
             /\ run'.printed[k].req = run.reqs[k] /\ run'.printed[k].cells = run.table[k]
  BY <1>0, <1>1 DEF FollowOK, PrintedRow
<1>4. ASSUME NEW k \in DOMAIN run.table
      PROVE  [n \in DOMAIN run.table[k] |-> run.table[k][n].id] = run.ids
  <2>1. DOMAIN run.table[k] = DOMAIN run.ids /\ k \in DOMAIN Rows /\ Rows[k] = run.table[k]
    BY TableRows
  <2>2. \A n \in DOMAIN run.table[k] : run.table[k][n].id = run.ids[n]
    BY <2>1 DEF ReplayInv, RowsOK, CellOK
  <2>3. run.ids = [n \in DOMAIN run.ids |-> run.ids[n]]
    BY <1>0
  <2> QED BY <2>1, <2>2, <2>3
<1>5. Len(run'.printed) = Len(run.table) /\ DOMAIN run'.printed = DOMAIN run.table
  <2> HIDE DEF PrintedRow
  <2> DEFINE n == Len(run.table)
  <2>1. n \in Nat /\ DOMAIN run.table = 1 .. n
    BY <1>0
  <2>2. run'.printed = [k \in 1 .. n |-> PrintedRow(k)]
    BY <1>1, <2>1
  <2> HIDE DEF n
  <2>3. Len([k \in 1 .. n |-> PrintedRow(k)]) = n
    BY <2>1
  <2> QED BY <2>1, <2>2, <2>3 DEF n
<1>6. Len(run.table) \in Nat \ {0} /\ DOMAIN run.table = 1 .. Len(run.table)
  BY <1>0 DEF FollowOK, At
<1>7. MatrixFollows'
  <2>1. ~HasRequest(run.reqs, Len(run.table) + 1)
    BY <1>0 DEF FollowOK, At
  <2>2. ~HasRequest(run'.reqs, Len(run'.printed) + 1)
    BY <1>1, <1>5, <2>1
  <2>3. ASSUME NEW k \in DOMAIN run'.printed
        PROVE  /\ HasRequest(run'.reqs, k) /\ run'.printed[k].req = run'.reqs[k]
               /\ [n \in DOMAIN run'.printed[k].cells |-> run'.printed[k].cells[n].id] = run'.ids
    <3>1. k \in DOMAIN run.table
      BY <1>5, <2>3
    <3>2. HasRequest(run'.reqs, k) /\ run'.printed[k].req = run'.reqs[k]
      BY <1>1, <1>3, <3>1
    <3>3. run'.printed[k].cells = run.table[k]
      BY <1>3, <3>1
    <3>4. [n \in DOMAIN run.table[k] |-> run.table[k][n].id] = run'.ids
      BY <1>1, <1>4, <3>1
    <3> QED BY <3>2, <3>3, <3>4
  <2> QED BY <2>2, <2>3 DEF MatrixFollows, HasRequest
<1> QED BY <1>1, <1>2, <1>5, <1>6, <1>7 DEF FollowOK, At

LEMMA FollowBegin == ReplayInv /\ Begin => FollowOK'
<1> SUFFICES ASSUME ReplayInv, Begin PROVE FollowOK'
  OBVIOUS
<1>0. run = NotRun
  BY DEF ReplayInv, ProgressOK, Begin, RunPath, RunCorpus, At
<1>1. CASE Refuse
  <2>1. run'.stage = "done" /\ run'.printed = <<>>
    BY <1>0, <1>1 DEF Refuse, NotRun
  <2> QED BY <2>1 DEF FollowOK, MatrixFollows, Printed, At
<1>2. ASSUME NEW ids, NEW reqs, NEW f, NEW unsafe, Launch(ids, reqs, f, unsafe), SourceOK'
      PROVE  FollowOK'
  <2>1. run'.stage = "cell" /\ run'.table = <<>>
    BY <1>0, <1>2 DEF Launch, NotRun
  <2> QED BY <1>2, <2>1 DEF FollowOK, MatrixFollows, Printed, At
<1>3. ASSUME NEW ids, NEW method, Launch(ids, <<Shape(method, 0)>>, NoFile, FALSE)
      PROVE  FollowOK'
  <2>1. run'.reqs = <<Shape(method, 0)>> /\ run'.file.kind = "path"
    BY <1>0, <1>3 DEF Launch, NotRun, NoFile
  <2>2. SourceOK'
    BY <2>1 DEF SourceOK, WithCorpus
  <2> QED BY <1>2, <1>3, <2>2
<1>4. ASSUME NEW ids, NEW f \in Files, NEW format \in Formats \cup {""}, NEW unsafe \in BOOLEAN,
             LoadOptions(f, format, unsafe).ok,
             Launch(ids, LoadOptions(f, format, unsafe).reqs, f, unsafe)
      PROVE  FollowOK'
  <2>1. run'.reqs = LoadOptions(f, format, unsafe).reqs /\ run'.file = f /\ run'.unsafe = unsafe
    BY <1>0, <1>4 DEF Launch, NotRun
  <2>2. WithCorpus'
    BY <1>4, <2>1, LoadedKind DEF WithCorpus
  <2>3. SourceOK'
    BY <1>4, <2>1, <2>2 DEF SourceOK
  <2> QED BY <1>2, <1>4, <2>3
<1> QED BY <1>1, <1>3, <1>4 DEF Begin, RunPath, RunCorpus

\* The five ways a cell ends, and the steps within one.
LEMMA FollowStep == ReplayInv /\ FollowOK /\ ReplayStep => FollowOK'
<1> SUFFICES ASSUME ReplayInv, FollowOK, ReplayStep PROVE FollowOK'
  OBVIOUS
<1>0. DOMAIN run = DOMAIN NotRun
  BY DEF ReplayInv, RunTypeOK
<1>1. ASSUME NEW stage \in {"asked", "sent"}, run.stage \in {"cell", "asked", "sent"},
             \/ run' = [run EXCEPT !.stage = stage]
             \/ \E s : run' = [run EXCEPT !.sess = s, !.stage = stage]
      PROVE  FollowOK'
  <2>1. /\ run'.stage = stage /\ run'.file = run.file /\ run'.unsafe = run.unsafe
        /\ run'.reqs = run.reqs /\ run'.table = run.table
    BY <1>0, <1>1 DEF NotRun
  <2> QED BY <1>1, <2>1, FollowMoves
<1>2. ASSUME NEW err \in BOOLEAN, NEW status \in Statuses \cup {0}, NEW sent \in BOOLEAN,
             run.stage \in {"cell", "asked", "sent"}, Record(Cell(err, status, sent))
      PROVE  FollowOK'
  BY <1>2, CellTypes, FollowRecord
<1>3. CASE RequestFails \/ DialFails \/ ConnectionLost
  BY <1>2, <1>3 DEF RequestFails, DialFails, ConnectionLost, At
<1>4. CASE SendBare \/ AskSession
  BY <1>1, <1>4 DEF SendBare, AskSession, At
<1>5. CASE TakeSession
  BY <1>1, <1>2, <1>5 DEF TakeSession, At
<1>6. CASE Exchange
  BY <1>2, <1>6, ReplayAssumption DEF Exchange, At
<1> QED BY <1>3, <1>4, <1>5, <1>6, FollowReport DEF ReplayStep

LEMMA FollowStays == ReplayInv /\ FollowOK /\ [ReplayNext]_rvars => FollowOK'
<1> SUFFICES ASSUME ReplayInv, FollowOK, [ReplayNext]_rvars PROVE FollowOK'
  OBVIOUS
<1>1. CASE UNCHANGED run
  <2>1. FollowOK /\ run' = run
    BY <1>1
  <2>2. SourceOK => SourceOK'
    BY <1>1, SourceStays
  <2> QED BY <2>1, <2>2 DEF FollowOK, MatrixFollows, Printed, At
<1> QED BY <1>1, FollowBegin, FollowStep
        DEF ReplayNext, StoreWorks, DaemonStep, Finished, rvars

\* Rows that follow the requests, each of which was loaded once, are the matrix.
LEMMA MatrixLaw == LoadsOnce /\ FollowOK => MatrixComplete
<1> SUFFICES ASSUME LoadsOnce, FollowOK, Printed PROVE MatrixComplete
  BY DEF MatrixComplete
<1> DEFINE n == Len(run.printed)
           meant == Meant(run.file, run.unsafe)
<1>1. /\ SourceOK /\ n \in Nat \ {0} /\ DOMAIN run.printed = 1 .. n /\ MatrixFollows
  BY DEF FollowOK
<1>2. /\ \A k \in 1 .. n : k \in DOMAIN run.reqs /\ run.printed[k].req = run.reqs[k]
      /\ n + 1 \notin DOMAIN run.reqs
      /\ \A k \in DOMAIN run.printed :
           [m \in DOMAIN run.printed[k].cells |-> run.printed[k].cells[m].id] = run.ids
  BY <1>1 DEF MatrixFollows, HasRequest
<1>3. ASSUME NEW c \in Nat, DOMAIN run.reqs = 1 .. c PROVE n = c
  <2> HIDE DEF n
  <2>1. n \in 1 .. c /\ n + 1 \notin 1 .. c
    BY <1>1, <1>2, <1>3
  <2> QED BY <1>1, <2>1
<1>4. CASE WithCorpus
  <2>1. PICK format \in Formats \cup {""} :
          LET corpus == LoadOptions(run.file, format, run.unsafe)
          IN  /\ run.file \in Files /\ run.unsafe \in BOOLEAN
              /\ corpus.ok /\ run.reqs = corpus.reqs
    BY <1>1, <1>4 DEF SourceOK
  <2>2. /\ meant = MeantBy(run.file, run.unsafe) /\ IsFiniteSet(meant)
        /\ DOMAIN run.reqs = 1 .. Cardinality(meant)
        /\ {Asked(run.reqs[k]) : k \in DOMAIN run.reqs} = meant
    <3>1. meant = MeantBy(run.file, run.unsafe)
      BY <1>4 DEF Meant, WithCorpus
    <3>2. EachOnce(run.reqs, MeantBy(run.file, run.unsafe))
      BY <2>1 DEF LoadsOnce
    <3> HIDE DEF meant
    <3> QED BY <3>1, <3>2 DEF EachOnce
  <2>3. Cardinality(meant) \in Nat
    BY <2>2, FS_CardinalityType
  <2> HIDE DEF meant
  <2>4. n = Cardinality(meant) /\ DOMAIN run.reqs = 1 .. n
    BY <1>3, <2>2, <2>3
  <2>5. {Asked(run.printed[k].req) : k \in DOMAIN run.printed} = meant
    BY <1>1, <1>2, <2>2, <2>4
  <2> QED BY <1>2, <2>4, <2>5 DEF MatrixComplete, meant
<1>5. CASE ~WithCorpus
  <2>1. DOMAIN run.reqs = {1} /\ meant = {Asked(run.printed[1].req)}
    BY <1>1, <1>5 DEF SourceOK, WithCorpus, Meant
  <2>2. n = 1
    <3>1. DOMAIN run.reqs = 1 .. 1
      BY <2>1
    <3> QED BY <1>3, <3>1
  <2>3. Cardinality(meant) = 1
    BY <2>1, FS_Singleton
  <2>4. {Asked(run.printed[k].req) : k \in DOMAIN run.printed} = meant
    BY <1>1, <2>1, <2>2
  <2> QED BY <1>2, <2>2, <2>3, <2>4 DEF MatrixComplete
<1> QED BY <1>4, <1>5

-----------------------------------------------------------------------------
(* The theorems.                                                           *)

LEMMA ReplayStart == ReplayInit => ReplayInv
<1> SUFFICES ASSUME ReplayInit PROVE ReplayInv
  OBVIOUS
<1>1. /\ LastingInv /\ run = NotRun /\ Command \in Caller
      /\ \A c \in Caller : pc[c] = "idle" /\ pc[Command] = "idle"
  BY LastingInit, ReplayAssumption DEF ReplayInit, ControlInit, Init
<1>2. /\ run.stage = "start" /\ run.src = "none" /\ run.ids = <<>> /\ run.row = <<>>
      /\ run.table = <<>> /\ run.sess = Nil /\ run.reqs = <<>> /\ run.printed = <<>>
  BY <1>1 DEF NotRun
<1>3. RunTypeOK
  BY <1>1, <1>2, NilSession DEF RunTypeOK
<1>4. ProgressOK
  BY <1>1, <1>2 DEF ProgressOK, At
<1>5. AnswerOK /\ RowsOK
  <2>1. DOMAIN Rows = {1} /\ Rows[1] = <<>>
    BY <1>2 DEF Rows
  <2> QED BY <1>1, <1>2, <2>1 DEF AnswerOK, Answered, At, RowsOK, OrderOK
<1>6. OwnOK
  BY <1>1, <1>2 DEF OwnOK
<1> QED BY <1>1, <1>2, <1>3, <1>4, <1>5, <1>6, NothingPrinted DEF ReplayInv, At

LEMMA ReplayStays == ReplayInv /\ [ReplayNext]_rvars => ReplayInv'
<1> SUFFICES ASSUME ReplayInv, [ReplayNext]_rvars PROVE ReplayInv'
  OBVIOUS
<1>1. CASE Begin
  BY <1>1, BeginStep
<1>2. CASE ReplayStep
  BY <1>2, FailedStep, SendBareStep, AskStep, TakeStep, ExchangeStep, ReportStep DEF ReplayStep
<1>3. CASE Elsewhere
  BY <1>3, ElsewhereInv
<1>4. ASSUME ~Begin, ~ReplayStep PROVE Elsewhere
  BY <1>4 DEF ReplayNext, Elsewhere, StoreWorks, DaemonStep, Finished, rvars
<1> QED BY <1>1, <1>2, <1>3, <1>4

\* Through every run of cmd/replay.go and the daemons it meets (internal/replay,
\* cmd/socket.go), what the command was given, what it sent and what it printed stay
\* related as ReplayInv says, for every list of identities and every corpus.
THEOREM ReplaySafe == ReplaySpec => []ReplayInv
<1>1. ReplayInit => ReplayInv
  BY ReplayStart
<1>2. ReplayInv /\ [ReplayNext]_rvars => ReplayInv'
  BY ReplayStays
<1> QED BY <1>1, <1>2, PTL DEF ReplaySpec

\* A corpus row is marked DIFFERS exactly if two of its identities were answered with
\* different statuses, whatever failed between them (statusesDiffer, cmd/replay.go).
THEOREM MarkerSafe == ReplaySpec => []MarkerHonest
<1>1. ReplayInv => MarkerHonest
  BY DEF ReplayInv, ReportHonest
<1> QED BY <1>1, ReplaySafe, PTL

\* The command exits with 0 exactly if some exchange of the printed table succeeded
\* (allFailed and its --path counterpart, cmd/replay.go), a refused command line included.
THEOREM ExitSafe == ReplaySpec => []ExitHonest
<1>1. ReplayInv => ExitHonest
  BY DEF ReplayInv, ReportHonest
<1> QED BY <1>1, ReplaySafe, PTL

\* No cell goes out with captured credentials, under another identity's name or, for
\* anyone but "anon", without a session (Run, replay.go; LoadHAR, har.go).
THEOREM IdentitySafe == ReplaySpec => []OneIdentityPerCell
<1>1. ReplayInv => OneIdentityPerCell
  BY DEF ReplayInv, ReportHonest
<1> QED BY <1>1, ReplaySafe, PTL

\* A later row never carries an older session of the same identity than an earlier
\* one, across renewals by other callers and restarts of the daemon (the store's Get).
THEOREM NeverRegresses == ReplaySpec => []RunNeverRegresses
<1>1. ReplayInv => RunNeverRegresses
  BY DEF ReplayInv, ReportHonest
<1> QED BY <1>1, ReplaySafe, PTL

\* In a standalone run an identity changes its session only after the earlier one
\* expired (the command's own store, replaySource).
THEOREM OneSession == ReplaySpec => []OneSessionPerIdentity
<1>1. ReplayInv => OneSessionPerIdentity
  BY DEF ReplayInv, ReportHonest
<1> QED BY <1>1, ReplaySafe, PTL

\* Whatever a file holds, the report has a row for each request that was loaded, in the
\* order of the file, and a cell for each identity in the order of --as: no failure of a
\* cell, end of a daemon or refused login takes one away (RunCorpus, replay/corpus.go).
THEOREM MatrixFollowsRequests == ReplaySpec => []MatrixFollows
<1>1. ReplayInit => FollowOK
  BY DEF ReplayInit, NotRun, FollowOK, MatrixFollows, Printed, At
<1>2. ReplayInv /\ FollowOK /\ [ReplayNext]_rvars => FollowOK'
  BY FollowStays
<1>3. FollowOK => MatrixFollows
  BY DEF FollowOK
<1> QED BY <1>1, <1>2, <1>3, ReplaySafe, PTL DEF ReplaySpec

\* Where the loading of a file gives each of its requests once (Load, internal/corpus),
\* the printed matrix is the set of requests the file stands for times the identities.
THEOREM MatrixSafe == LoadsOnce => (ReplaySpec => []MatrixComplete)
<1> SUFFICES ASSUME LoadsOnce PROVE ReplaySpec => []MatrixComplete
  OBVIOUS
<1>1. ReplayInit => FollowOK
  BY DEF ReplayInit, NotRun, FollowOK, MatrixFollows, Printed, At
<1>2. ReplayInv /\ FollowOK /\ [ReplayNext]_rvars => FollowOK'
  BY FollowStays
<1>3. FollowOK => MatrixComplete
  BY MatrixLaw
<1> QED BY <1>1, <1>2, <1>3, ReplaySafe, PTL DEF ReplaySpec
=============================================================================

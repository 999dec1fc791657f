------------------------ MODULE StatusViewProofs ------------------------
(***************************************************************************)
(* What watch draws is true of the store it asked, for every set of        *)
(* identities and every precision of the wire, while the store moves on and*)
(* its daemon ends and starts again.                                       *)
(***************************************************************************)
EXTENDS StatusView, SessionStoreProofs

-----------------------------------------------------------------------------
(* Times on the wire.                                                      *)

LEMMA TruncatedBounds ==
  ASSUME NEW t \in Nat
  PROVE  Truncated(t) \in Nat /\ Truncated(t) <= t
<1>1. /\ t = Second * (t \div Second) + (t % Second)
      /\ t % Second \in 0 .. Second - 1
      /\ t \div Second \in Nat
  BY StatusAssumption
<1>2. (t \div Second) * Second = Second * (t \div Second)
  BY <1>1, StatusAssumption
<1>3. Second * (t \div Second) \in Nat
  BY <1>1, StatusAssumption
<1> QED BY <1>1, <1>2, <1>3, StatusAssumption DEF Truncated

LEMMA WireTimeType ==
  ASSUME NEW t \in Nat
  PROVE  /\ WireTime(t) \in Int
         /\ WireTime(t) = NotStated => t = Unknown
         /\ WireTime(t) # NotStated => WireTime(t) <= t
BY TruncatedBounds DEF WireTime, NotStated, Unknown

LEMMA DerivedState ==
  ASSUME NEW w \in Told, now \in Nat
  PROVE  /\ w.est /\ w.exp # NotStated /\ w.exp <= now => DeriveState(w) = "EXPIRED"
         /\ DeriveState(w) \in {"live", "expiring"} => w.est /\ (w.exp = NotStated \/ w.exp > now)
<1>1. w.exp \in Int /\ w.est \in BOOLEAN
  BY DEF Told
<1>2. CASE ~w.est
  BY <1>2 DEF DeriveState
<1>3. CASE w.est /\ w.exp = NotStated
  BY <1>3 DEF DeriveState
<1>4. CASE w.est /\ w.exp # NotStated /\ w.exp <= now
  BY <1>4 DEF DeriveState
<1>5. CASE w.est /\ w.exp # NotStated /\ ~(w.exp <= now)
  BY <1>1, <1>5
<1> QED BY <1>1, <1>2, <1>3, <1>4, <1>5

-----------------------------------------------------------------------------
(* The steps of the store under the view.                                  *)

LEMMA StoreUnderView == [StatusNext]_svars => [AnyStep \/ Forget]_vars
<1> SUFFICES ASSUME [StatusNext]_svars PROVE [AnyStep \/ Forget]_vars
  OBVIOUS
<1>1. ASSUME NEW c \in Caller, DaemonServes(c) PROVE AnyStep
  BY <1>1 DEF DaemonServes, AnyStep
<1>2. DaemonStep => AnyStep \/ Forget \/ UNCHANGED vars
  BY <1>1 DEF DaemonStep, DaemonEnds, DaemonStarts
<1> QED BY <1>2 DEF StatusNext, WatchStep, Quit, svars, AnyStep

LEMMA StatusInit0 == StatusInit => StatusInv
<1> SUFFICES ASSUME StatusInit PROVE StatusInv
  OBVIOUS
<1>1. LastingInv
  BY LastingInit DEF StatusInit, ControlInit
<1>2. watch = [stage |-> "start", wire |-> <<>>, seen |-> <<>>]
  BY DEF StatusInit
<1>3. Len(Names) \in Nat
  BY StatusAssumption
<1> QED BY <1>1, <1>2, <1>3 DEF StatusInv, WatchTypeOK

\* An answer that is being read gains one true entry, or is dropped whole.
LEMMA ReadTrue ==
  ASSUME StatusInv, ReadEntry
  PROVE  /\ WatchTypeOK'
         /\ Len(watch'.wire) = Len(watch'.seen) /\ Len(watch'.wire) <= Len(Names)
         /\ \A k \in 1 .. Len(watch'.wire) : EntryTrue(watch'.wire[k], watch'.seen[k])
<1> DEFINE s == session[Current]
           w == [est |-> s # Nil, exp |-> WireTime(s.exp)]
           r == [sess |-> s, gaveUp |-> s.tok \in dead[Current]]
           n == Len(watch.wire)
<1>1. n \in Nat /\ n < Len(Names) /\ Len(Names) \in Nat /\ Current \in Id
  BY StatusAssumption DEF ReadEntry, StatusInv, WatchTypeOK, Current
<1>2. s \in Session
  BY <1>1 DEF StatusInv, LastingInv, TypeOK
<1>3. w \in Told /\ r \in Read
  <2>1. s.exp \in Nat
    BY <1>2 DEF Session
  <2> QED BY <1>2, <2>1, WireTimeType DEF Told, Read
<1>4. EntryTrue(w, r)
  <2>1. ASSUME s.tok \in dead[Current] PROVE s # Nil /\ s.exp = Past
    BY <1>1, <2>1 DEF StatusInv, LastingInv, GivenUpOK, TypeOK, Nil
  <2> QED BY <2>1 DEF EntryTrue
<1>5. watch' = [watch EXCEPT !.wire = Append(@, w), !.seen = Append(@, r)]
  BY DEF ReadEntry
<1> HIDE DEF s, w, r
<1>7. /\ watch.wire \in Seq(Told) /\ watch.seen \in Seq(Read) /\ Len(watch.seen) = n
      /\ watch \in [stage : {"start", "draw", "reading", "lost", "shown", "gone"},
                   wire : Seq(Told), seen : Seq(Read)]
  BY DEF StatusInv, WatchTypeOK
<1>6. /\ watch'.stage = watch.stage
      /\ watch'.wire = Append(watch.wire, w) /\ watch'.seen = Append(watch.seen, r)
      /\ watch' \in [stage : {"start", "draw", "reading", "lost", "shown", "gone"},
                     wire : Seq(Told), seen : Seq(Read)]
  <2>1. Append(watch.wire, w) \in Seq(Told) /\ Append(watch.seen, r) \in Seq(Read)
    BY <1>3, <1>7
  <2> QED BY <1>5, <1>7, <2>1
<1>8. Len(watch'.wire) = n + 1 /\ Len(watch'.seen) = n + 1
  BY <1>3, <1>6, <1>7
<1>9. ASSUME NEW k \in 1 .. n + 1 PROVE EntryTrue(watch'.wire[k], watch'.seen[k])
  <2>1. CASE k = n + 1
    BY <1>3, <1>4, <1>6, <1>7, <2>1
  <2>2. CASE k \in 1 .. n
    <3>1. watch'.wire[k] = watch.wire[k] /\ watch'.seen[k] = watch.seen[k]
      BY <1>3, <1>6, <1>7, <2>2
    <3> QED BY <2>2, <3>1 DEF StatusInv
  <2> QED BY <1>1, <2>1, <2>2
<1> QED BY <1>1, <1>6, <1>8, <1>9 DEF WatchTypeOK

LEMMA StatusStep == StatusInv /\ [StatusNext]_svars => StatusInv'
<1> SUFFICES ASSUME StatusInv, [StatusNext]_svars PROVE StatusInv'
  OBVIOUS
<1>0. LastingInv'
  BY StoreUnderView, LastingStep DEF StatusInv
<1>1. ASSUME ReadEntry PROVE StatusInv'
  BY <1>0, <1>1, ReadTrue DEF StatusInv
<1>2. ASSUME UNCHANGED <<watch.wire, watch.seen>>, WatchTypeOK' PROVE StatusInv'
  BY <1>0, <1>2 DEF StatusInv
<1>3. ASSUME NEW stage \in {"reading", "lost", "shown"},
             watch' = [stage |-> stage, wire |-> <<>>, seen |-> <<>>]
      PROVE  StatusInv'
  <2>1. Len(Names) \in Nat
    BY StatusAssumption
  <2> QED BY <1>0, <1>3, <2>1 DEF StatusInv, WatchTypeOK
<1>4. ASSUME NEW stage \in {"draw", "gone"}, watch' = [watch EXCEPT !.stage = stage]
      PROVE  StatusInv'
  BY <1>2, <1>4 DEF StatusInv, WatchTypeOK
<1>5. ASSUME UNCHANGED watch PROVE StatusInv'
  BY <1>2, <1>5 DEF StatusInv, WatchTypeOK
<1>6. CASE WatchStep
  <2>1. Attach \/ NextDrawing => StatusInv'
    BY <1>4 DEF Attach, NextDrawing
  <2>2. AskStatus \/ DrawError \/ Draw => StatusInv'
    BY <1>3 DEF AskStatus, DrawError, ShowError, Draw
  <2> QED BY <1>1, <1>6, <2>1, <2>2 DEF WatchStep
<1>7. CASE Quit
  BY <1>4, <1>7 DEF Quit
<1>8. CASE DaemonStep
  BY <1>3, <1>5, <1>8 DEF DaemonStep, statusVars
<1>9. CASE (Tick /\ UNCHANGED <<control, statusVars>>) \/ UNCHANGED svars
  BY <1>5, <1>9 DEF svars, statusVars
<1> QED BY <1>6, <1>7, <1>8, <1>9 DEF StatusNext

\* What the daemon answers /status with was true of each entry when it read it
\* (Health, store.go:266-292), whatever the store and the daemon did since.
THEOREM AnswerTrue == FairStatusSpec => []StatusInv
<1> QED BY StatusInit0, StatusStep, PTL DEF FairStatusSpec

-----------------------------------------------------------------------------
(* Drawings.                                                               *)

\* What is drawn: an error for every identity, or for each the state derived from
\* an entry that was true.
LEMMA DrawnFrom ==
  ASSUME StatusInv, [StatusNext]_svars, Drawing, NEW i \in Id
  PROVE  \/ screen'[i] = "error" /\ ~shown'[i].gaveUp
         \/ \E w \in Told : \E r \in Read :
              /\ EntryTrue(w, r)
              /\ screen'[i] = DeriveState(w) /\ shown'[i] = r
<1>1. ~InStage("shown") /\ watch'.stage = "shown"
  BY DEF Drawing
<1>2. DrawError \/ Draw
  <2>1. ~UNCHANGED watch
    BY <1>1 DEF InStage
  <2>2. watch \in [stage : {"start", "draw", "reading", "lost", "shown", "gone"},
                   wire : Seq(Told), seen : Seq(Read)]
    BY DEF StatusInv, WatchTypeOK
  <2>3. ~(Attach \/ AskStatus \/ NextDrawing \/ Quit)
    BY <1>1, <2>2 DEF Attach, AskStatus, NextDrawing, Quit, InStage
  <2>5. ~ReadEntry
    <3> SUFFICES ASSUME ReadEntry PROVE FALSE
      OBVIOUS
    <3> DEFINE wire == Append(watch.wire, [est |-> session[Current] # Nil,
                                           exp |-> WireTime(session[Current].exp)])
    <3>1. watch'.stage = [watch EXCEPT !.wire = wire].stage
      BY DEF ReadEntry
    <3> HIDE DEF wire
    <3> QED BY <1>1, <2>2, <3>1 DEF ReadEntry, InStage
  <2>4. ~DaemonStep
    BY <1>1, <2>1 DEF DaemonStep, statusVars
  <2> QED BY <2>1, <2>3, <2>4, <2>5 DEF StatusNext, WatchStep, svars, statusVars
<1>3. CASE DrawError
  BY <1>3 DEF DrawError, ShowError, Unseen
<1>4. CASE Draw
  <2> DEFINE k == CHOOSE k \in DOMAIN Names : Names[k] = i
  <2>1. k \in DOMAIN Names
    BY StatusAssumption
  <2>2. k \in 1 .. Len(watch.wire)
    BY <1>4, <2>1, StatusAssumption DEF Draw
  <2>3. screen'[i] = DeriveState(watch.wire[k]) /\ shown'[i] = watch.seen[k]
    BY <1>4 DEF Draw
  <2> HIDE DEF k
  <2>4. watch.wire[k] \in Told /\ watch.seen[k] \in Read
    BY <2>2 DEF StatusInv, WatchTypeOK
  <2> QED BY <2>2, <2>3, <2>4 DEF StatusInv
<1> QED BY <1>2, <1>3, <1>4

\* A session that a failed renewal gave up (Refresh, store.go:211-222) is never drawn
\* as anything but EXPIRED: its mark survives the wire's whole seconds.
THEOREM DeadShown == FairStatusSpec => DeadShownExpired
<1>1. ASSUME StatusInv, [StatusNext]_svars, Drawing, NEW i \in Id, shown'[i].gaveUp
      PROVE  screen'[i] = "EXPIRED"
  <2>1. PICK w \in Told, r \in Read :
             EntryTrue(w, r) /\ screen'[i] = DeriveState(w) /\ shown'[i] = r
    BY <1>1, DrawnFrom
  <2>2. w.est /\ w.exp = WireTime(Past)
    BY <1>1, <2>1 DEF EntryTrue
  <2>3. w.exp # NotStated /\ w.exp <= Past /\ w.exp \in Int
    BY <2>2, WireTimeType DEF Past, Unknown
  <2>4. now \in Nat /\ now >= Start
    BY <1>1 DEF StatusInv, LastingInv, TypeOK
  <2> QED BY <2>1, <2>2, <2>3, <2>4, DerivedState DEF Past, Start
<1>2. StatusInv /\ [StatusNext]_svars
        => [Drawing => \A i \in Id : shown'[i].gaveUp => screen'[i] = "EXPIRED"]_svars
  BY <1>1
<1> QED BY <1>2, AnswerTrue, PTL DEF FairStatusSpec, DeadShownExpired

\* A state drawn as live or expiring stands for a session that has not expired by
\* the clock of the drawing (deriveState, cmd/status.go).
THEOREM ShownSafe == FairStatusSpec => ShownUsable
<1>1. ASSUME StatusInv, [StatusNext]_svars, Drawing, NEW i \in Id,
             screen'[i] \in {"live", "expiring"}
      PROVE  shown'[i].sess # Nil /\ ~Expired(shown'[i].sess, now)
  <2>1. PICK w \in Told, r \in Read :
             EntryTrue(w, r) /\ screen'[i] = DeriveState(w) /\ shown'[i] = r
    BY <1>1, DrawnFrom
  <2>2. now \in Nat /\ r.sess.exp \in Nat
    BY <1>1 DEF StatusInv, LastingInv, TypeOK, Read, Session
  <2>3. w.est /\ (w.exp = NotStated \/ w.exp > now)
    BY <1>1, <2>1, <2>2, DerivedState
  <2>4. r.sess # Nil /\ w.exp = WireTime(r.sess.exp)
    BY <2>1, <2>3 DEF EntryTrue
  <2>5. r.sess.exp = Unknown \/ now < r.sess.exp
    BY <2>2, <2>3, <2>4, WireTimeType DEF Told
  <2> QED BY <2>1, <2>2, <2>4, <2>5 DEF Expired
<1>2. StatusInv /\ [StatusNext]_svars
        => [Drawing =>
              \A i \in Id : screen'[i] \in {"live", "expiring"} /\ ~shown'[i].gaveUp
                => shown'[i].sess # Nil /\ ~Expired(shown'[i].sess, now)]_svars
  BY <1>1
<1> QED BY <1>2, AnswerTrue, PTL DEF FairStatusSpec, ShownUsable
=============================================================================

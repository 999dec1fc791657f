----------------------------- MODULE StatusView -----------------------------
(***************************************************************************)
(* claviger watch (cmd/status.go) over the control socket: once attached,  *)
(* it asks the daemon for /status again and again and draws what it is     *)
(* told; claviger status is its first drawing.                             *)
(*                                                                         *)
(* The daemon reads the entries one after another (Health takes sessMu,    *)
(* never flightMu) and sends times with a precision of a second; the state *)
(* an identity is shown in is derived by the client, later, with its clock.*)
(***************************************************************************)
EXTENDS ControlPlane, Sequences

CONSTANTS Names,    \* the identities in the order Health lists them
          Second,   \* clock ticks in a second
          Minute    \* clock ticks before expiry in which a session is "expiring"

ASSUME StatusAssumption ==
  /\ Names \in Seq(Id)
  /\ \A i \in Id : \E k \in DOMAIN Names : Names[k] = i
  /\ Second \in Nat \ {0} /\ Minute \in Nat

VARIABLES watch,    \* the command, and the answer it is waiting for
          screen,   \* the state shown for each identity
          shown     \* history: the session behind each shown state

statusVars == <<watch, screen, shown>>
svars      == <<vars, control, statusVars>>

NotStated == -1   \* a time left out of the answer

Blank == [est |-> FALSE, exp |-> NotStated]
Unseen == [sess |-> Nil, gaveUp |-> FALSE]

StatusInit ==
  /\ ControlInit
  /\ watch = [stage |-> "start", wire |-> <<>>, seen |-> <<>>]
  /\ screen = [i \in Id |-> "blank"]
  /\ shown = [i \in Id |-> Unseen]

InStage(stage) == watch.stage = stage

-----------------------------------------------------------------------------
(* Times on the wire.                                                      *)

Rounded(t) == ((t + Second - 1) \div Second) * Second

\* RFC3339 keeps whole seconds.
Truncated(t) == (t \div Second) * Second

WireTimeAfterEpoch(t) == IF Truncated(t) = 0 THEN NotStated ELSE Truncated(t)

\* Only the zero time is left out, not the mark of a session given up.
WireTime(t) == IF t = Unknown THEN NotStated ELSE Truncated(t)

DeriveState(w) ==
  IF ~w.est THEN "no-session"
  ELSE IF w.exp = NotStated THEN "live"
  ELSE IF w.exp <= now THEN "EXPIRED"
  ELSE IF w.exp - now < Minute THEN "expiring" ELSE "live"

-----------------------------------------------------------------------------
(* The command.                                                            *)

\* statusClient: no socket file, no view.
Attach ==
  /\ InStage("start")
  /\ watch' = [watch EXCEPT !.stage = IF SocketExists THEN "draw" ELSE "gone"]
  /\ UNCHANGED <<screen, shown>>

\* A drawing starts: the screen is cleared and /status is asked for.
AskStatus ==
  /\ InStage("draw") /\ Listening
  /\ watch' = [stage |-> "reading", wire |-> <<>>, seen |-> <<>>]
  /\ UNCHANGED <<screen, shown>>

ShowError(next) ==
  /\ watch' = [stage |-> next, wire |-> <<>>, seen |-> <<>>]
  /\ screen' = [i \in Id |-> "error"]
  /\ shown' = [i \in Id |-> Unseen]

NobodyAnswers == (InStage("draw") /\ ~Listening) \/ InStage("lost")

ErrorSticks == NobodyAnswers /\ ShowError("lost")

\* The daemon is gone, or went before it answered: the error is drawn instead,
\* and the next tick tries again.
DrawError == NobodyAnswers /\ ShowError("shown")

Current == Names[Len(watch.wire) + 1]

ReadAfterFlight ==
  /\ InStage("reading") /\ Len(watch.wire) < Len(Names)
  /\ FlightFree(Current)
  /\ watch' = [watch EXCEPT !.wire = Append(@, Blank), !.seen = Append(@, Unseen)]
  /\ UNCHANGED <<screen, shown>>

\* Health reads the next entry under its sessMu.
ReadEntry ==
  LET s == session[Current] IN
  /\ InStage("reading") /\ Len(watch.wire) < Len(Names)
  /\ watch' = [watch EXCEPT
       !.wire = Append(@, [est |-> s # Nil, exp |-> WireTime(s.exp)]),
       !.seen = Append(@, [sess |-> s, gaveUp |-> s.tok \in dead[Current]])]
  /\ UNCHANGED <<screen, shown>>

\* The answer arrives and is drawn.
Draw ==
  LET place(i) == CHOOSE k \in DOMAIN Names : Names[k] = i IN
  /\ InStage("reading") /\ Len(watch.wire) = Len(Names)
  /\ screen' = [i \in Id |-> DeriveState(watch.wire[place(i)])]
  /\ shown' = [i \in Id |-> watch.seen[place(i)]]
  /\ watch' = [stage |-> "shown", wire |-> <<>>, seen |-> <<>>]

\* The ticker of watch.
NextDrawing ==
  /\ InStage("shown")
  /\ watch' = [watch EXCEPT !.stage = "draw"]
  /\ UNCHANGED <<screen, shown>>

\* status ends after one drawing, watch when it is interrupted.
Quit ==
  /\ InStage("shown")
  /\ watch' = [watch EXCEPT !.stage = "gone"]
  /\ UNCHANGED <<vars, control, screen, shown>>

WatchStep ==
  /\ Attach \/ AskStatus \/ DrawError \/ ReadEntry \/ Draw \/ NextDrawing
  /\ UNCHANGED <<vars, control>>

-----------------------------------------------------------------------------
\* A daemon that ends drops the answer it was preparing.
DaemonStep ==
  \/ /\ DaemonEnds
     /\ watch' = IF InStage("reading") THEN [stage |-> "lost", wire |-> <<>>, seen |-> <<>>]
                                       ELSE watch
     /\ UNCHANGED <<screen, shown>>
  \/ /\ DaemonStarts \/ \E c \in Caller : DaemonServes(c)
     /\ UNCHANGED statusVars

StatusNext ==
  \/ WatchStep \/ Quit
  \/ DaemonStep
  \/ Tick /\ UNCHANGED <<control, statusVars>>
  \/ InStage("gone") /\ UNCHANGED svars

\* Only the command itself has to run: no login has to end, no lock to be free.
FairStatusSpec == StatusInit /\ [][StatusNext]_svars /\ WF_svars(WatchStep)

-----------------------------------------------------------------------------
(* Properties.                                                             *)

Drawing == ~InStage("shown") /\ watch'.stage = "shown"

\* The view never flatters (deriveState): a state drawn as live or expiring stands
\* for a session that, unless it was given up, has not expired by the clock of the drawing, although its
\* expiry crossed the wire in whole seconds and some time ago.
ShownUsable ==
  [][Drawing =>
       \A i \in Id : screen'[i] \in {"live", "expiring"} /\ ~shown'[i].gaveUp
         => shown'[i].sess # Nil /\ ~Expired(shown'[i].sess, now)]_svars

\* A session that a failed renewal gave up (store.go:211-217) is drawn as EXPIRED:
\* its mark, 1 ns after the epoch, survives the wire and is not taken for "the
\* server did not say".
DeadShownExpired ==
  [][Drawing =>
       \A i \in Id : shown'[i].gaveUp => screen'[i] = "EXPIRED"]_svars

Told == [est : BOOLEAN, exp : Int]
Read == [sess : Session, gaveUp : BOOLEAN]

WatchTypeOK ==
  watch \in [stage : {"start", "draw", "reading", "lost", "shown", "gone"},
            wire : Seq(Told), seen : Seq(Read)]

\* What an answer says of an entry, and the session behind it.
EntryTrue(w, r) ==
  /\ w = [est |-> r.sess # Nil, exp |-> WireTime(r.sess.exp)]
  /\ r.gaveUp => r.sess # Nil /\ r.sess.exp = Past

\* An answer in progress was true of each entry when that entry was read, whatever
\* became of the store since.
StatusInv ==
  /\ LastingInv /\ WatchTypeOK
  /\ Len(watch.wire) = Len(watch.seen) /\ Len(watch.wire) <= Len(Names)
  /\ \A k \in 1 .. Len(watch.wire) : EntryTrue(watch.wire[k], watch.seen[k])

\* "It never triggers a login, so it is safe for a status view" (store.go:266-267):
\* a drawing that started is finished even if a login hangs and never returns.
StatusNeverBlocks == InStage("reading") ~> InStage("shown")

Dead(i) == Listening /\ Expired(session[i], now)

\* watch catches up: it shows a session that expired, or was given up, as long as
\* it is not replaced, also after daemons ended and were started again under it.
WatchCatchesUp ==
  \A i \in Id :
    Dead(i) /\ ~InStage("start") /\ ~InStage("gone")
      ~> screen[i] = "EXPIRED" \/ ~Dead(i) \/ InStage("gone")
=============================================================================

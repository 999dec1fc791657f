--------------------------- MODULE SessionStore ---------------------------
(***************************************************************************)
(* The session store of claviger (internal/store/store.go): one entry per  *)
(* registered identity, callers (gateway requests, the control plane, the  *)
(* proactive loop) that call Get and Refresh concurrently, and the recipe  *)
(* calls those start.                                                      *)
(*                                                                         *)
(* A step is a critical section or a blocking call: a caller arrives and   *)
(* snapshots the entry, takes flightMu and decides, and later its recipe   *)
(* call (a login at the target) returns.  Taking flightMu is merged with   *)
(* the re-check under it, because only the holder of flightMu writes the   *)
(* entry.                                                                  *)
(*                                                                         *)
(* Recipe calls are numbered in the order they start.  The number stands   *)
(* for the credentials a login returns (tok) and for the Session object    *)
(* it creates (ptr), the Go pointer that Refresh compares.                 *)
(***************************************************************************)
EXTENDS Integers, FiniteSets

CONSTANTS Id,          \* identities with a recipe registered in the store
          Unmanaged,   \* identities a caller may name that were never registered
          NoId,        \* the identity of a caller that is not in a call
          Caller,      \* goroutines that may be inside Get or Refresh
          NoCaller,    \* the holder of a free flightMu
          MaxBurst,    \* refresh attempts allowed per Window
          Window,      \* the length of the sliding window
          Lifetimes,   \* the expires_in values a target may answer with
          MaxTime,     \* bound: the clock stops here
          MaxLogins    \* bound: calls are made only while logins are left

\* WithBackoff keeps the defaults unless it is given positive values.
ASSUME StoreAssumption ==
  /\ NoId \notin Id \cup Unmanaged
  /\ Id \cap Unmanaged = {}
  /\ NoCaller \notin Caller
  /\ MaxBurst \in Nat \ {0}
  /\ Window \in Nat \ {0}
  /\ Lifetimes \subseteq Int
  /\ MaxTime \in Nat
  /\ MaxLogins \in Nat

VARIABLES
  now,        \* the wall clock
  session,    \* entry.session, per identity
  stamps,     \* entry.stamps: the refresh attempts still remembered
  lastAuth,   \* entry.lastAuth
  failing,    \* entry.lastErr is not empty
  flight,     \* who holds entry.flightMu
  logins,     \* recipe calls started so far
  pc,         \* where each caller is
  want,       \* the identity it asked for
  before,     \* the pointer Refresh read before it waited
  login,      \* the number of its recipe call
  res,        \* what its call returned
  attempts,   \* history: every attempt counted against the window
  recoveries, \* history: those Refresh made, with the pointer they replaced
  dead        \* history: credentials a failed Refresh gave up

entry   == <<session, stamps, lastAuth, failing, flight>>
call    == <<pc, want, before, login, res>>
history == <<attempts, recoveries, dead>>
vars    == <<now, entry, logins, call, history>>

-----------------------------------------------------------------------------
(* Sessions and time.                                                      *)

Unknown == 0   \* the zero time.Time: the server did not say
Past    == 1   \* time.Unix(0, 1): the mark of a session given up
Start   == 2   \* the clock never reads either of them

Session == [ptr : Nat, tok : Nat, exp : Nat]
Nil     == [ptr |-> 0, tok |-> 0, exp |-> Unknown]

ExpiresAt(secs, t) == IF secs <= 0 THEN Unknown ELSE t + secs

ExpiredOrUnknown(s, t) == t > s.exp

Expired(s, t) == s.exp # Unknown /\ t > s.exp

Usable(s) == s # Nil /\ ~Expired(s, now)

UnmarkedCopy(s, n) == [s EXCEPT !.ptr = n]

\* The copy a failed Refresh leaves behind: same credentials, a new object.
StaleCopy(s, n) == [s EXCEPT !.ptr = n, !.exp = Past]

-----------------------------------------------------------------------------
(* The sliding window.  A stamp carries the login it was taken for, so that*)
(* two attempts at the same instant stay two.                              *)

RecentTooFew(S) == {s \in S : s.at > now - Window + 1}

Recent(S) == {s \in S : s.at > now - Window}

LimitedLate(i) == Cardinality(Recent(stamps[i])) > MaxBurst

Limited(i) == Cardinality(Recent(stamps[i])) >= MaxBurst

-----------------------------------------------------------------------------
(* Places and results of a call.                                           *)

Place == {"idle", "getWait", "refreshWait", "establish", "renew", "recover", "returned"}

Kind == {"none", "ok", "err", "limited", "unknown"}

Result == [kind : Kind, sess : Session]

Answer(kind, s) == [kind |-> kind, sess |-> s]
NoAnswer        == Answer("none", Nil)
Ok(s)           == Answer("ok", s)

Init ==
  /\ now = Start
  /\ session = [i \in Id |-> Nil]
  /\ stamps = [i \in Id |-> {}]
  /\ lastAuth = [i \in Id |-> Unknown]
  /\ failing = [i \in Id |-> FALSE]
  /\ flight = [i \in Id |-> NoCaller]
  /\ logins = 0
  /\ pc = [c \in Caller |-> "idle"]
  /\ want = [c \in Caller |-> NoId]
  /\ before = [c \in Caller |-> Nil]
  /\ login = [c \in Caller |-> 0]
  /\ res = [c \in Caller |-> NoAnswer]
  /\ attempts = [i \in Id |-> {}]
  /\ recoveries = [i \in Id |-> {}]
  /\ dead = [i \in Id |-> {}]

Goto(c, where) == pc' = [pc EXCEPT ![c] = where] /\ UNCHANGED res

Finish(c, answer) ==
  /\ pc' = [pc EXCEPT ![c] = "returned"]
  /\ res' = [res EXCEPT ![c] = answer]

-----------------------------------------------------------------------------
(* flightMu.                                                               *)

FlightIgnored(i) == TRUE

FlightFree(i) == flight[i] = NoCaller

UnlockForgotten(i) == UNCHANGED flight

Unlock(i) == flight' = [flight EXCEPT ![i] = NoCaller]

-----------------------------------------------------------------------------
(* The calls.                                                              *)

\* Get up to the flight lock: the lookup and the fast path.
CallGet(c, i) ==
  /\ pc[c] = "idle"
  /\ want' = [want EXCEPT ![c] = i]
  /\ \/ i \notin Id /\ Finish(c, Answer("unknown", Nil))
     \/ i \in Id /\ Usable(session[i]) /\ Finish(c, Ok(session[i]))
     \/ i \in Id /\ ~Usable(session[i]) /\ Goto(c, "getWait")
  /\ UNCHANGED <<now, entry, logins, before, login, history>>

\* Refresh up to the flight lock: the lookup and the snapshot it compares later.
CallRefresh(c, i) ==
  /\ pc[c] = "idle"
  /\ want' = [want EXCEPT ![c] = i]
  /\ \/ /\ i \notin Id
        /\ Finish(c, Answer("unknown", Nil))
        /\ UNCHANGED before
     \/ /\ i \in Id
        /\ before' = [before EXCEPT ![c] = session[i]]
        /\ Goto(c, "refreshWait")
  /\ UNCHANGED <<now, entry, logins, login, history>>

\* A recipe call starts; flightMu stays held until it returns.
StartLogin(c, i, stage) ==
  /\ logins' = logins + 1
  /\ login' = [login EXCEPT ![c] = logins + 1]
  /\ flight' = [flight EXCEPT ![i] = c]
  /\ Goto(c, stage)

\* rateLimited, and the recipe call if it allows one.
StartCounted(c, i, stage) ==
  \/ /\ Limited(i)
     /\ stamps' = [stamps EXCEPT ![i] = Recent(@)]
     /\ Finish(c, Answer("limited", Nil))
     /\ UNCHANGED <<flight, logins, login, attempts, recoveries>>
  \/ /\ ~Limited(i)
     /\ LET stamp == [n |-> logins + 1, at |-> now]
        IN  /\ stamps' = [stamps EXCEPT ![i] = Recent(@) \cup {stamp}]
            /\ attempts' = [attempts EXCEPT ![i] = @ \cup {stamp}]
     /\ recoveries' = IF stage = "recover"
                        THEN [recoveries EXCEPT ![i] = @ \cup
                                {[n |-> logins + 1, ptr |-> before[c].ptr]}]
                        ELSE recoveries
     /\ StartLogin(c, i, stage)

\* Get past the flight lock.
GetEnter(c) ==
  LET i == want[c] IN
  /\ pc[c] = "getWait"
  /\ FlightFree(i)
  /\ \/ /\ Usable(session[i])
        /\ Finish(c, Ok(session[i]))
        /\ UNCHANGED <<stamps, flight, logins, login, attempts, recoveries>>
     \/ /\ session[i] = Nil
        /\ StartLogin(c, i, "establish")
        /\ UNCHANGED <<stamps, attempts, recoveries>>
     \/ /\ session[i] # Nil
        /\ Expired(session[i], now)
        /\ StartCounted(c, i, "renew")
  /\ UNCHANGED <<now, session, lastAuth, failing, want, before, dead>>

NeverSwapped(c) == FALSE

\* Another caller replaced the object this Refresh wanted to replace.
Swapped(c) == session[want[c]].ptr # before[c].ptr

\* Refresh past the flight lock: adopt what another caller left, or log in.
RefreshEnter(c) ==
  LET i == want[c] IN
  /\ pc[c] = "refreshWait"
  /\ FlightFree(i)
  /\ \/ /\ Swapped(c)
        /\ Finish(c, Ok(session[i]))
        /\ UNCHANGED <<stamps, flight, logins, login, attempts, recoveries>>
     \/ /\ ~Swapped(c)
        /\ StartCounted(c, i, "recover")
  /\ UNCHANGED <<now, session, lastAuth, failing, want, before, dead>>

LoggingIn(c) == pc[c] \in {"establish", "renew", "recover"}

\* The recipe call returns a session: commit it and release flightMu.
RecipeOk(c) ==
  LET i == want[c] IN
  /\ LoggingIn(c)
  /\ \E secs \in Lifetimes :
       LET new == [ptr |-> login[c], tok |-> login[c],
                   exp |-> ExpiresAt(secs, now)]
       IN  /\ session' = [session EXCEPT ![i] = new]
           /\ Finish(c, Ok(new))
  /\ lastAuth' = [lastAuth EXCEPT ![i] = now]
  /\ failing' = [failing EXCEPT ![i] = FALSE]
  /\ Unlock(i)
  /\ UNCHANGED <<now, stamps, logins, want, before, login, history>>

\* The recipe call fails: record it and release flightMu.  Refresh, unlike Get,
\* also gives up the session it failed to replace.
RecipeErr(c) ==
  LET i == want[c] IN
  /\ LoggingIn(c)
  /\ failing' = [failing EXCEPT ![i] = TRUE]
  /\ \/ /\ pc[c] = "recover"
        /\ before[c] # Nil
        /\ session' = [session EXCEPT ![i] = StaleCopy(before[c], login[c])]
        /\ dead' = [dead EXCEPT ![i] = @ \cup {before[c].tok}]
     \/ /\ pc[c] # "recover" \/ before[c] = Nil
        /\ UNCHANGED <<session, dead>>
  /\ Finish(c, Answer("err", Nil))
  /\ Unlock(i)
  /\ UNCHANGED <<now, stamps, lastAuth, logins, want, before, login, attempts, recoveries>>

\* The caller takes the result and may call again.
Return(c) ==
  /\ pc[c] = "returned"
  /\ pc' = [pc EXCEPT ![c] = "idle"]
  /\ want' = [want EXCEPT ![c] = NoId]
  /\ before' = [before EXCEPT ![c] = Nil]
  /\ login' = [login EXCEPT ![c] = 0]
  /\ res' = [res EXCEPT ![c] = NoAnswer]
  /\ UNCHANGED <<now, entry, logins, history>>

-----------------------------------------------------------------------------
(* The process that keeps the store ends: sessions and calls are in its    *)
(* memory only.                                                            *)

EmptyStore ==
  /\ session' = [i \in Id |-> Nil]
  /\ stamps' = [i \in Id |-> {}]
  /\ lastAuth' = [i \in Id |-> Unknown]
  /\ failing' = [i \in Id |-> FALSE]
  /\ flight' = [i \in Id |-> NoCaller]

CallsDropped ==
  /\ pc' = [c \in Caller |-> "idle"]
  /\ want' = [c \in Caller |-> NoId]
  /\ before' = [c \in Caller |-> Nil]
  /\ login' = [c \in Caller |-> 0]
  /\ res' = [c \in Caller |-> NoAnswer]

Forget == EmptyStore /\ CallsDropped /\ UNCHANGED <<now, logins, history>>

-----------------------------------------------------------------------------
(* The environment: clients call while the budget of logins lasts, and the *)
(* clock moves.                                                            *)

Waiting(c) == pc[c] \in {"getWait", "refreshWait"}

BudgetLeft == logins + Cardinality({c \in Caller : Waiting(c)}) < MaxLogins

ClientCall(c) ==
  /\ BudgetLeft
  /\ \E i \in Id \cup Unmanaged : CallGet(c, i) \/ CallRefresh(c, i)

Tick == now < MaxTime /\ now' = now + 1 /\ UNCHANGED <<entry, logins, call, history>>

\* Nobody has to call again.
Quiescent == (\A c \in Caller : pc[c] = "idle") /\ UNCHANGED vars

CallerStep(c) ==
  GetEnter(c) \/ RefreshEnter(c) \/ RecipeOk(c) \/ RecipeErr(c) \/ Return(c)

Next ==
  \/ \E c \in Caller : ClientCall(c) \/ CallerStep(c)
  \/ Tick
  \/ Quiescent

Spec == Init /\ [][Next]_vars

\* sync.Mutex hands a lock over to a waiter it has starved for a millisecond, so
\* a caller that finds flightMu free again and again gets it; a recipe call is
\* taken to end (an HTTP client without a timeout does not guarantee that).
Fairness ==
  \A c \in Caller :
    /\ SF_vars(GetEnter(c))
    /\ SF_vars(RefreshEnter(c))
    /\ WF_vars(RecipeOk(c) \/ RecipeErr(c))

FairSpec == Spec /\ Fairness
-----------------------------------------------------------------------------
(* Properties.                                                             *)

\* Type correctness of the store's and the callers' state.
TypeOK ==
  /\ now \in Nat /\ now >= Start
  /\ session \in [Id -> Session]
  /\ stamps \in [Id -> SUBSET [n : Nat, at : Nat]]
  /\ lastAuth \in [Id -> Nat]
  /\ failing \in [Id -> BOOLEAN]
  /\ flight \in [Id -> Caller \cup {NoCaller}]
  /\ logins \in Nat
  /\ pc \in [Caller -> Place]
  /\ want \in [Caller -> Id \cup Unmanaged \cup {NoId}]
  /\ before \in [Caller -> Session]
  /\ login \in [Caller -> Nat]
  /\ res \in [Caller -> Result]
  /\ attempts \in [Id -> SUBSET [n : Nat, at : Nat]]
  /\ recoveries \in [Id -> SUBSET [n : Nat, ptr : Nat]]
  /\ dead \in [Id -> SUBSET Nat]

\* The backoff ceiling (rateLimited, store.go:74-86): no window of length Window,
\* wherever it starts, holds more than MaxBurst counted attempts, although the
\* code only ever remembers the stamps it has not pruned.
BurstCeiling ==
  \A i \in Id : \A t \in Start .. now :
    Cardinality({a \in attempts[i] : a.at > t - Window /\ a.at <= t}) <= MaxBurst

\* Single flight across failures (Refresh, store.go:184-226): however many
\* callers saw the same session object before they asked for another, at most one
\* of them logs in for it, whether that login succeeds or fails.
OneRecoveryPerSession ==
  \A i \in Id : \A a, b \in recoveries[i] : a.ptr = b.ptr /\ a.ptr # 0 => a = b

\* A call ends in this step with a session.
GetsSession(c) == pc[c] # "returned" /\ pc'[c] = "returned" /\ res'[c].kind = "ok"

\* What a failed Refresh is for (store.go:211-217): once it gave up some
\* credentials, no later Get hands them out again, on whichever path it runs.
DeadNeverServed ==
  [][\A c \in Caller :
       GetsSession(c) /\ pc[c] # "refreshWait"
         => res'[c].sess.tok \notin dead[want'[c]]]_vars

\* Two logins of one identity never overtake each other (flightMu): the
\* credentials an identity holds are only ever replaced by later ones.
SessionMonotone ==
  [][\A i \in Id : session'[i].tok >= session[i].tok]_vars

\* A Refresh never answers with credentials older than the ones its caller saw,
\* and never with no session at all (the gateway and the CLI use the result
\* without a nil check).
RefreshNeverRegresses ==
  [][\A c \in Caller :
       GetsSession(c) /\ pc[c] \in {"refreshWait", "recover"}
         => res'[c].sess # Nil /\ res'[c].sess.tok >= before[c].tok]_vars

\* "Waiters observe the swapped pointer" (Refresh, store.go:184-187): one that waited
\* behind another Refresh takes over what that one left, which is a renewal or the
\* copy a failure left behind.  So a Refresh without an error answers with other
\* credentials than those it was called to replace, or with ones marked as dead.
AdoptsFreshOrMarked ==
  [][\A c \in Caller :
       GetsSession(c) /\ pc[c] \in {"refreshWait", "recover"}
         => res'[c].sess.tok # before[c].tok \/ res'[c].sess.exp = Past]_vars

\* No caller waits on flightMu forever: every path out of the critical section
\* releases it (the deferred unlocks of Get and Refresh).
EveryCallReturns ==
  \A c \in Caller : Waiting(c) ~> pc[c] = "returned"

-----------------------------------------------------------------------------
(* The inductive invariant behind the safety properties.                   *)

\* A caller past the lookup asks for a registered identity, and one that runs a
\* recipe call holds flightMu.
FlightOK ==
  \A c \in Caller :
    /\ Waiting(c) \/ LoggingIn(c) => want[c] \in Id
    /\ LoggingIn(c) => flight[want[c]] = c

\* s is the object t or an earlier one.
NotNewer(s, t) == s.ptr <= t.ptr /\ s.tok <= t.tok /\ (s.ptr = t.ptr => s = t)

\* A pointer identifies its object, objects are numbered in the order they were
\* stored, and a running login will store a newer one.
ObjectsOK ==
  /\ \A i \in Id : /\ session[i].tok <= session[i].ptr
                   /\ session[i].ptr <= logins
                   /\ session[i].ptr = 0 => session[i] = Nil
  /\ \A c \in Caller :
       /\ LoggingIn(c) => session[want[c]].ptr < login[c] /\ login[c] <= logins
       /\ pc[c] = "refreshWait" => NotNewer(before[c], session[want[c]])
       /\ pc[c] = "recover" => before[c] = session[want[c]]

\* What a waiting Refresh finds in place of its object is a renewal, or marked.
MarkedOK ==
  \A c \in Caller :
    LET s == session[want[c]] IN
    pc[c] = "refreshWait" /\ s.ptr # before[c].ptr /\ s.tok = before[c].tok => s.exp = Past

\* A recovery replaced an object that is gone, or is still running.
RecoveriesOK ==
  \A i \in Id : \A a \in recoveries[i] :
    /\ a.ptr <= session[i].ptr
    /\ a.ptr = session[i].ptr /\ a.ptr # 0
         => \E c \in Caller : pc[c] = "recover" /\ want[c] = i

\* Credentials that were given up are gone, or marked.
DeadOK ==
  \A i \in Id : \A t \in dead[i] :
    t <= session[i].tok /\ (t = session[i].tok => session[i].exp = Past)

\* What pruning forgot lies before the window.
WindowOK ==
  \A i \in Id :
    /\ stamps[i] \subseteq attempts[i]
    /\ IsFiniteSet(attempts[i])
    /\ \A a \in attempts[i] :
         a.n <= logins /\ a.at <= now /\ (a \in stamps[i] \/ a.at + Window <= now)

\* Credentials that were given up never come back, not even from an empty store:
\* every login that runs or is still to start is a later one.
GivenUpOK ==
  \A i \in Id :
    /\ session[i].tok = 0 => session[i] = Nil
    /\ \A t \in dead[i] :
         /\ t \in 1 .. logins
         /\ t = session[i].tok => session[i].exp = Past
         /\ \A c \in Caller : LoggingIn(c) /\ want[c] = i => t < login[c]

\* The part of the bookkeeping that survives the end of the process.
LastingInv == TypeOK /\ FlightOK /\ ObjectsOK /\ GivenUpOK

\* The store's bookkeeping is consistent (entry, store.go:25-33): every part of
\* the state agrees with the others in the ways the safety properties need.
StoreInv ==
  /\ TypeOK /\ FlightOK /\ ObjectsOK /\ MarkedOK /\ RecoveriesOK /\ DeadOK /\ WindowOK
  /\ BurstCeiling /\ OneRecoveryPerSession

-----------------------------------------------------------------------------
(* Refinement of SessionAuthority.                                         *)

Material(s) == [tok |-> s.tok, exp |-> s.exp]

Authority == INSTANCE SessionAuthority WITH
  Client   <- Caller,
  NoClient <- NoCaller,
  held     <- [i \in Id |-> Material(session[i])],
  busy     <- flight,
  issued   <- logins,
  ticket   <- login,
  asked    <- want,
  answer   <- [c \in Caller |-> [kind |-> res[c].kind, sess |-> Material(res[c].sess)]],
  renewals <- attempts

\* The store implements the authority: pointers, stamps and the two-step waiting
\* never show in what the clients are told.
ImplementsAuthority == Authority!Spec
=============================================================================

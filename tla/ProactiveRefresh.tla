------------------------- MODULE ProactiveRefresh -------------------------
(***************************************************************************)
(* The daemon's background loop (proactiveRefresh, cmd/daemon.go) over the *)
(* session store: a ticker, and on each tick RefreshExpiring, which reads  *)
(* the health of every identity once and then refreshes, one after the     *)
(* other, those it saw close to their expiry.  Other callers keep using the*)
(* store while it does.                                                    *)
(***************************************************************************)
EXTENDS SessionStore

CONSTANTS Loop,       \* the caller that is the loop's goroutine
          Interval,   \* --refresh-interval
          MaxDelay    \* TimelySpec only: the longest a renewal takes

ASSUME LoopAssumption ==
  /\ Loop \in Caller
  /\ Interval \in Nat \ {0}
  /\ MaxDelay \in Nat

VARIABLES
  sweeping,   \* the loop is inside RefreshExpiring
  due,        \* identities of its health snapshot it has still to refresh
  nextTick,   \* when the ticker fires next
  pending,    \* a tick waits in the ticker's channel (which holds one)
  since,      \* when the loop asked for the flightMu it waits for
  starving    \* that flightMu is in starvation mode, for the loop

ticker == <<sweeping, due, nextTick, pending>>
loop   == <<ticker, since, starving>>
pvars  == <<vars, loop>>

OneInterval == Interval

Within == 2 * Interval

\* The test of RefreshExpiring, on the health it read.
NearExpiry(s, t) == s # Nil /\ s.exp # Unknown /\ s.exp - t < Within

LoopInit ==
  /\ Init
  /\ sweeping = FALSE
  /\ due = {}
  /\ nextTick = Start + Interval
  /\ pending = FALSE
  /\ since = Start
  /\ starving = FALSE

\* The ticker fires; a tick nobody has taken yet swallows the next one.
Fire ==
  /\ now >= nextTick
  /\ nextTick' = nextTick + Interval
  /\ pending' = TRUE
  /\ UNCHANGED <<vars, sweeping, due, since, starving>>

\* The loop takes the tick and RefreshExpiring takes its snapshot.
SweepStart ==
  /\ ~sweeping
  /\ pending
  /\ pending' = FALSE
  /\ sweeping' = TRUE
  /\ due' = {i \in Id : NearExpiry(session[i], now)}
  /\ UNCHANGED <<vars, nextTick, since, starving>>

\* RefreshExpiring calls Refresh for the next identity of its snapshot.
SweepCall ==
  /\ sweeping
  /\ \E i \in due : CallRefresh(Loop, i) /\ due' = due \ {i}
  /\ since' = now
  /\ starving' = FALSE
  /\ UNCHANGED <<sweeping, nextTick, pending>>

\* Every identity of the snapshot was tried, whatever came of it.
SweepEnd ==
  /\ sweeping
  /\ due = {}
  /\ pc[Loop] = "idle"
  /\ sweeping' = FALSE
  /\ UNCHANGED <<vars, due, nextTick, pending, since, starving>>

\* A client of the store, the loop excepted.
OtherCall(c) == c # Loop /\ ClientCall(c) /\ UNCHANGED loop

LoopStep == Fire \/ SweepStart \/ SweepCall \/ SweepEnd

\* c takes the lock the loop has been waiting for, and logs in under it.
Overtakes(c) ==
  /\ pc[Loop] = "refreshWait" /\ c # Loop
  /\ since < now
  /\ flight[want[Loop]] = NoCaller /\ flight'[want[Loop]] = c

\* A sync.Mutex enters starvation mode when a waiter that has waited for more than a
\* millisecond is overtaken, and hands itself over from then on.
Fairly(c) ==
  /\ ~(starving /\ Overtakes(c))
  /\ starving' = (starving \/ Overtakes(c))
  /\ UNCHANGED <<ticker, since>>

LoopNext ==
  \/ LoopStep
  \/ \E c \in Caller : OtherCall(c) \/ (CallerStep(c) /\ Fairly(c))
  \/ (Tick \/ Quiescent) /\ UNCHANGED loop

LoopSpec == LoopInit /\ [][LoopNext]_pvars

-----------------------------------------------------------------------------
(* A healthy target and an unloaded machine: every login succeeds, a renewal*)
(* takes at most MaxDelay, and the clock does not run on while the loop or a*)
(* caller could take a step.                                               *)

Prompt ==
  /\ now < nextTick
  /\ ~sweeping => ~pending
  /\ sweeping => pc[Loop] \notin {"idle", "returned"}
  /\ \A c \in Caller : Waiting(c) => flight[want[c]] # NoCaller
  /\ \A c \in Caller : LoggingIn(c) =>
       \A a \in attempts[want[c]] : a.n = login[c] => now - a.at < MaxDelay

TimelyNext ==
  \/ LoopStep
  \/ \E c \in Caller :
       \/ OtherCall(c)
       \/ /\ GetEnter(c) \/ RefreshEnter(c) \/ RecipeOk(c) \/ Return(c)
          /\ Fairly(c)
  \/ Prompt /\ Tick /\ UNCHANGED loop
  \/ Quiescent /\ UNCHANGED loop

TimelySpec == LoopInit /\ [][TimelyNext]_pvars

-----------------------------------------------------------------------------
(* Properties.                                                             *)

\* What the loop is for (cmd/daemon.go:52-55): a session no request touches does
\* not sit expired between runs.  With renewals that take up to an interval for
\* all identities together, looking two intervals ahead is enough.
KeptAlive == \A i \in Id : ~Expired(session[i], now)

-----------------------------------------------------------------------------
(* What keeps the sessions alive, and the invariant behind it.             *)

\* The longest the loop is inside Refresh for one identity: behind a login that
\* began before it asked, and behind one that overtook it, or in its own.
Patience == 2 * MaxDelay

\* A sweep over all identities fits into an interval, and a lifetime the target
\* states is never shorter than what the loop looks ahead.
HealthyTarget ==
  /\ IsFiniteSet(Id) /\ Cardinality(Id) * Patience <= Interval
  /\ \A secs \in Lifetimes : secs > 0 => secs >= Within

\* A session also outlives the window in which attempts were counted.
OutlivesWindow == \A secs \in Lifetimes : secs > 0 => secs >= Within + Window

\* The loop does not find the window used up by the attempts of others.
NotRefused ==
  pc[Loop] = "refreshWait" /\ FlightFree(want[Loop]) /\ ~Swapped(Loop)
    => ~Limited(want[Loop])

\* When the sweep that runs has to be over, or the next one to begin.
Deadline == IF pending THEN nextTick - Interval ELSE nextTick

\* A tick is taken at the instant the ticker fires.
ClockOK ==
  /\ nextTick \in Nat /\ since \in Nat /\ since <= now
  /\ nextTick - Interval <= now /\ now <= nextTick
  /\ pending => now = nextTick - Interval

\* The loop is outside the store between two sweeps, and only ever refreshes
\* sessions that are there.
SweepOK ==
  /\ sweeping \in BOOLEAN /\ pending \in BOOLEAN /\ starving \in BOOLEAN
  /\ due \subseteq Id
  /\ \A i \in due : session[i] # Nil
  /\ ~sweeping => due = {} /\ pc[Loop] = "idle"
  /\ pc[Loop] \in {"idle", "refreshWait", "recover", "returned"}
  /\ pc[Loop] \in {"refreshWait", "recover"} => session[want[Loop]] # Nil

\* An attempt of c's running login was made by the instant t.
BegunBy(c, t) == \E a \in attempts[want[c]] : a.n = login[c] /\ a.at <= t

\* Who holds flightMu logs in under it, and is counted unless nothing is stored yet.
LockOK ==
  /\ \A i \in Id : flight[i] # NoCaller => LoggingIn(flight[i]) /\ want[flight[i]] = i
  /\ \A c \in Caller : pc[c] = "establish" => session[want[c]] = Nil
  /\ \A c \in Caller : pc[c] \in {"renew", "recover"} => BegunBy(c, now)

\* What the sweep still has to do fits before its deadline.
PaceOK ==
  sweeping =>
    (IF pc[Loop] \in {"refreshWait", "recover"} THEN since + Patience ELSE now)
      + Cardinality(due) * Patience <= Deadline

\* The loop waits for one login, or is overtaken once; either leaves it another
\* session than the one it came to replace.
WaitOK ==
  LET i == want[Loop] IN
  /\ pc[Loop] = "recover" => now <= since + MaxDelay /\ BegunBy(Loop, since)
  /\ pc[Loop] = "refreshWait" /\ ~starving =>
       /\ now <= since + MaxDelay
       /\ since < now /\ FlightFree(i) => Swapped(Loop)
       /\ ~FlightFree(i) => BegunBy(flight[i], since)
  /\ pc[Loop] = "refreshWait" /\ starving =>
       /\ since < now /\ now <= since + Patience
       /\ Swapped(Loop)
       /\ ~FlightFree(i) => BegunBy(flight[i], since + MaxDelay)

\* The loop has still to renew i in this sweep.
Owed(i) ==
  \/ i \in due
  \/ i = want[Loop] /\ pc[Loop] = "recover"
  \/ i = want[Loop] /\ pc[Loop] = "refreshWait" /\ ~Swapped(Loop)

\* A session outlives the sweep that has to renew it; the others outlive the next.
AliveOK ==
  \A i \in Id :
    session[i].exp # Unknown =>
      (IF Owed(i) THEN Deadline ELSE Deadline + Interval) <= session[i].exp

\* An attempt is still running, or the session outlives it by what the target states.
RenewedOK ==
  \A i \in Id : \A a \in attempts[i] :
    \/ \E c \in Caller : LoggingIn(c) /\ want[c] = i /\ login[c] = a.n
    \/ session[i].exp = Unknown
    \/ session[i].exp >= a.at + Within + Window

LoopInv == StoreInv /\ ClockOK /\ SweepOK /\ LockOK /\ PaceOK /\ WaitOK /\ AliveOK
=============================================================================

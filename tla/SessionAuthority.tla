------------------------- MODULE SessionAuthority -------------------------
(***************************************************************************)
(* What the session store promises the gateway, the control plane and the  *)
(* proactive loop, without its locks, pointers, stamps and waiting callers *)
(*                                                                         *)
(*   - one login at a time per identity, started by one client;            *)
(*   - the session held is the result of the last login that succeeded,    *)
(*     or the same credentials marked as given up;                         *)
(*   - a client gets the session held at that instant, the outcome of its  *)
(*     own login, or a refusal;                                            *)
(*   - at most MaxBurst counted logins start within any Window, and a      *)
(*     client is refused only when that many really did.                   *)
(***************************************************************************)
EXTENDS Integers, FiniteSets

CONSTANTS Id, Unmanaged, NoId, Client, NoClient, MaxBurst, Window, Lifetimes

VARIABLES
  now,       \* the clock
  held,      \* the session of each identity: credentials and expiry
  busy,      \* the client whose login is running for the identity
  issued,    \* logins started so far
  ticket,    \* the number of a client's own login
  asked,     \* the identity a client asked for
  answer,    \* what it was told, once it was
  renewals   \* every counted login: its number and its instant

vars == <<now, held, busy, issued, ticket, asked, answer, renewals>>

Unknown == 0
Past    == 1
None    == [tok |-> 0, exp |-> Unknown]

ExpiresAt(secs, t) == IF secs <= 0 THEN Unknown ELSE t + secs

Tell(kind, s) == [kind |-> kind, sess |-> s]
Pending       == Tell("none", None)

InWindow(i) == {r \in renewals[i] : r.at > now - Window}

Init ==
  /\ now = 2
  /\ held = [i \in Id |-> None]
  /\ busy = [i \in Id |-> NoClient]
  /\ issued = 0
  /\ ticket = [c \in Client |-> 0]
  /\ asked = [c \in Client |-> NoId]
  /\ answer = [c \in Client |-> Pending]
  /\ renewals = [i \in Id |-> {}]

\* A client asks, and may be told at once.
Ask(c, i) ==
  /\ asked[c] = NoId
  /\ asked' = [asked EXCEPT ![c] = i]
  /\ \/ UNCHANGED answer
     \/ i \in Id /\ held[i] # None /\ answer' = [answer EXCEPT ![c] = Tell("ok", held[i])]
     \/ i \notin Id /\ answer' = [answer EXCEPT ![c] = Tell("unknown", None)]
  /\ UNCHANGED <<now, held, busy, issued, ticket, renewals>>

Open(c) == asked[c] \in Id /\ answer[c] = Pending

\* A waiting client is told what is held.
Adopt(c) ==
  /\ Open(c)
  /\ busy[asked[c]] = NoClient
  /\ held[asked[c]] # None
  /\ answer' = [answer EXCEPT ![c] = Tell("ok", held[asked[c]])]
  /\ UNCHANGED <<now, held, busy, issued, ticket, asked, renewals>>

\* A waiting client is refused because the window is full.
Refuse(c) ==
  /\ Open(c)
  /\ busy[asked[c]] = NoClient
  /\ Cardinality(InWindow(asked[c])) >= MaxBurst
  /\ answer' = [answer EXCEPT ![c] = Tell("limited", None)]
  /\ UNCHANGED <<now, held, busy, issued, ticket, asked, renewals>>

\* A waiting client starts a login.  Only the first one is not counted.
Begin(c) ==
  LET i == asked[c] IN
  /\ Open(c)
  /\ busy[i] = NoClient
  /\ busy' = [busy EXCEPT ![i] = c]
  /\ issued' = issued + 1
  /\ ticket' = [ticket EXCEPT ![c] = issued + 1]
  /\ \/ held[i] = None /\ UNCHANGED renewals
     \/ /\ Cardinality(InWindow(i)) < MaxBurst
        /\ renewals' = [renewals EXCEPT ![i] = @ \cup {[n |-> issued + 1, at |-> now]}]
  /\ UNCHANGED <<now, held, asked, answer>>

\* The login succeeds: its result is held from now on.
Succeed(c) ==
  LET i == asked[c] IN
  /\ Open(c)
  /\ busy[i] = c
  /\ \E secs \in Lifetimes :
       LET new == [tok |-> ticket[c], exp |-> ExpiresAt(secs, now)]
       IN  /\ held' = [held EXCEPT ![i] = new]
           /\ answer' = [answer EXCEPT ![c] = Tell("ok", new)]
  /\ busy' = [busy EXCEPT ![i] = NoClient]
  /\ UNCHANGED <<now, issued, ticket, asked, renewals>>

\* The login fails: the session is kept, or kept and given up.
Fail(c) ==
  LET i == asked[c] IN
  /\ Open(c)
  /\ busy[i] = c
  /\ \/ UNCHANGED held
     \/ held[i] # None /\ held' = [held EXCEPT ![i].exp = Past]
  /\ answer' = [answer EXCEPT ![c] = Tell("err", None)]
  /\ busy' = [busy EXCEPT ![i] = NoClient]
  /\ UNCHANGED <<now, issued, ticket, asked, renewals>>

\* A client that was told may ask again.
Leave(c) ==
  /\ answer[c] # Pending
  /\ asked' = [asked EXCEPT ![c] = NoId]
  /\ answer' = [answer EXCEPT ![c] = Pending]
  /\ ticket' = [ticket EXCEPT ![c] = 0]
  /\ UNCHANGED <<now, held, busy, issued, renewals>>

Tick == now' = now + 1 /\ UNCHANGED <<held, busy, issued, ticket, asked, answer, renewals>>

Next ==
  \/ \E c \in Client :
       \/ \E i \in Id \cup Unmanaged : Ask(c, i)
       \/ Adopt(c) \/ Refuse(c) \/ Begin(c) \/ Succeed(c) \/ Fail(c) \/ Leave(c)
  \/ Tick

Spec == Init /\ [][Next]_vars
=============================================================================

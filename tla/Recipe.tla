------------------------------ MODULE Recipe ------------------------------
(***************************************************************************)
(* The recipe engine of claviger (internal/recipe): what one Establish or  *)
(* Refresh call of the store does at the target, for the four types of     *)
(* recipe a configuration may give an identity.                            *)
(*                                                                         *)
(* The store makes one such call at a time for an identity.  The module    *)
(* follows the dialogue of a call request by request.  Requests are        *)
(* numbered, and the number of a request stands for every value that its   *)
(* answer hands out: a cookie, a bearer or refresh token, an extracted     *)
(* variable.  Zero is the empty value.                                     *)
(***************************************************************************)
EXTENDS Integers, Sequences

CONSTANTS Kinds,      \* the types of recipe an identity may be configured with
          Steps,      \* a multistep flow: the variables each step extracts
          CsrfVar,    \* the variable that capture.csrf is a template of
          ExpiresIn,  \* the expires_in values a target may answer with
          Quarter,    \* 2^62: a quarter of the values of a time.Duration
          Second,     \* time.Second: duration units in a second
          MaxRequests \* bound: no call starts after this many requests

ASSUME RecipeAssumption ==
  /\ Kinds \subseteq {"form", "oauth", "multistep", "browser"}
  /\ Len(Steps) \in Nat \ {0}
  /\ \E k \in 1..Len(Steps) : CsrfVar \in Steps[k]
  /\ ExpiresIn \subseteq Int
  /\ Quarter \in Nat
  /\ Second \in 1..Quarter
  /\ MaxRequests \in Nat

VARIABLES
  kind,     \* the type of the identity's recipe
  held,     \* the session the store holds
  phase,    \* where the call is in its dialogue
  step,     \* the step of a multistep flow or of a browser's task list
  jar,      \* the cookie in the jar of a multistep flow
  found,    \* the variables a multistep flow has extracted
  out,      \* what the call returns
  sent,     \* requests sent so far
  first,    \* history: the first request of this call
  told,     \* history: the refresh token the target last said to use
  tried,    \* history: a refresh grant was tried in this call
  said,     \* history: the expires_in of the answer the call ends with
  loggedIn  \* history: the cookie the answer to the login form set

dialogue == <<phase, step, jar, found, out, sent>>
history  == <<first, told, tried, said, loggedIn>>
vars     == <<kind, held, dialogue, history>>

Var     == UNION {Steps[k] : k \in 1..Len(Steps)}
NoVars  == [v \in Var |-> 0]
NoSession == [bearer |-> 0, refresh |-> 0, cookie |-> 0, csrf |-> 0, life |-> 0]

-----------------------------------------------------------------------------
(* expires_in, a count of seconds, becomes a Duration, which wraps around. *)

Signed(n) ==
  LET m == n % (4 * Quarter) IN IF m < 2 * Quarter THEN m ELSE m - 4 * Quarter

MaxSeconds == Quarter \div Second

LifeUnclamped(secs) == IF secs <= 0 THEN 0 ELSE Signed(secs * Second)

\* How far ahead the expiry is; 0 when the server did not say.
Life(secs) ==
  IF secs <= 0 THEN 0 ELSE Signed((IF secs > MaxSeconds THEN MaxSeconds ELSE secs) * Second)

-----------------------------------------------------------------------------
(* The shape of every dialogue.                                            *)

Init ==
  /\ kind \in Kinds
  /\ held = NoSession
  /\ phase = "idle"
  /\ step = 0
  /\ jar = 0
  /\ found = NoVars
  /\ out = NoSession
  /\ sent = 0
  /\ first = 0
  /\ told = 0
  /\ tried = FALSE
  /\ said = 0
  /\ loggedIn = 0

Send(where) ==
  /\ phase' = where
  /\ sent' = sent + 1

Returns(s) ==
  /\ phase' = "returned"
  /\ out' = s
  /\ UNCHANGED sent

Fails == Returns(NoSession)

HasMaterial(s) == s.cookie # 0 \/ s.bearer # 0

\* A login that captured neither a cookie nor a token is an error.
ReturnsCaptured(s) == IF HasMaterial(s) THEN Returns(s) ELSE Fails

\* The store calls Establish when it holds no session and Refresh when it
\* does; only an OAuth recipe that holds a refresh token tells them apart.
Call(where) ==
  /\ phase = "idle"
  /\ sent < MaxRequests
  /\ Send(where)
  /\ first' = sent + 1
  /\ tried' = (where = "refresh")
  /\ loggedIn' = 0
  /\ UNCHANGED <<kind, held, out, told, said>>

\* The store commits what a call returned and keeps what it held on an error.
Return ==
  /\ phase = "returned"
  /\ phase' = "idle"
  /\ held' = IF out = NoSession THEN held ELSE out
  /\ out' = NoSession
  /\ UNCHANGED <<kind, step, jar, found, sent, history>>

-----------------------------------------------------------------------------
(* oauth: the refresh grant, and the password grant it falls back to.      *)

TokenAnswer == [bearer : {sent}, refresh : {0, sent}, secs : ExpiresIn]

NeverCarried(a, prev) == a.refresh

AlwaysCarried(a, prev) == IF a.refresh = 0 THEN held.refresh ELSE a.refresh

\* A refresh-grant answer that omits the refresh token leaves the old one.
CarriedForward(a, prev) == IF a.refresh = 0 THEN prev.refresh ELSE a.refresh

Granted(a, prev) ==
  /\ Returns([NoSession EXCEPT !.bearer = a.bearer,
                               !.refresh = CarriedForward(a, prev),
                               !.life = Life(a.secs)])
  /\ said' = a.secs

HoldsGrant == held.refresh # 0

OAuthCall ==
  /\ kind = "oauth"
  /\ Call(IF HoldsGrant THEN "refresh" ELSE "password")
  /\ UNCHANGED <<step, jar, found>>

RefreshGranted ==
  /\ phase = "refresh"
  /\ \E a \in TokenAnswer :
       /\ Granted(a, held)
       /\ told' = IF a.refresh = 0 THEN told ELSE a.refresh
  /\ UNCHANGED <<kind, held, step, jar, found, first, tried, loggedIn>>

\* Whatever went wrong, the next request is a password grant.
FallBack ==
  /\ Send("password")
  /\ UNCHANGED out

\* No answer, a status of 400 or more, no JSON, or no access token in it.
RefreshRefused ==
  /\ phase = "refresh"
  /\ FallBack
  /\ UNCHANGED <<kind, held, step, jar, found, history>>

PasswordGranted ==
  /\ phase = "password"
  /\ \E a \in TokenAnswer :
       /\ Granted(a, NoSession)
       /\ told' = a.refresh
  /\ UNCHANGED <<kind, held, step, jar, found, first, tried, loggedIn>>

PasswordRefused ==
  /\ phase = "password"
  /\ Fails
  /\ UNCHANGED <<kind, held, step, jar, found, history>>

-----------------------------------------------------------------------------
(* form: one POST.  The HTTP client follows redirects and has no jar, and  *)
(* the recipe reads the cookies of the last answer only.                   *)

FormCall ==
  /\ kind = "form"
  /\ Call("post")
  /\ UNCHANGED <<step, jar, found>>

\* The target accepts the login and redirects; the client requests the
\* landing page, without the cookie the redirect set.
FormRedirected ==
  /\ phase = "post"
  /\ Send("landing")
  /\ loggedIn' = sent
  /\ UNCHANGED <<kind, held, step, jar, found, out, first, told, tried, said>>

FormAnswered ==
  /\ phase \in {"post", "landing"}
  /\ \E c \in {0, sent}, b \in {0, sent}, r \in {0, sent}, secs \in ExpiresIn :
       /\ ReturnsCaptured([NoSession EXCEPT !.cookie = c, !.bearer = b,
                                            !.refresh = r, !.life = Life(secs)])
       /\ said' = secs
       /\ loggedIn' = IF phase = "post" THEN c ELSE loggedIn
  /\ UNCHANGED <<kind, held, step, jar, found, first, told, tried>>

FormFails ==
  /\ phase \in {"post", "landing"}
  /\ Fails
  /\ UNCHANGED <<kind, held, step, jar, found, history>>

-----------------------------------------------------------------------------
(* multistep: a sequence of requests that share a jar and variables, both  *)
(* new in every Establish.                                                 *)

JarReused == UNCHANGED <<jar, found>>

NewFlow == jar' = 0 /\ found' = NoVars

MultiStepCall ==
  /\ kind = "multistep"
  /\ Call("step")
  /\ step' = 1
  /\ NewFlow

LastStepLate == step > Len(Steps)

LastStep == step = Len(Steps)

\* The answer to a step may set a cookie and must carry every variable the
\* step extracts; the last one may carry the bearer token too.  The jar
\* gives the session the cookies it would send to the last URL.
StepAnswered ==
  /\ phase = "step"
  /\ \E c \in {jar, sent}, b \in {0, sent} : \E k \in {0, c} :
       LET all == [v \in Var |-> IF v \in Steps[step] THEN sent ELSE found[v]]
       IN  /\ jar' = c
           /\ found' = all
           /\ IF LastStep
                THEN /\ ReturnsCaptured([NoSession EXCEPT !.cookie = k, !.bearer = b,
                                                          !.csrf = all[CsrfVar]])
                     /\ UNCHANGED step
                ELSE /\ Send("step")
                     /\ step' = step + 1
                     /\ UNCHANGED out
           /\ said' = 0
  /\ UNCHANGED <<kind, held, first, told, tried, loggedIn>>

\* No answer, a status of 400 or more, or a variable that is not there.
StepFails ==
  /\ phase = "step"
  /\ Fails
  /\ UNCHANGED <<kind, held, step, jar, found, history>>

-----------------------------------------------------------------------------
(* browser: Chrome works through a list of tasks under one deadline.       *)

Tasks == 6   \* navigate, see the user field, type, submit, success, cookies

BrowserCall ==
  /\ kind = "browser"
  /\ Call("browse")
  /\ step' = 1
  /\ UNCHANGED <<jar, found>>

TaskDone ==
  /\ phase = "browse"
  /\ step < Tasks
  /\ step' = step + 1
  /\ UNCHANGED <<kind, held, phase, jar, found, out, sent, history>>

BrowserCaptures ==
  /\ phase = "browse"
  /\ step = Tasks
  /\ \E c \in {0, sent}, b \in {0, sent} :
       ReturnsCaptured([NoSession EXCEPT !.cookie = c, !.bearer = b])
  /\ said' = 0
  /\ UNCHANGED <<kind, held, step, jar, found, first, told, tried, loggedIn>>

DeadlineBeforeSubmit == step < 5

\* The run context's deadline, 60 seconds or 300 with a human at the window,
\* covers every task.
Deadline == TRUE

\* The deadline passes, the page fails a task, or there is no Chrome.
BrowserTimesOut ==
  /\ phase = "browse"
  /\ Deadline
  /\ Fails
  /\ UNCHANGED <<kind, held, step, jar, found, history>>

-----------------------------------------------------------------------------
OAuth     == RefreshGranted \/ RefreshRefused \/ PasswordGranted \/ PasswordRefused
Form      == FormRedirected \/ FormAnswered \/ FormFails
MultiStep == StepAnswered \/ StepFails
Browser   == TaskDone \/ BrowserCaptures

Quiescent == phase = "idle" /\ sent >= MaxRequests /\ UNCHANGED vars

Next ==
  \/ OAuthCall \/ FormCall \/ MultiStepCall \/ BrowserCall
  \/ OAuth \/ Form \/ MultiStep \/ Browser \/ BrowserTimesOut
  \/ Return
  \/ Quiescent

\* Every HTTP request is answered, or fails when its context ends.  Nothing
\* is assumed of a page: it need never reach the next task.
RecipeSpec ==
  /\ Init
  /\ [][Next]_vars
  /\ WF_vars(OAuth \/ Form \/ MultiStep)
  /\ WF_vars(BrowserTimesOut)
  /\ WF_vars(Return)

-----------------------------------------------------------------------------
(* Properties.                                                             *)

Value == 0..(MaxRequests + Len(Steps) + 1)

SessionRecord == [bearer : Value, refresh : Value, cookie : Value, csrf : Value, life : Int]

\* Type: every variable stays in its range, a flow never runs past its last
\* step, and the refresh token of a session is one some answer handed out.
RecipeTypeOK ==
  /\ kind \in Kinds
  /\ held \in SessionRecord /\ out \in SessionRecord
  /\ phase \in {"idle", "refresh", "password", "post", "landing", "step", "browse", "returned"}
  /\ step \in 0..(IF kind = "browser" THEN Tasks ELSE Len(Steps))
  /\ jar \in Value /\ found \in [Var -> Value]
  /\ {sent, first, told, loggedIn} \subseteq Value
  /\ tried \in BOOLEAN /\ said \in ExpiresIn \cup {0}

ThisCall == {0} \cup first..sent

\* A returned session is made of what this call's own answers handed out,
\* never of what an earlier login left behind, and it is never empty
\* (multistep.go: one jar and one set of variables per Establish).
OneFlow ==
  phase = "returned" /\ out # NoSession =>
    /\ HasMaterial(out)
    /\ {out.bearer, out.cookie, out.csrf} \subseteq ThisCall

\* The refresh token of an OAuth session is the one the target last said to
\* use: kept when a refresh answer omits it, dropped with a grant that was
\* refused (oauth.go, carrying the refresh token forward).
RefreshTokenCurrent ==
  kind = "oauth" /\ phase = "idle" => held.refresh = told

\* The password is the last resort: it is sent only when no refresh token is known
\* or the refresh grant has just failed, and then a renewal does not fail without
\* it (oauth.go, Refresh: "so the identity recovers instead of failing every cycle").
PasswordIsLastResort ==
  /\ phase = "password" => told = 0 \/ tried
  /\ kind = "oauth" /\ phase = "returned" /\ out = NoSession /\ tried => sent > first

\* A lifetime the server gave is ahead and a missing one is unknown, however
\* large the number (recipe.go: a huge value "cannot overflow").
ExpiryAhead ==
  phase = "returned" /\ HasMaterial(out) => (said > 0 <=> out.life > 0)

-----------------------------------------------------------------------------
(* The inductive invariant behind the safety properties.                   *)

\* Each type of recipe has requests of its own, in an order of its own, and a call
\* sends no more of them than its dialogue has.
DialogueOK ==
  /\ phase \in {"refresh", "password"} => kind = "oauth"
  /\ phase \in {"post", "landing"} => kind = "form"
  /\ phase = "step" => kind = "multistep" /\ step >= 1 /\ sent < MaxRequests + step
  /\ phase = "browse" => kind = "browser" /\ step >= 1
  /\ phase \in {"refresh", "post", "browse"} => sent <= MaxRequests
  /\ sent <= MaxRequests + Len(Steps)
  /\ first <= sent /\ (phase # "idle" => first >= 1)

\* Whatever is kept was handed out by an answer.
ValuesOK ==
  /\ \A s \in {held, out} : {s.bearer, s.refresh, s.cookie, s.csrf} \subseteq 0..sent
  /\ {jar, told, loggedIn} \subseteq 0..sent
  /\ \A v \in Var : found[v] \in 0..sent

\* A flow starts with nothing, and nothing is returned before it ends.
FlowOK ==
  /\ phase = "step" => jar \in ThisCall /\ \A v \in Var : found[v] \in ThisCall
  /\ phase # "returned" => out = NoSession

\* Which of the two sessions has the current refresh token, and what a password
\* grant comes after.
GrantsOK ==
  /\ kind = "oauth" =>
       IF phase = "returned" /\ out # NoSession THEN out.refresh = told
                                                ELSE held.refresh = told
  /\ phase = "refresh" => tried
  /\ phase = "password" /\ tried => sent > first

\* A call is always somewhere in the dialogue of its recipe, and what it has kept so
\* far fits (internal/recipe): every part of the state agrees with the others in the
\* ways the safety properties need.
RecipeInv ==
  /\ RecipeTypeOK /\ DialogueOK /\ ValuesOK /\ FlowOK /\ GrantsOK
  /\ OneFlow /\ RefreshTokenCurrent /\ PasswordIsLastResort /\ ExpiryAhead

-----------------------------------------------------------------------------
(* Liveness, and what the README says.                                     *)

\* A login ends, even at a page that never reaches its success condition
\* (browser.go: "fails with a timeout rather than hanging forever").
LoginEnds == phase # "idle" ~> phase = "idle"

\* A form login captures the cookie that the target set on accepting it
\* (README: it "captures the resulting session cookie").
FormCapturesLogin ==
  kind = "form" /\ phase = "returned" /\ loggedIn # 0 => out.cookie = loggedIn
=============================================================================

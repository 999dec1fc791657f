---------------------------- MODULE RecipeProofs ----------------------------
(***************************************************************************)
(* Proofs about Recipe, for every flow of steps, every lifetime a target   *)
(* may answer with, every size of a Duration and every number of requests. *)
(* RecipeInv is proved in layers: each lemma assumes the conjuncts below it*)
(* and shows that a step keeps its own.                                    *)
(***************************************************************************)
EXTENDS Recipe, TLAPS

-----------------------------------------------------------------------------
(* Arithmetic of a lifetime.                                               *)

LEMMA QuotientFits ==
  ASSUME NEW a \in Nat, NEW b \in Nat \ {0}, b <= a
  PROVE  a \div b \in Nat \ {0} /\ (a \div b) * b <= a
<1>1. a \div b \in Nat /\ (a \div b) * b <= a
  OBVIOUS
<1>2. a \div b >= 1
  OBVIOUS
<1> QED BY <1>1, <1>2

LEMMA ProductGrows ==
  ASSUME NEW a \in Nat \ {0}, NEW b \in Nat, NEW c \in Nat \ {0}, a <= b
  PROVE  a * c \in Nat \ {0} /\ a * c <= b * c
OBVIOUS

LEMMA SignedSmall ==
  ASSUME NEW n \in Nat, n < 2 * Quarter
  PROVE  Signed(n) = n
<1>1. n % (4 * Quarter) = n
  BY RecipeAssumption
<1> QED BY <1>1 DEF Signed

\* A lifetime is ahead exactly when the server gave one, whatever its size: the
\* clamp keeps the product within half of the values of a Duration.
LEMMA LifeAhead ==
  ASSUME NEW secs \in Int
  PROVE  Life(secs) \in Nat /\ (Life(secs) > 0 <=> secs > 0)
<1>1. CASE secs <= 0
  BY <1>1 DEF Life
<1>2. CASE secs > 0
  <2> DEFINE n == IF secs > MaxSeconds THEN MaxSeconds ELSE secs
  <2>1. Quarter \in Nat /\ Second \in Nat \ {0} /\ Second <= Quarter
    BY RecipeAssumption
  <2>2. MaxSeconds \in Nat \ {0} /\ MaxSeconds * Second <= Quarter
    BY <2>1, QuotientFits DEF MaxSeconds
  <2>3. n \in Nat \ {0} /\ n <= MaxSeconds
    BY <1>2, <2>2
  <2> HIDE DEF n
  <2>4. n * Second \in Nat \ {0} /\ n * Second <= MaxSeconds * Second
    BY <2>1, <2>2, <2>3, ProductGrows
  <2> DEFINE p == n * Second
             q == MaxSeconds * Second
  <2>5. q \in Int
    BY <2>1, <2>2
  <2>6. p < 2 * Quarter
    <3> HIDE DEF p, q
    <3> QED BY <2>1, <2>2, <2>4, <2>5 DEF p, q
  <2>7. Signed(p) = p
    BY <2>4, <2>6, SignedSmall
  <2>8. Life(secs) = p
    BY <1>2, <2>7 DEF Life, n
  <2> QED BY <1>2, <2>4, <2>8
<1> QED BY <1>1, <1>2

-----------------------------------------------------------------------------
(* How a call ends.                                                        *)

LEMMA CapturedEnds ==
  ASSUME NEW s, ReturnsCaptured(s)
  PROVE  /\ phase' = "returned" /\ sent' = sent
         /\ out' = NoSession \/ (out' = s /\ HasMaterial(s))
BY DEF ReturnsCaptured, Returns, Fails

\* A session of parts the target handed out, with the lifetime it said.
LEMMA PartsSession ==
  ASSUME NEW b \in Value, NEW r \in Value, NEW c \in Value, NEW x \in Value, NEW n \in Int
  PROVE  [bearer |-> b, refresh |-> r, cookie |-> c, csrf |-> x, life |-> n] \in SessionRecord
BY DEF SessionRecord

LEMMA NoSessionRecord == NoSession \in SessionRecord /\ ~HasMaterial(NoSession)
BY RecipeAssumption DEF NoSession, SessionRecord, Value, HasMaterial

-----------------------------------------------------------------------------
(* The dialogue.                                                           *)

LEMMA RecipeInit == Init => RecipeInv
<1> SUFFICES ASSUME Init PROVE RecipeInv
  OBVIOUS
<1> USE RecipeAssumption DEF Init
<1>1. NoVars \in [Var -> Value]
  BY DEF NoVars, Value
<1>2. RecipeTypeOK
  <2>1. 0 \in Value /\ 0 \in 0..(IF kind = "browser" THEN Tasks ELSE Len(Steps))
    BY DEF Value, Tasks
  <2> QED BY <1>1, <2>1, NoSessionRecord DEF RecipeTypeOK
<1>3. DialogueOK
  BY DEF DialogueOK
<1>4. ValuesOK
  BY DEF ValuesOK, NoSession, NoVars
<1>5. FlowOK /\ GrantsOK /\ OneFlow /\ RefreshTokenCurrent /\ PasswordIsLastResort /\ ExpiryAhead
  BY DEF FlowOK, GrantsOK, OneFlow, RefreshTokenCurrent, PasswordIsLastResort, ExpiryAhead,
         NoSession
<1> QED BY <1>2, <1>3, <1>4, <1>5 DEF RecipeInv

LEMMA Ranges ==
  ASSUME RecipeTypeOK
  PROVE  /\ sent \in Nat /\ first \in Nat /\ step \in Nat /\ MaxRequests \in Nat
         /\ Len(Steps) \in Nat \ {0}
         /\ kind # "browser" => step <= Len(Steps)
         /\ kind = "browser" => step <= Tasks
<1>1. MaxRequests \in Nat /\ Len(Steps) \in Nat \ {0} /\ Tasks \in Nat
  BY RecipeAssumption DEF Tasks
<1>2. sent \in Value /\ first \in Value
  BY DEF RecipeTypeOK
<1>3. /\ kind = "browser" => step \in 0..Tasks
      /\ kind # "browser" => step \in 0..Len(Steps)
  BY DEF RecipeTypeOK
<1> HIDE DEF Tasks
<1> QED BY <1>1, <1>2, <1>3 DEF Value

\* What the steps have in common: what a step may write to each variable.
LEMMA Frame ==
  ASSUME [Next]_vars
  PROVE  /\ UNCHANGED kind /\ held' \in {held, out}
         /\ sent' \in {sent, sent + 1} /\ first' \in {first, sent + 1}
         /\ told' \in {told, 0, sent} /\ loggedIn' \in {loggedIn, 0, sent}
         /\ tried' \in {tried} \cup BOOLEAN /\ said' \in {said, 0} \cup ExpiresIn
         /\ UNCHANGED <<jar, found>> \/ MultiStepCall \/ StepAnswered
         /\ UNCHANGED step \/ MultiStepCall \/ StepAnswered \/ BrowserCall \/ TaskDone
         /\ phase = "returned" => out' \in {out, NoSession}
<1> USE DEF Next, OAuth, Form, MultiStep, Browser, Quiescent, OAuthCall, FormCall,
            MultiStepCall, BrowserCall, Call, RefreshGranted, PasswordGranted, Granted,
            TokenAnswer, RefreshRefused, PasswordRefused, FormRedirected, FormAnswered,
            FormFails, StepAnswered, StepFails, TaskDone, BrowserCaptures, BrowserTimesOut,
            Return, vars, dialogue, history
<1>1. UNCHANGED kind /\ held' \in {held, out}
  OBVIOUS
<1>2. sent' \in {sent, sent + 1}
  BY CapturedEnds DEF Send, FallBack, Fails, Returns
<1>3. first' \in {first, sent + 1}
  OBVIOUS
<1>4. told' \in {told, 0, sent}
  OBVIOUS
<1>5. loggedIn' \in {loggedIn, 0, sent}
  OBVIOUS
<1>6. tried' \in {tried} \cup BOOLEAN
  OBVIOUS
<1>7. said' \in {said, 0} \cup ExpiresIn
  OBVIOUS
<1>8. UNCHANGED <<jar, found>> \/ MultiStepCall \/ StepAnswered
  OBVIOUS
<1>9. UNCHANGED step \/ MultiStepCall \/ StepAnswered \/ BrowserCall \/ TaskDone
  OBVIOUS
<1>10. phase = "returned" => out' \in {out, NoSession}
  OBVIOUS
<1> QED BY <1>1, <1>2, <1>3, <1>4, <1>5, <1>6, <1>7, <1>8, <1>9, <1>10

LEMMA DialogueStep == RecipeTypeOK /\ DialogueOK /\ [Next]_vars => DialogueOK'
<1> SUFFICES ASSUME RecipeTypeOK, DialogueOK, [Next]_vars PROVE DialogueOK'
  OBVIOUS
<1>0. /\ sent \in Nat /\ first \in Nat /\ step \in Nat /\ MaxRequests \in Nat
      /\ Len(Steps) \in Nat \ {0} /\ (kind # "browser" => step <= Len(Steps))
  BY Ranges
<1>1. CASE OAuthCall \/ FormCall \/ MultiStepCall \/ BrowserCall
  BY <1>0, <1>1 DEF OAuthCall, FormCall, MultiStepCall, BrowserCall, Call, Send, DialogueOK
<1>2. CASE RefreshRefused \/ FormRedirected
  BY <1>0, <1>2 DEF RefreshRefused, FormRedirected, FallBack, Send, DialogueOK, history
<1>3. CASE RefreshGranted \/ PasswordGranted
  BY <1>0, <1>3 DEF RefreshGranted, PasswordGranted, Granted, Returns, DialogueOK
<1>4. CASE PasswordRefused \/ FormFails \/ StepFails \/ BrowserTimesOut
  BY <1>0, <1>4 DEF PasswordRefused, FormFails, StepFails, BrowserTimesOut, Fails, Returns,
                    DialogueOK, history
<1>5. CASE FormAnswered \/ BrowserCaptures
  <2>1. phase' = "returned" /\ UNCHANGED <<kind, sent, step, first>> /\ phase # "idle"
    BY <1>5, CapturedEnds DEF FormAnswered, BrowserCaptures
  <2> QED BY <1>0, <2>1 DEF DialogueOK
<1>6. CASE StepAnswered
  <2>1. CASE LastStep
    <3>1. phase' = "returned" /\ UNCHANGED <<kind, sent, step, first>> /\ phase # "idle"
      BY <1>6, <2>1, CapturedEnds DEF StepAnswered
    <3> QED BY <1>0, <3>1 DEF DialogueOK
  <2>2. CASE ~LastStep
    <3>1. /\ phase = "step" /\ phase' = "step" /\ sent' = sent + 1 /\ step' = step + 1
          /\ UNCHANGED <<kind, first>>
      BY <1>6, <2>2 DEF StepAnswered, Send
    <3>2. step < Len(Steps)
      BY <1>0, <2>2, <3>1 DEF LastStep, DialogueOK
    <3> QED BY <1>0, <3>1, <3>2 DEF DialogueOK
  <2> QED BY <2>1, <2>2
<1>7. CASE TaskDone
  BY <1>0, <1>7 DEF TaskDone, DialogueOK, history
<1>8. CASE Return
  BY <1>0, <1>8 DEF Return, DialogueOK, history
<1>9. CASE UNCHANGED vars
  BY <1>9 DEF vars, dialogue, history, DialogueOK
<1> QED
  BY <1>1, <1>2, <1>3, <1>4, <1>5, <1>6, <1>7, <1>8, <1>9
  DEF Next, OAuth, Form, MultiStep, Browser, Quiescent

-----------------------------------------------------------------------------
(* What is returned.                                                       *)

LEMMA CallEmpty == RecipeTypeOK /\ DialogueOK => sent \in ThisCall /\ 0 \in ThisCall
BY Ranges DEF ThisCall, DialogueOK

LEMMA GrantMakes ==
  ASSUME NEW a \in TokenAnswer, NEW prev, Granted(a, prev)
  PROVE  /\ phase' = "returned" /\ sent' = sent
         /\ a.refresh \in {0, sent} /\ a.secs \in ExpiresIn /\ said' = a.secs
         /\ out' = [bearer |-> sent, cookie |-> 0, csrf |-> 0, life |-> Life(a.secs),
                    refresh |-> IF a.refresh = 0 THEN prev.refresh ELSE a.refresh]
<1>1. a.bearer = sent /\ a.refresh \in {0, sent} /\ a.secs \in ExpiresIn
  BY DEF TokenAnswer
<1> QED BY <1>1 DEF Granted, Returns, CarriedForward, NoSession

\* A call returns nothing, or a session made of what its own answers handed out and
\* possibly the refresh token it was called with.
Made ==
  [bearer : {0, sent}, refresh : {0, sent, held.refresh}, cookie : ThisCall,
   csrf : ThisCall, life : {Life(said')}]

LEMMA NothingSaid == Life(0) = 0
BY DEF Life

LEMMA EndMakes ==
  ASSUME RecipeTypeOK, DialogueOK, FlowOK, Next, phase' = "returned", phase # "returned"
  PROVE  /\ UNCHANGED <<kind, held, sent, first, tried>>
         /\ said' \in ExpiresIn \cup {0}
         /\ out' = NoSession \/ (out' \in Made /\ HasMaterial(out'))
<1>a. sent \in ThisCall /\ 0 \in ThisCall /\ said \in ExpiresIn \cup {0}
  BY CallEmpty DEF RecipeTypeOK
<1>b. phase # "idle" => sent \in Nat /\ sent # 0
  BY Ranges DEF DialogueOK
<1>1. CASE RefreshGranted \/ PasswordGranted
  <2>1. PICK a \in TokenAnswer, prev \in {held, NoSession} : Granted(a, prev)
    BY <1>1 DEF RefreshGranted, PasswordGranted
  <2>2. prev.refresh \in {0, held.refresh}
    BY <2>1 DEF NoSession
  <2>3. out' \in Made
    BY <1>a, <2>1, <2>2, GrantMakes DEF Made
  <2>4. out'.bearer = sent /\ sent # 0
    BY <1>1, <1>b, <2>1, GrantMakes DEF RefreshGranted, PasswordGranted
  <2>5. said' \in ExpiresIn /\ UNCHANGED <<kind, held, sent, first, tried>>
    BY <1>1, <2>1, GrantMakes DEF RefreshGranted, PasswordGranted
  <2> QED BY <2>3, <2>4, <2>5 DEF HasMaterial
<1>2. CASE PasswordRefused \/ FormFails \/ StepFails \/ BrowserTimesOut
  BY <1>2, <1>a DEF PasswordRefused, FormFails, StepFails, BrowserTimesOut, Fails, Returns,
                    history
<1>3. CASE FormAnswered
  <2>1. PICK c \in {0, sent}, b \in {0, sent}, r \in {0, sent}, secs \in ExpiresIn :
          /\ ReturnsCaptured([NoSession EXCEPT !.cookie = c, !.bearer = b,
                                               !.refresh = r, !.life = Life(secs)])
          /\ said' = secs
    BY <1>3 DEF FormAnswered
  <2>2. [NoSession EXCEPT !.cookie = c, !.bearer = b, !.refresh = r, !.life = Life(secs)]
          \in Made
    BY <1>a, <2>1 DEF NoSession, Made
  <2>3. UNCHANGED <<kind, held, first, tried>>
    BY <1>3 DEF FormAnswered
  <2> QED BY <2>1, <2>2, <2>3, CapturedEnds
<1>4. CASE StepAnswered
  <2>1. PICK b \in {0, sent}, k \in {0, jar, sent} :
          LET all == [v \in Var |-> IF v \in Steps[step] THEN sent ELSE found[v]]
          IN  /\ IF LastStep
                   THEN /\ ReturnsCaptured([NoSession EXCEPT !.cookie = k, !.bearer = b,
                                                             !.csrf = all[CsrfVar]])
                   ELSE Send("step")
              /\ said' = 0
    BY <1>4 DEF StepAnswered
  <2> DEFINE x == IF CsrfVar \in Steps[step] THEN sent ELSE found[CsrfVar]
  <2>2. CsrfVar \in Var
    BY RecipeAssumption DEF Var
  <2>3. /\ ReturnsCaptured([NoSession EXCEPT !.cookie = k, !.bearer = b, !.csrf = x])
        /\ said' = 0
    BY <2>1, <2>2 DEF Send
  <2>4. jar \in ThisCall /\ found[CsrfVar] \in ThisCall
    BY <1>4, <2>2 DEF StepAnswered, FlowOK
  <2>5. k \in ThisCall /\ x \in ThisCall
    BY <1>a, <2>1, <2>4
  <2> HIDE DEF x
  <2>6. [NoSession EXCEPT !.cookie = k, !.bearer = b, !.csrf = x] \in Made
    BY <2>1, <2>3, <2>5, NothingSaid DEF NoSession, Made
  <2>7. UNCHANGED <<kind, held, first, tried>>
    BY <1>4 DEF StepAnswered
  <2> QED BY <2>3, <2>6, <2>7, CapturedEnds
<1>5. CASE BrowserCaptures
  <2>1. PICK c \in {0, sent}, b \in {0, sent} :
          ReturnsCaptured([NoSession EXCEPT !.cookie = c, !.bearer = b])
    BY <1>5 DEF BrowserCaptures
  <2>2. [NoSession EXCEPT !.cookie = c, !.bearer = b] \in Made
    BY <1>5, <1>a, <2>1, NothingSaid DEF BrowserCaptures, NoSession, Made
  <2>3. said' = 0 /\ UNCHANGED <<kind, held, first, tried>>
    BY <1>5 DEF BrowserCaptures
  <2> QED BY <2>1, <2>2, <2>3, CapturedEnds
<1>6. ~(\/ OAuthCall \/ FormCall \/ MultiStepCall \/ BrowserCall \/ RefreshRefused
        \/ FormRedirected \/ TaskDone \/ Return \/ Quiescent)
  BY DEF OAuthCall, FormCall, MultiStepCall, BrowserCall, Call, Send, RefreshRefused, FallBack,
         FormRedirected, TaskDone, Return, Quiescent, vars, dialogue
<1> QED
  BY <1>1, <1>2, <1>3, <1>4, <1>5, <1>6 DEF Next, OAuth, Form, MultiStep, Browser

-----------------------------------------------------------------------------
(* Values and the flow.                                                    *)

\* The answer to a step of a flow.
LEMMA StepMakes ==
  ASSUME StepAnswered
  PROVE  /\ jar' \in {jar, sent} /\ \A v \in Var : found'[v] \in {sent, found[v]}
         /\ LastStep \/ (phase' = "step" /\ sent' = sent + 1 /\ UNCHANGED out)
         /\ LastStep => phase' = "returned"
         /\ phase = "step" /\ UNCHANGED <<kind, held, first, told, tried, loggedIn>>
BY CapturedEnds DEF StepAnswered, Send

LEMMA FlowStep ==
  RecipeTypeOK /\ DialogueOK /\ FlowOK /\ [Next]_vars => FlowOK'
<1> SUFFICES ASSUME RecipeTypeOK, DialogueOK, FlowOK, [Next]_vars PROVE FlowOK'
  OBVIOUS
<1>0. sent \in Nat /\ first \in Nat /\ (phase # "idle" => first <= sent)
  BY Ranges DEF DialogueOK
<1>1. CASE OAuthCall \/ FormCall \/ BrowserCall \/ RefreshRefused \/ FormRedirected \/ TaskDone
  BY <1>1 DEF OAuthCall, FormCall, BrowserCall, RefreshRefused, FormRedirected, TaskDone,
              Call, FallBack, Send, FlowOK
<1>2. CASE MultiStepCall
  BY <1>2 DEF MultiStepCall, Call, Send, NewFlow, NoVars, FlowOK, ThisCall
<1>3. CASE StepAnswered
  <2>1. CASE LastStep
    BY <1>3, <2>1, StepMakes DEF FlowOK
  <2>2. CASE ~LastStep
    <3>1. /\ jar' \in {jar, sent} /\ \A v \in Var : found'[v] \in {sent, found[v]}
          /\ phase' = "step" /\ sent' = sent + 1 /\ UNCHANGED <<out, first>> /\ phase = "step"
      BY <1>3, <2>2, StepMakes
    <3>2. sent \in ThisCall' /\ \A n \in ThisCall : n \in ThisCall'
      BY <1>0, <3>1 DEF ThisCall
    <3> QED BY <3>1, <3>2 DEF FlowOK
  <2> QED BY <2>1, <2>2
<1>4. CASE \/ RefreshGranted \/ PasswordGranted \/ PasswordRefused \/ FormFails \/ StepFails
           \/ BrowserTimesOut \/ FormAnswered \/ BrowserCaptures
  <2>1. phase' = "returned"
    BY <1>4, CapturedEnds
    DEF RefreshGranted, PasswordGranted, Granted, PasswordRefused, FormFails, StepFails,
        BrowserTimesOut, FormAnswered, BrowserCaptures, Fails, Returns
  <2> QED BY <2>1 DEF FlowOK
<1>5. CASE Return
  BY <1>5 DEF Return, FlowOK
<1>6. CASE UNCHANGED vars
  BY <1>6 DEF vars, dialogue, history, FlowOK, ThisCall
<1> QED
  BY <1>1, <1>2, <1>3, <1>4, <1>5, <1>6
  DEF Next, OAuth, Form, MultiStep, Browser, Quiescent

\* What is returned stays, is forgotten, or was made by this call.
LEMMA OutStep ==
  ASSUME RecipeTypeOK, DialogueOK, FlowOK, [Next]_vars
  PROVE  out' \in {out, NoSession} \/ (out' \in Made /\ said' \in ExpiresIn \cup {0})
<1>1. CASE phase' = "returned" /\ phase # "returned" /\ Next
  BY <1>1, EndMakes
<1>2. CASE phase = "returned"
  BY <1>2, Frame
<1>3. CASE phase' # "returned"
  BY <1>3, FlowStep DEF FlowOK
<1> QED BY <1>1, <1>2, <1>3 DEF vars, dialogue

Handed(s) == {s.bearer, s.refresh, s.cookie, s.csrf}

LEMMA ValuesStep ==
  RecipeTypeOK /\ DialogueOK /\ FlowOK /\ ValuesOK /\ [Next]_vars => ValuesOK'
<1> SUFFICES ASSUME RecipeTypeOK, DialogueOK, FlowOK, ValuesOK, [Next]_vars PROVE ValuesOK'
  OBVIOUS
<1>0. sent \in Nat
  BY Ranges
<1>1. sent' \in Nat /\ sent <= sent'
  BY <1>0, Frame
<1>2. Handed(out') \subseteq 0..sent'
  <2>1. CASE out' \in Made
    <3>1. /\ out'.bearer \in {0, sent} /\ out'.refresh \in {0, sent, held.refresh}
          /\ out'.cookie \in ThisCall /\ out'.csrf \in ThisCall
      BY <2>1 DEF Made
    <3> DEFINE S == 0..sent
    <3>2. 0 \in S /\ sent \in S /\ held.refresh \in S /\ ThisCall \subseteq S
      <4>1. 0 \in S /\ sent \in S
        BY <1>0
      <4>2. held.refresh \in S
        BY DEF ValuesOK
      <4>3. ThisCall \subseteq S
        BY <1>0, Ranges DEF ThisCall
      <4> QED BY <4>1, <4>2, <4>3
    <3>3. /\ out'.bearer \in S /\ out'.refresh \in S
          /\ out'.cookie \in S /\ out'.csrf \in S
      <4> HIDE DEF S
      <4> QED BY <3>1, <3>2 DEF S
    <3>4. 0..sent \subseteq 0..sent'
      BY <1>0, <1>1
    <3> QED BY <3>3, <3>4 DEF Handed
  <2>2. CASE out' = NoSession
    BY <1>1, <2>2 DEF Handed, NoSession
  <2>3. CASE out' = out
    BY <1>0, <1>1, <2>3 DEF ValuesOK, Handed
  <2> QED BY <2>1, <2>2, <2>3, OutStep
<1>3. Handed(held') \subseteq 0..sent'
  BY <1>0, <1>1, Frame DEF ValuesOK, Handed
<1>4. told' \in 0..sent' /\ loggedIn' \in 0..sent'
  BY <1>0, <1>1, Frame DEF ValuesOK
<1>5. jar' \in 0..sent' /\ \A v \in Var : found'[v] \in 0..sent'
  <2>1. CASE StepAnswered
    BY <1>0, <1>1, <2>1, StepMakes DEF ValuesOK
  <2>2. CASE MultiStepCall
    BY <1>1, <2>2 DEF MultiStepCall, NewFlow, NoVars
  <2>3. CASE UNCHANGED <<jar, found>>
    BY <1>0, <1>1, <2>3 DEF ValuesOK
  <2> QED BY <2>1, <2>2, <2>3, Frame
<1> QED BY <1>2, <1>3, <1>4, <1>5 DEF ValuesOK, Handed

-----------------------------------------------------------------------------
(* Type correctness.                                                       *)

LEMMA StepRange ==
  ASSUME RecipeTypeOK, DialogueOK, [Next]_vars
  PROVE  step' \in 0..(IF kind = "browser" THEN Tasks ELSE Len(Steps))
<1>0. /\ step \in Nat /\ Len(Steps) \in Nat \ {0} /\ Tasks = 6
      /\ step \in 0..(IF kind = "browser" THEN Tasks ELSE Len(Steps))
  BY Ranges DEF RecipeTypeOK, Tasks
<1>1. CASE MultiStepCall
  BY <1>0, <1>1 DEF MultiStepCall
<1>2. CASE BrowserCall
  BY <1>0, <1>2 DEF BrowserCall
<1>3. CASE StepAnswered
  <2>1. kind = "multistep" /\ step >= 1
    BY <1>3 DEF StepAnswered, DialogueOK
  <2>2. step' = IF LastStep THEN step ELSE step + 1
    BY <1>3 DEF StepAnswered
  <2> QED BY <1>0, <2>1, <2>2 DEF LastStep
<1>4. CASE TaskDone
  BY <1>0, <1>4 DEF TaskDone, DialogueOK
<1>5. CASE UNCHANGED step
  BY <1>0, <1>5
<1> QED BY <1>1, <1>2, <1>3, <1>4, <1>5, Frame

LEMMA TypeStep ==
  /\ RecipeTypeOK /\ DialogueOK /\ FlowOK /\ DialogueOK' /\ ValuesOK'
  /\ [Next]_vars
  => RecipeTypeOK'
<1> SUFFICES ASSUME RecipeTypeOK, DialogueOK, FlowOK, DialogueOK', ValuesOK', [Next]_vars
             PROVE  RecipeTypeOK'
  OBVIOUS
<1>1. kind' \in Kinds /\ UNCHANGED kind
  BY Frame DEF RecipeTypeOK
<1>2. out' \in SessionRecord
  <2>1. CASE out' \in Made /\ said' \in ExpiresIn \cup {0}
    <3>1. Life(said') \in Int
      BY <2>1, LifeAhead, RecipeAssumption
    <3>2. {0, sent} \subseteq Value /\ held.refresh \in Value /\ first \in Value
      BY RecipeAssumption DEF RecipeTypeOK, Value, SessionRecord
    <3>3. ThisCall \subseteq Value
      BY <3>2, RecipeAssumption DEF Value, ThisCall
    <3> QED BY <2>1, <3>1, <3>2, <3>3 DEF Made, SessionRecord
  <2>2. CASE out' \in {out, NoSession}
    BY <2>2, NoSessionRecord DEF RecipeTypeOK
  <2> QED BY <2>1, <2>2, OutStep
<1>3. held' \in SessionRecord
  BY Frame DEF RecipeTypeOK
<1>4. phase' \in {"idle", "refresh", "password", "post", "landing", "step", "browse",
                  "returned"}
  BY CapturedEnds
  DEF RecipeTypeOK, Next, OAuth, Form, MultiStep, Browser, Quiescent, OAuthCall, FormCall,
      MultiStepCall, BrowserCall, Call, Send, RefreshGranted, PasswordGranted, Granted,
      RefreshRefused, PasswordRefused, FallBack, FormRedirected, FormAnswered, FormFails,
      StepAnswered, StepFails, TaskDone, BrowserCaptures, BrowserTimesOut, Fails, Returns,
      Return, vars, dialogue
<1>5. step' \in 0..(IF kind' = "browser" THEN Tasks ELSE Len(Steps))
  BY <1>1, StepRange
<1>6. {sent', first', told', loggedIn', jar'} \subseteq Value
  <2>1. sent' \in Nat /\ first' \in Nat
    BY Frame, Ranges
  <2>2. sent' <= MaxRequests + Len(Steps) /\ first' <= sent'
    BY DEF DialogueOK
  <2>3. 0..sent' \subseteq Value
    BY <2>1, <2>2, Ranges DEF Value
  <2>4. {sent', first'} \subseteq 0..sent'
    BY <2>1, <2>2
  <2> QED BY <2>3, <2>4 DEF ValuesOK
<1>7. found' \in [Var -> Value]
  <2>1. \A v \in Var : found'[v] \in Value
    <3>1. 0..sent' \subseteq Value
      BY <1>6, Ranges DEF Value
    <3> QED BY <3>1 DEF ValuesOK
  <2>2. found' = [v \in Var |-> found'[v]]
    BY Frame DEF RecipeTypeOK, MultiStepCall, NewFlow, NoVars, StepAnswered
  <2> QED BY <2>1, <2>2
<1>8. tried' \in BOOLEAN /\ said' \in ExpiresIn \cup {0}
  BY Frame DEF RecipeTypeOK
<1> QED BY <1>1, <1>2, <1>3, <1>4, <1>5, <1>6, <1>7, <1>8 DEF RecipeTypeOK

-----------------------------------------------------------------------------
(* The safety properties.                                                  *)

\* A call that has ended stays as it is until the store takes the result.
LEMMA EndedStays ==
  ASSUME [Next]_vars, phase = "returned", phase' = "returned"
  PROVE  UNCHANGED vars
BY DEF Next, OAuth, Form, MultiStep, Browser, Quiescent, OAuthCall, FormCall, MultiStepCall,
       BrowserCall, Call, RefreshGranted, PasswordGranted, RefreshRefused, PasswordRefused,
       FormRedirected, FormAnswered, FormFails, StepAnswered, StepFails, TaskDone,
       BrowserCaptures, BrowserTimesOut, Return

LEMMA FlowSafe ==
  ASSUME RecipeTypeOK, DialogueOK, FlowOK, OneFlow, [Next]_vars
  PROVE  OneFlow'
<1> SUFFICES ASSUME phase' = "returned", out' # NoSession
             PROVE  HasMaterial(out') /\ {out'.bearer, out'.cookie, out'.csrf} \subseteq ThisCall'
  BY DEF OneFlow, HasMaterial
<1>1. CASE phase # "returned"
  <2>1. /\ UNCHANGED <<sent, first>> /\ HasMaterial(out') /\ out' \in Made
    BY <1>1, EndMakes DEF vars, dialogue
  <2>2. {out'.bearer, out'.cookie, out'.csrf} \subseteq ThisCall
    BY <2>1, CallEmpty DEF Made
  <2> QED BY <2>1, <2>2 DEF ThisCall
<1>2. CASE phase = "returned"
  BY <1>2, EndedStays DEF OneFlow, HasMaterial, ThisCall, vars, dialogue, history
<1> QED BY <1>1, <1>2

LEMMA ExpirySafe ==
  ASSUME RecipeTypeOK, DialogueOK, FlowOK, ExpiryAhead, [Next]_vars
  PROVE  ExpiryAhead'
<1> SUFFICES ASSUME phase' = "returned", HasMaterial(out')
             PROVE  said' > 0 <=> out'.life > 0
  BY DEF ExpiryAhead, HasMaterial
<1>1. CASE phase # "returned"
  <2>1. out' \in Made /\ said' \in ExpiresIn \cup {0}
    BY <1>1, EndMakes, NoSessionRecord DEF vars, dialogue
  <2>2. out'.life = Life(said') /\ said' \in Int
    BY <2>1, RecipeAssumption DEF Made
  <2> QED BY <2>2, LifeAhead
<1>2. CASE phase = "returned"
  BY <1>2, EndedStays DEF ExpiryAhead, HasMaterial, vars, dialogue, history
<1> QED BY <1>1, <1>2

\* A grant's answer is a session, and its refresh token is the one to use next.
LEMMA GrantCurrent ==
  ASSUME RecipeTypeOK, DialogueOK, GrantsOK, RefreshGranted \/ PasswordGranted
  PROVE  out' # NoSession /\ out'.refresh = told'
<1>0. sent \in Nat \ {0} /\ kind = "oauth"
  BY Ranges DEF RefreshGranted, PasswordGranted, DialogueOK
<1>1. CASE RefreshGranted
  <2>1. PICK a \in TokenAnswer : /\ Granted(a, held)
                                /\ told' = IF a.refresh = 0 THEN told ELSE a.refresh
    BY <1>1 DEF RefreshGranted
  <2>2. held.refresh = told
    BY <1>0, <1>1 DEF RefreshGranted, GrantsOK
  <2> QED BY <1>0, <2>1, <2>2, GrantMakes DEF NoSession
<1>2. CASE PasswordGranted
  <2>1. PICK a \in TokenAnswer : Granted(a, NoSession) /\ told' = a.refresh
    BY <1>2 DEF PasswordGranted
  <2> QED BY <1>0, <2>1, GrantMakes DEF NoSession
<1> QED BY <1>1, <1>2

LEMMA GrantsStep ==
  ASSUME RecipeTypeOK, DialogueOK, FlowOK, GrantsOK, PasswordIsLastResort, [Next]_vars
  PROVE  GrantsOK' /\ PasswordIsLastResort'
<1>0. sent \in Nat /\ first \in Nat /\ (phase # "idle" => first <= sent)
  BY Ranges DEF DialogueOK
<1>1. CASE OAuthCall
  <2>1. phase = "idle" /\ kind = "oauth" /\ UNCHANGED <<kind, held, told>>
    BY <1>1 DEF OAuthCall, Call
  <2>2. held.refresh = told
    BY <2>1 DEF GrantsOK
  <2>3. CASE HoldsGrant
    <3>1. phase' = "refresh" /\ tried'
      BY <1>1, <2>3 DEF OAuthCall, Call, Send
    <3> QED BY <2>1, <2>2, <3>1 DEF GrantsOK, PasswordIsLastResort
  <2>4. CASE ~HoldsGrant
    <3>1. phase' = "password" /\ ~tried'
      BY <1>1, <2>4 DEF OAuthCall, Call, Send
    <3> QED BY <2>1, <2>2, <2>4, <3>1 DEF HoldsGrant, GrantsOK, PasswordIsLastResort
  <2> QED BY <2>3, <2>4
<1>2. CASE RefreshRefused
  BY <1>0, <1>2 DEF RefreshRefused, FallBack, Send, history, GrantsOK, PasswordIsLastResort
<1>3. CASE RefreshGranted \/ PasswordGranted
  <2>1. phase' = "returned"
    BY <1>3 DEF RefreshGranted, PasswordGranted, Granted, Returns
  <2> QED BY <1>3, <2>1, GrantCurrent DEF GrantsOK, PasswordIsLastResort
<1>4. CASE PasswordRefused
  BY <1>4 DEF PasswordRefused, Fails, Returns, history, GrantsOK, PasswordIsLastResort, DialogueOK
<1>5. CASE Return
  BY <1>5 DEF Return, history, GrantsOK, PasswordIsLastResort
<1>6. CASE UNCHANGED vars
  BY <1>6 DEF vars, dialogue, history, GrantsOK, PasswordIsLastResort
<1>7. CASE \/ FormCall \/ MultiStepCall \/ BrowserCall \/ FormRedirected \/ FormAnswered
           \/ FormFails \/ StepAnswered \/ StepFails \/ TaskDone \/ BrowserCaptures
           \/ BrowserTimesOut
  <2>1. kind # "oauth" /\ UNCHANGED kind
    BY <1>7, Frame
    DEF FormCall, MultiStepCall, BrowserCall, FormRedirected, FormAnswered, FormFails,
        StepAnswered, StepFails, TaskDone, BrowserCaptures, BrowserTimesOut, DialogueOK
  <2>2. phase' \notin {"refresh", "password"}
    BY <1>7, CapturedEnds
    DEF FormCall, MultiStepCall, BrowserCall, Call, Send, FormRedirected, FormAnswered,
        FormFails, StepAnswered, StepFails, TaskDone, BrowserCaptures, BrowserTimesOut,
        Fails, Returns
  <2> QED BY <2>1, <2>2 DEF GrantsOK, PasswordIsLastResort
<1> QED
  BY <1>1, <1>2, <1>3, <1>4, <1>5, <1>6, <1>7
  DEF Next, OAuth, Form, MultiStep, Browser, Quiescent

LEMMA RecipeInvStep == RecipeInv /\ [Next]_vars => RecipeInv'
<1> SUFFICES ASSUME RecipeInv, [Next]_vars PROVE RecipeInv'
  OBVIOUS
<1> USE DEF RecipeInv
<1>1. DialogueOK' /\ FlowOK'
  BY DialogueStep, FlowStep
<1>2. ValuesOK'
  BY ValuesStep
<1>3. RecipeTypeOK'
  BY <1>1, <1>2, TypeStep
<1>4. OneFlow' /\ ExpiryAhead'
  BY FlowSafe, ExpirySafe
<1>5. GrantsOK' /\ PasswordIsLastResort'
  BY GrantsStep
<1>6. RefreshTokenCurrent'
  BY <1>5 DEF GrantsOK, RefreshTokenCurrent
<1> QED BY <1>1, <1>2, <1>3, <1>4, <1>5, <1>6

\* A recipe call is always somewhere in its own dialogue, sends no more requests
\* than that has, and keeps only what answers handed out (internal/recipe).
THEOREM RecipeSafe == RecipeSpec => []RecipeInv
<1> QED BY RecipeInit, RecipeInvStep, PTL DEF RecipeSpec

\* What a login returns came from its own answers, never from what an earlier flow
\* left in a jar or a variable (multistep.go, Establish: one jar per call).
THEOREM OneFlowOnly == RecipeSpec => []OneFlow
<1>1. RecipeInv => OneFlow
  BY DEF RecipeInv
<1> QED BY <1>1, RecipeSafe, PTL

\* The refresh token kept is the one the target last said to use (oauth.go, Refresh
\* carrying it forward), whatever sequence of grants and refusals came before.
THEOREM RefreshTokenSafe == RecipeSpec => []RefreshTokenCurrent
<1>1. RecipeInv => RefreshTokenCurrent
  BY DEF RecipeInv
<1> QED BY <1>1, RecipeSafe, PTL

\* The password is sent only without a refresh token or after a failed refresh
\* grant, and a renewal fails only after it was tried (oauth.go, Refresh).
THEOREM PasswordLast == RecipeSpec => []PasswordIsLastResort
<1>1. RecipeInv => PasswordIsLastResort
  BY DEF RecipeInv
<1> QED BY <1>1, RecipeSafe, PTL

\* No expires_in, however large, overflows into an expiry in the past or into
\* "unknown" (recipe.go, expiresAt): the clamp works for every size of a Duration
\* that can hold a second.
THEOREM ExpiryNeverWraps == RecipeSpec => []ExpiryAhead
<1>1. RecipeInv => ExpiryAhead
  BY DEF RecipeInv
<1> QED BY <1>1, RecipeSafe, PTL
=============================================================================

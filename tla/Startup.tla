------------------------------ MODULE Startup ------------------------------
(***************************************************************************)
(* From the command line to the first use of a credential: how a daemon, a *)
(* command that logs in on its own and a replay read the configuration     *)
(* (internal/config), apply the TLS flags (cmd/tls.go), build a recipe and *)
(* an HTTP client per identity (internal/httpx), and warn.                 *)
(*                                                                         *)
(* Replay reads the file twice: once for its own client and the warnings,  *)
(* and again for the store it logs in with.  The file may be edited in     *)
(* between.                                                                *)
(*                                                                         *)
(* A URL is its kind: absent, https, http, malformed, or with a template in*)
(* it (tmpl, and http-tmpl behind a literal scheme).  A TLS policy is      *)
(* [insecure, ca, cert, key], a file named in it is "", good or bad.       *)
(***************************************************************************)
EXTENDS Integers, Sequences, FiniteSets

CONSTANTS Blank, AnonName,  \* the names Recipes refuses
          Files,            \* contents the configuration file may have
          FlagSets,         \* TLS flags: functions on the fields that were given
          MaxEdits          \* bound: edits while a command runs

\* What the YAML decoder makes of a file (config.go:25-30 and 86-125).
PolicyFile == {"", "good", "bad"}
Policy   == [insecure : BOOLEAN, ca : PolicyFile, cert : PolicyFile, key : PolicyFile]
Url      == {"", "https", "http", "bad", "tmpl", "http-tmpl"}
Secret   == [inline : STRING, file : STRING, command : STRING]
Identity == [name : STRING, type : STRING, login : Url, token : Url, steps : Seq(Url),
             tls : {{}} \cup {{p} : p \in Policy}, secret : Secret, csrf : STRING]
Config   == [target : {"good", "bad"}, tls : Policy, ids : Seq(Identity)]

ASSUME StartupAssumption ==
  /\ Blank # AnonName /\ MaxEdits \in Nat
  /\ Files \subseteq Config
  /\ \A f \in FlagSets :
       /\ DOMAIN f \subseteq {"insecure", "ca", "cert", "key"}
       /\ \A x \in DOMAIN f : f[x] \in IF x = "insecure" THEN BOOLEAN ELSE PolicyFile

VARIABLES file,     \* the configuration file
          edits,    \* times it was edited
          proc      \* the command

vars == <<file, edits, proc>>

-----------------------------------------------------------------------------
(* TLS.                                                                    *)

\* httpx.Transport: the CA file holds certificates, and a client certificate
\* comes with its key.
Buildable(p) ==
  /\ p.ca # "bad"
  /\ (p.cert = "" /\ p.key = "") \/ (p.cert = "good" /\ p.key = "good")

\* A flag replaces its field of the global policy only.
ApplyTLSFlags(c, flags) ==
  [c EXCEPT !.tls = [x \in DOMAIN @ |-> IF x \in DOMAIN flags THEN flags[x] ELSE c.tls[x]]]

\* An identity's own block replaces the global one as a whole.
Effective(c, id) == IF id.tls = {} THEN c.tls ELSE CHOOSE p \in id.tls : TRUE

-----------------------------------------------------------------------------
(* Loading.                                                                *)

\* The password, or "error": an unset variable, a missing file, a failing command.
Password(s) ==
  IF s.inline # "" THEN s.inline
  ELSE IF s.file # "" THEN s.file ELSE s.command

Identities(c) == {c.ids[k] : k \in DOMAIN c.ids}

Load(c) ==
  /\ c.target = "good"
  /\ \A id \in Identities(c) : Password(id.secret) # "error"

-----------------------------------------------------------------------------
(* Recipes.                                                                *)

ValidEndpoint(url) == url \in {"https", "http"}

\* Steps whose URL has a template in it are known only at run time.
ValidSteps(steps) ==
  /\ steps # <<>>
  /\ \A k \in DOMAIN steps : steps[k] \in {"tmpl", "http-tmpl"} \/ ValidEndpoint(steps[k])

Complete(id) ==
  CASE id.type \in {"form", "browser"} -> ValidEndpoint(id.login)
    [] id.type = "oauth"               -> ValidEndpoint(id.token)
    [] id.type = "multistep"           -> ValidSteps(id.steps)
    [] OTHER                           -> FALSE

NotReserved(c) == \A k \in DOMAIN c.ids : c.ids[k].name \notin {Blank, AnonName}

\* No blank name, not the baseline's, none twice.
Named(c) ==
  /\ NotReserved(c)
  /\ \A j, k \in DOMAIN c.ids : c.ids[j].name = c.ids[k].name => j = k

RecipesFail(c) ==
  ~ /\ Named(c)
    /\ \A id \in Identities(c) : Buildable(Effective(c, id)) /\ Complete(id)

\* A map from names: of two identities with one name the last would be left.
Recipes(c) ==
  [n \in {id.name : id \in Identities(c)} |->
     LET last == CHOOSE k \in DOMAIN c.ids :
                   /\ c.ids[k].name = n
                   /\ \A j \in DOMAIN c.ids : c.ids[j].name = n => j <= k
         id   == c.ids[last]
     IN  [type |-> id.type, tls |-> Effective(c, id), password |-> Password(id.secret)]]

-----------------------------------------------------------------------------
(* Warnings.                                                               *)

WarnGlobalOnly(c) == IF c.tls.insecure THEN {<<"insecure", "global">>} ELSE {}

WarnIfInsecure(c) ==
  (IF c.tls.insecure THEN {<<"insecure", "global">>} ELSE {})
    \cup {<<"insecure", id.name>> : id \in
            {id \in Identities(c) : \E p \in id.tls : p.insecure}}

WarnLoginOnly(c) ==
  {<<"plaintext", id.name>> : id \in
     {id \in Identities(c) : "http" \in {id.login, id.token}}}

WarnIfPlaintextAuth(c) ==
  {<<"plaintext", id.name>> : id \in
     {id \in Identities(c) :
        \/ "http" \in {id.login, id.token}
        \/ \E k \in DOMAIN id.steps : id.steps[k] \in {"http", "http-tmpl"}}}

Warnings(c) == WarnIfInsecure(c) \cup WarnIfPlaintextAuth(c)

-----------------------------------------------------------------------------
(* The command.                                                            *)

NoConfig == [target |-> "", tls |-> [insecure |-> FALSE, ca |-> "", cert |-> "", key |-> ""],
             ids |-> <<>>]

\* cfg is what was read, traffic the policy of the client that carries replayed
\* or proxied requests, store the recipes registered; serving says that a port is
\* bound or a session is asked for.
Started(cmd, flags) ==
  [cmd |-> cmd, flags |-> flags, stage |-> "start", cfg |-> NoConfig, read |-> NoConfig,
   warned |-> {}, store |-> <<>>, traffic |-> {}, serving |-> FALSE]

Commands == {"daemon", "alone", "replay", "replay-attached"}

Init ==
  /\ file \in Files
  /\ edits = 0
  /\ \E cmd \in Commands, flags \in FlagSets : proc = Started(cmd, flags)

Stage(s) == proc.stage = s

Fail == proc' = [proc EXCEPT !.stage = "failed"]

\* buildStore: the flags land before the recipes' clients are built.
Stored(next, c, recipes) ==
  IF ~Load(file) \/ RecipesFail(c)
    THEN Fail
    ELSE proc' = [proc EXCEPT !.stage = next, !.store = recipes, !.read = file,
                              !.cfg = IF proc.cmd \in {"daemon", "alone"} THEN c ELSE @]

FlagsLate(next) == Stored(next, ApplyTLSFlags(file, proc.flags), Recipes(file))

BuildStore(next) ==
  LET c == ApplyTLSFlags(file, proc.flags) IN Stored(next, c, Recipes(c))

Build ==
  /\ Stage("start") /\ proc.cmd \in {"daemon", "alone"}
  /\ BuildStore("built")
  /\ UNCHANGED <<file, edits>>

Warn ==
  /\ Stage("built")
  /\ proc' = [proc EXCEPT !.warned = Warnings(proc.cfg),
                          !.stage = IF proc.cmd = "daemon" THEN "policies" ELSE "ready"]
  /\ UNCHANGED <<file, edits>>

PoliciesUnchecked(c) == TRUE

\* Every csrf block has its three fields and a pattern that compiles.
BuildCSRFPolicies(c) == \A id \in Identities(c) : id.csrf \in {"none", "good"}

\* The daemon's gateway, with the global policy.
BuildGateway ==
  /\ Stage("policies")
  /\ IF BuildCSRFPolicies(proc.cfg) /\ Buildable(proc.cfg.tls)
       THEN proc' = [proc EXCEPT !.stage = "ready", !.traffic = {proc.cfg.tls}]
       ELSE Fail
  /\ UNCHANGED <<file, edits>>

\* replay loads for itself and warns.
ReplayLoads ==
  LET c == ApplyTLSFlags(file, proc.flags) IN
  /\ Stage("start") /\ proc.cmd \in {"replay", "replay-attached"}
  /\ IF Load(file)
       THEN proc' = [proc EXCEPT !.cfg = c, !.read = file, !.warned = Warnings(c),
                                 !.stage = IF proc.cmd = "replay" THEN "reload" ELSE "client"]
       ELSE Fail
  /\ UNCHANGED <<file, edits>>

\* replaySource without a daemon: the file is read again.
ReplayBuilds ==
  /\ Stage("reload")
  /\ BuildStore("client")
  /\ UNCHANGED <<file, edits>>

ReplayClient ==
  /\ Stage("client")
  /\ IF Buildable(proc.cfg.tls)
       THEN proc' = [proc EXCEPT !.stage = "ready", !.traffic = {proc.cfg.tls}]
       ELSE Fail
  /\ UNCHANGED <<file, edits>>

\* The first port is bound, or the first session asked for.
Use ==
  /\ Stage("ready")
  /\ proc' = [proc EXCEPT !.stage = "serving", !.serving = TRUE]
  /\ UNCHANGED <<file, edits>>

\* The operator saves the file while a command runs.
Edit ==
  /\ edits < MaxEdits
  /\ proc.stage \in {"start", "reload"}
  /\ file' \in Files \ {file}
  /\ edits' = edits + 1
  /\ UNCHANGED proc

Ended == proc.stage \in {"failed", "serving"} /\ UNCHANGED vars

Next ==
  Build \/ Warn \/ BuildGateway \/ ReplayLoads \/ ReplayBuilds \/ ReplayClient \/ Use
    \/ Edit \/ Ended

Spec == Init /\ [][Next]_vars

-----------------------------------------------------------------------------
(* Properties.                                                             *)

OwnStore == proc.serving /\ proc.cmd # "replay-attached"

Read == proc.read

\* The identity a name stands for in the file that was read last.
Meant(n) == CHOOSE id \in Identities(Read) : id.name = n

\* Every identity of the file has a recipe of its own (config.go:161-172): none is
\* lost to another of the same name, and none is the "anon" that replay sends
\* without a session.
RegisteredExactly ==
  OwnStore =>
    /\ Cardinality(DOMAIN proc.store) = Len(Read.ids)
    /\ DOMAIN proc.store \cap {Blank, AnonName} = {}

\* "The overrides must land before Recipes() builds the per-identity HTTP clients,
\* so a flag reaches the recipes" (daemon.go:106-107): an identity without a block of
\* its own logs in under the policy its requests are sent with, unless replay's second
\* reading of the file found another; one with a block keeps it (tls.go:52-54).
FlagsReachRecipes ==
  OwnStore =>
    \A n \in DOMAIN proc.store :
      /\ Meant(n).tls # {} => proc.store[n].tls \in Meant(n).tls
      /\ Meant(n).tls = {} =>
           /\ \A f \in DOMAIN proc.flags : proc.store[n].tls[f] = proc.flags[f]
           /\ edits = 0 => proc.traffic \subseteq {proc.store[n].tls}

\* A client that skips verification is never silent (tls.go:70-73): each one in
\* use, of a recipe or for traffic, was announced before, unless replay's second
\* reading of the file found something else than its first.
InsecureAnnounced ==
  proc.serving /\ (edits = 0 \/ proc.cmd # "replay") =>
    /\ \A p \in proc.traffic : p.insecure => <<"insecure", "global">> \in proc.warned
    /\ \A n \in DOMAIN proc.store :
         proc.store[n].tls.insecure
           => <<"insecure", IF Meant(n).tls = {} THEN "global" ELSE n>> \in proc.warned

\* Where an identity of each type sends its password.
Endpoints(id) ==
  CASE id.type = "oauth"     -> {id.token}
    [] id.type = "multistep" -> {id.steps[k] : k \in DOMAIN id.steps}
    [] OTHER                 -> {id.login}

\* Credentials are never sent in cleartext without a word (tls.go:85-90): the
\* owner of every endpoint in use with a literal http:// was named before.
PlaintextAnnounced ==
  OwnStore /\ (edits = 0 \/ proc.cmd # "replay") =>
    \A n \in DOMAIN proc.store :
      Endpoints(Meant(n)) \cap {"http", "http-tmpl"} # {}
        => <<"plaintext", n>> \in proc.warned

\* "A missing-scheme typo fails at load rather than on the first login"
\* (config.go:148-150), and so does everything else that can be checked: once a
\* port is bound or a session asked for, no endpoint, policy, secret or csrf
\* block of any identity is one that could not have worked.
RunsOnlyValid ==
  OwnStore =>
    \A id \in Identities(Read) :
      /\ Endpoints(id) # {} /\ Endpoints(id) \cap {"", "bad"} = {}
      /\ Password(id.secret) # "error"
      /\ \A p \in id.tls : p.ca # "bad" /\ p.cert = p.key /\ p.key # "bad"
      /\ proc.cmd = "daemon" => id.csrf \notin {"incomplete", "pattern"}
-----------------------------------------------------------------------------
(* The inductive invariant behind the safety properties.                   *)

Stages == {"start", "built", "policies", "reload", "client", "ready", "serving", "failed"}

\* A command is a record of its parts, at a stage of its own path.
CommandOK ==
  /\ file \in Files /\ edits \in Nat
  /\ proc = [cmd |-> proc.cmd, flags |-> proc.flags, stage |-> proc.stage, cfg |-> proc.cfg,
             read |-> proc.read, warned |-> proc.warned, store |-> proc.store,
             traffic |-> proc.traffic, serving |-> proc.serving]
  /\ proc.cmd \in Commands /\ proc.flags \in FlagSets /\ proc.stage \in Stages
  /\ Stage("built") => proc.cmd \in {"daemon", "alone"}
  /\ Stage("policies") => proc.cmd = "daemon"
  /\ Stage("reload") => proc.cmd = "replay"
  /\ Stage("client") => proc.cmd \in {"replay", "replay-attached"}
  /\ proc.serving => Stage("serving")

\* What was registered is what the file that was read says, checked as a whole.
StoreOK ==
  LET c == ApplyTLSFlags(proc.read, proc.flags) IN
  /\ proc.stage \in {"built", "policies", "client", "ready", "serving"}
       /\ proc.cmd # "replay-attached"
       => /\ proc.read \in Files
          /\ Load(proc.read) /\ ~RecipesFail(c)
          /\ proc.store = Recipes(c)
          /\ edits = 0 \/ proc.cmd # "replay" => proc.cfg = c
  /\ Stage("reload") /\ edits = 0 => proc.cfg = c /\ proc.read = file
  /\ proc.cmd = "replay-attached" => proc.store = <<>>

\* What was announced, and what carries traffic, is of the configuration in use.
InUseOK ==
  /\ proc.stage \in {"policies", "reload", "client", "ready", "serving"}
       => proc.warned = Warnings(proc.cfg)
  /\ proc.traffic \subseteq {proc.cfg.tls}
  /\ proc.stage \in {"start", "built", "policies", "reload", "client"} => proc.traffic = {}
  /\ proc.cmd = "daemon" /\ proc.stage \in {"ready", "serving"} => BuildCSRFPolicies(proc.cfg)

StartupInv == CommandOK /\ StoreOK /\ InUseOK
=============================================================================

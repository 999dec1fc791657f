---------------------------- MODULE StartupProofs ----------------------------
(***************************************************************************)
(* Proofs about Startup, for every configuration file, every set of TLS    *)
(* flags and any number of edits while a command runs: first what the checks*)
(* of config.Recipes make of one configuration, then the commands.         *)
(***************************************************************************)
EXTENDS Startup, FiniteSetTheorems, TLAPS

-----------------------------------------------------------------------------
(* One configuration.                                                      *)

\* The flags change the global policy and nothing else, field by field.
LEMMA FlagsApplied ==
  ASSUME NEW c \in Config, NEW flags \in FlagSets
  PROVE  LET a == ApplyTLSFlags(c, flags) IN
         /\ a.ids = c.ids /\ a.target = c.target
         /\ \A x \in DOMAIN flags : a.tls[x] = flags[x]
<1> DEFINE o == [x \in DOMAIN c.tls |-> IF x \in DOMAIN flags THEN flags[x] ELSE c.tls[x]]
           a == ApplyTLSFlags(c, flags)
<1>1. a = [c EXCEPT !.tls = o]
  BY DEF ApplyTLSFlags
<1>2. a.ids = c.ids /\ a.target = c.target /\ a.tls = o
  <2> HIDE DEF o, a
  <2> QED BY <1>1 DEF Config
<1>3. DOMAIN c.tls = {"insecure", "ca", "cert", "key"}
  BY DEF Config, Policy
<1>4. \A x \in DOMAIN flags : x \in DOMAIN c.tls
  BY <1>3, StartupAssumption
<1> HIDE DEF a
<1> QED BY <1>2, <1>4 DEF a

\* Names that are never given twice are counted by the identities that have them.
LEMMA DistinctCount ==
  ASSUME NEW n \in Nat, NEW name, DOMAIN name = 1..n,
         \A j, k \in 1..n : name[j] = name[k] => j = k
  PROVE  Cardinality({name[k] : k \in 1..n}) = n
<1> DEFINE T == {name[k] : k \in 1..n}
           g == [k \in 1..n |-> name[k]]
<1>1. g \in Bijection(1..n, T)
  BY DEF Bijection, Injection, Surjection, IsInjective
<1>2. IsFiniteSet(1..n) /\ Cardinality(1..n) = n
  BY FS_Interval
<1>3. ExistsBijection(1..n, T)
  BY <1>1 DEF ExistsBijection
<1> HIDE DEF T
<1>4. Cardinality(T) = n
  BY <1>2, <1>3, FS_Bijection
<1> QED BY <1>4 DEF T

\* The identity a registered name stands for.
Owner(c, n) == CHOOSE id \in Identities(c) : id.name = n

\* A name that passed the checks belongs to one identity, and the recipe under it is
\* the one that identity asks for.
LEMMA OneOfAName ==
  ASSUME NEW c, c.ids \in Seq(Identity), Named(c), NEW k \in DOMAIN c.ids
  PROVE  /\ Owner(c, c.ids[k].name) = c.ids[k]
         /\ c.ids[k].name \in DOMAIN Recipes(c)
         /\ Recipes(c)[c.ids[k].name].tls = Effective(c, c.ids[k])
<1> DEFINE n == c.ids[k].name
<1>1. \A j \in DOMAIN c.ids : c.ids[j].name = n => j = k
  BY DEF Named
<1>2. c.ids[k] \in Identities(c) /\ \A id \in Identities(c) : id.name = n => id = c.ids[k]
  BY <1>1 DEF Identities
<1>3. Owner(c, n) = c.ids[k]
  BY <1>2 DEF Owner
<1>4. n \in DOMAIN Recipes(c)
  BY <1>2 DEF Recipes
<1> DEFINE last == CHOOSE m \in DOMAIN c.ids :
                     /\ c.ids[m].name = n
                     /\ \A j \in DOMAIN c.ids : c.ids[j].name = n => j <= m
<1>5. last = k
  <2>1. k \in Int
    BY DEF Identity
  <2> QED BY <1>1, <2>1
<1>6. Recipes(c)[n].tls = Effective(c, c.ids[last])
  <2> HIDE DEF last, n
  <2> QED BY <1>4 DEF Recipes, last
<1> HIDE DEF last
<1> QED BY <1>3, <1>4, <1>5, <1>6

\* Nobody is lost: a configuration that passed the checks registers as many recipes as
\* it has identities, under names that are not reserved.
LEMMA NobodyLost ==
  ASSUME NEW c, c.ids \in Seq(Identity), Named(c)
  PROVE  /\ Cardinality(DOMAIN Recipes(c)) = Len(c.ids)
         /\ DOMAIN Recipes(c) \cap {Blank, AnonName} = {}
<1> DEFINE n == Len(c.ids)
           name == [k \in 1..n |-> c.ids[k].name]
<1>1. n \in Nat /\ DOMAIN c.ids = 1..n
  OBVIOUS
<1>2. DOMAIN Recipes(c) = {name[k] : k \in 1..n}
  BY <1>1 DEF Recipes, Identities
<1>3. \A j, k \in 1..n : name[j] = name[k] => j = k
  BY <1>1 DEF Named
<1>4. Cardinality({name[k] : k \in 1..n}) = n
  <2>1. DOMAIN name = 1..n
    OBVIOUS
  <2> HIDE DEF name, n
  <2> QED BY <1>1, <1>3, <2>1, DistinctCount
<1>5. DOMAIN Recipes(c) \cap {Blank, AnonName} = {}
  BY <1>1, <1>2 DEF Named, NotReserved
<1> QED BY <1>2, <1>4, <1>5

\* Every recipe is the one of an identity.
LEMMA RegisteredOwner ==
  ASSUME NEW c, c.ids \in Seq(Identity), Named(c), NEW n \in DOMAIN Recipes(c)
  PROVE  /\ Owner(c, n) \in Identities(c) /\ Owner(c, n).name = n
         /\ Recipes(c)[n].tls = Effective(c, Owner(c, n))
<1>1. PICK k \in DOMAIN c.ids : c.ids[k].name = n
  BY DEF Recipes, Identities
<1>2. Owner(c, n) = c.ids[k] /\ Recipes(c)[n].tls = Effective(c, c.ids[k])
  BY <1>1, OneOfAName
<1> QED BY <1>1, <1>2 DEF Identities

\* An identity's own policy, when it has one, is the one it logs in under.
LEMMA OwnPolicy ==
  ASSUME NEW c, NEW id \in Identity
  PROVE  /\ id.tls = {} => Effective(c, id) = c.tls
         /\ id.tls # {} => id.tls = {Effective(c, id)}
<1>1. id.tls = {} \/ \E p \in Policy : id.tls = {p}
  BY DEF Identity
<1>2. CASE \E p \in Policy : id.tls = {p}
  <2>1. PICK p \in Policy : id.tls = {p}
    BY <1>2
  <2>2. Effective(c, id) = p
    BY <2>1 DEF Effective
  <2> QED BY <2>1, <2>2
<1> QED BY <1>1, <1>2 DEF Effective

\* A client that skips verification is announced, under the name it goes by.
LEMMA InsecureWarned ==
  ASSUME NEW c
  PROVE  /\ c.tls.insecure => <<"insecure", "global">> \in Warnings(c)
         /\ \A id \in Identities(c) :
              id.tls # {} /\ id \in Identity /\ Effective(c, id).insecure
                => <<"insecure", id.name>> \in Warnings(c)
<1>1. c.tls.insecure => <<"insecure", "global">> \in Warnings(c)
  BY DEF Warnings, WarnIfInsecure
<1>2. ASSUME NEW id \in Identities(c), id.tls # {}, id \in Identity, Effective(c, id).insecure
      PROVE  <<"insecure", id.name>> \in Warnings(c)
  <2>1. \E p \in id.tls : p.insecure
    BY <1>2, OwnPolicy
  <2> QED BY <2>1 DEF Warnings, WarnIfInsecure
<1> QED BY <1>1, <1>2

\* A complete identity sends its password to an endpoint that is named when it is not
\* encrypted.
LEMMA PlaintextWarned ==
  ASSUME NEW c, NEW id \in Identities(c), id \in Identity, Complete(id),
         Endpoints(id) \cap {"http", "http-tmpl"} # {}
  PROVE  <<"plaintext", id.name>> \in Warnings(c)
<1>1. \/ "http" \in {id.login, id.token}
      \/ \E k \in DOMAIN id.steps : id.steps[k] \in {"http", "http-tmpl"}
  BY DEF Complete, Endpoints, ValidEndpoint, ValidSteps
<1> QED BY <1>1 DEF Warnings, WarnIfPlaintextAuth

LEMMA CompleteEndpoints ==
  ASSUME NEW id \in Identity, Complete(id)
  PROVE  Endpoints(id) # {} /\ Endpoints(id) \cap {"", "bad"} = {}
<1>1. CASE id.type = "multistep"
  <2>1. id.steps \in Seq(Url) /\ id.steps # <<>>
    BY <1>1 DEF Complete, ValidSteps, Identity
  <2>2. 1 \in DOMAIN id.steps
    BY <2>1
  <2> QED BY <1>1, <2>2 DEF Endpoints, Complete, ValidSteps, ValidEndpoint
<1>2. CASE id.type # "multistep"
  BY <1>2 DEF Endpoints, Complete, ValidEndpoint
<1> QED BY <1>1, <1>2

LEMMA BuildablePolicy ==
  ASSUME NEW c, NEW id \in Identity, Buildable(Effective(c, id))
  PROVE  \A p \in id.tls : p.ca # "bad" /\ p.cert = p.key /\ p.key # "bad"
BY OwnPolicy DEF Buildable

-----------------------------------------------------------------------------
(* The commands.                                                           *)

LEMMA StartupInit == Init => StartupInv
<1> SUFFICES ASSUME Init PROVE StartupInv
  OBVIOUS
<1>1. PICK cmd \in Commands, flags \in FlagSets : proc = Started(cmd, flags)
  BY DEF Init
<1>2. CommandOK
  BY <1>1 DEF Init, CommandOK, Started, Stages, Stage
<1>3. StoreOK /\ InUseOK
  BY <1>1 DEF Started, StoreOK, InUseOK, Stage
<1> QED BY <1>2, <1>3 DEF StartupInv

\* The parts of the command, as a record of them.
LEMMA Parts ==
  ASSUME CommandOK
  PROVE  DOMAIN proc = {"cmd", "flags", "stage", "cfg", "read", "warned", "store", "traffic",
                        "serving"}
BY DEF CommandOK

LEMMA FailStep ==
  ASSUME StartupInv, Fail, UNCHANGED <<file, edits>>, ~Stage("serving")
  PROVE  StartupInv'
<1>1. proc' = [proc EXCEPT !.stage = "failed"]
  BY DEF Fail
<1>2. CommandOK'
  BY <1>1 DEF StartupInv, CommandOK, Stage, Stages
<1>3. StoreOK'
  BY <1>1 DEF StartupInv, CommandOK, StoreOK, Stage, Stages
<1>4. InUseOK'
  BY <1>1 DEF StartupInv, CommandOK, InUseOK
<1> QED BY <1>2, <1>3, <1>4 DEF StartupInv

\* buildStore registers what the file says, or fails.
LEMMA BuildStoreStep ==
  ASSUME StartupInv, NEW next \in {"built", "client"}, BuildStore(next),
         UNCHANGED <<file, edits>>,
         \/ next = "built" /\ Stage("start") /\ proc.cmd \in {"daemon", "alone"}
         \/ next = "client" /\ Stage("reload")
  PROVE  StartupInv'
<1> DEFINE c == ApplyTLSFlags(file, proc.flags)
<1>1. CASE ~Load(file) \/ RecipesFail(c)
  <2>1. Fail
    BY <1>1 DEF BuildStore, Stored
  <2> QED BY <2>1, FailStep DEF Stage
<1>2. CASE ~(~Load(file) \/ RecipesFail(c))
  <2> DEFINE d == IF proc.cmd \in {"daemon", "alone"} THEN c ELSE proc.cfg
             r == Recipes(c)
  <2>1. proc' = [proc EXCEPT !.stage = next, !.store = r, !.read = file, !.cfg = d]
    BY <1>2 DEF BuildStore, Stored
  <2>2. /\ proc'.stage = next /\ proc'.store = r /\ proc'.read = file /\ proc'.cfg = d
        /\ proc'.cmd = proc.cmd /\ proc'.flags = proc.flags /\ proc'.warned = proc.warned
        /\ proc'.traffic = proc.traffic /\ proc'.serving = proc.serving
        /\ DOMAIN proc' = DOMAIN proc
    <3> HIDE DEF c, d, r
    <3> QED BY <2>1, Parts DEF StartupInv
  <2>3. proc' = [cmd |-> proc'.cmd, flags |-> proc'.flags, stage |-> proc'.stage,
                 cfg |-> proc'.cfg, read |-> proc'.read, warned |-> proc'.warned,
                 store |-> proc'.store, traffic |-> proc'.traffic,
                 serving |-> proc'.serving]
    <3> HIDE DEF c, d, r
    <3> QED BY <2>1, Parts DEF StartupInv, CommandOK
  <2> HIDE DEF r
  <2>4. CommandOK'
    BY <2>2, <2>3 DEF StartupInv, CommandOK, Stage, Stages
  <2>5. StoreOK'
    <3>1. proc.cmd = "replay" /\ edits = 0 => proc.cfg = c
      BY DEF StartupInv, CommandOK, StoreOK, Stage
    <3>2. proc.cmd # "replay-attached" /\ proc.cmd \in Commands /\ file \in Files
      BY DEF StartupInv, CommandOK, Stage
    <3>3. edits = 0 \/ proc.cmd # "replay" => d = c
      BY <3>1, <3>2 DEF Commands
    <3> HIDE DEF c, d
    <3> QED BY <1>2, <2>2, <3>2, <3>3 DEF StoreOK, Stage, c, r
  <2>6. InUseOK'
    <3>1. proc.traffic = {} /\ (next = "client" => proc.warned = Warnings(proc.cfg))
      BY DEF StartupInv, InUseOK, Stage
    <3>2. next = "client" => d = proc.cfg
      BY DEF StartupInv, CommandOK, Stage
    <3> HIDE DEF c, d
    <3> QED BY <2>2, <3>1, <3>2 DEF InUseOK
  <2> QED BY <2>4, <2>5, <2>6 DEF StartupInv
<1> QED BY <1>1, <1>2

LEMMA WarnStep ==
  ASSUME StartupInv, Warn
  PROVE  StartupInv'
<1> DEFINE next == IF proc.cmd = "daemon" THEN "policies" ELSE "ready"
<1>1. proc' = [proc EXCEPT !.warned = Warnings(proc.cfg), !.stage = next]
  BY DEF Warn
<1>2. CommandOK'
  BY <1>1 DEF Warn, StartupInv, CommandOK, Stage, Stages
<1>3. /\ proc'.stage = next /\ proc'.warned = Warnings(proc.cfg) /\ proc'.store = proc.store
      /\ proc'.read = proc.read /\ proc'.cfg = proc.cfg /\ proc'.cmd = proc.cmd
      /\ proc'.flags = proc.flags /\ proc'.traffic = proc.traffic
      /\ UNCHANGED <<file, edits>> /\ proc.stage = "built" /\ proc.cmd \in {"daemon", "alone"}
  <2> HIDE DEF next
  <2> QED BY <1>1, Parts DEF StartupInv, CommandOK, Warn, Stage
<1>4. StoreOK' /\ InUseOK'
  BY <1>3 DEF StartupInv, StoreOK, InUseOK, Stage
<1> QED BY <1>2, <1>4 DEF StartupInv

\* The last check before a client carries traffic.
LEMMA TrafficStep ==
  ASSUME StartupInv, proc' = [proc EXCEPT !.stage = "ready", !.traffic = {proc.cfg.tls}],
         UNCHANGED <<file, edits>>,
         \/ Stage("policies") /\ BuildCSRFPolicies(proc.cfg)
         \/ Stage("client")
  PROVE  StartupInv'
<1>1. CommandOK'
  BY DEF StartupInv, CommandOK, Stage, Stages
<1>2. /\ proc'.stage = "ready" /\ proc'.warned = proc.warned /\ proc'.store = proc.store
      /\ proc'.read = proc.read /\ proc'.cfg = proc.cfg /\ proc'.cmd = proc.cmd
      /\ proc'.flags = proc.flags /\ proc'.traffic = {proc.cfg.tls}
  BY Parts DEF StartupInv
<1>3. StoreOK' /\ InUseOK'
  BY <1>2 DEF StartupInv, CommandOK, StoreOK, InUseOK, Stage
<1> QED BY <1>1, <1>3 DEF StartupInv

LEMMA ReplayLoadsStep ==
  ASSUME StartupInv, ReplayLoads
  PROVE  StartupInv'
<1> DEFINE c == ApplyTLSFlags(file, proc.flags)
           w == Warnings(c)
           next == IF proc.cmd = "replay" THEN "reload" ELSE "client"
<1>1. CASE Load(file)
  <2>1. /\ proc' = [proc EXCEPT !.cfg = c, !.read = file, !.warned = w, !.stage = next]
        /\ proc.stage = "start" /\ proc.cmd \in {"replay", "replay-attached"}
        /\ UNCHANGED <<file, edits>>
    BY <1>1 DEF ReplayLoads, Stage
  <2>2. /\ proc'.stage = next /\ proc'.warned = w /\ proc'.store = proc.store
        /\ proc'.read = file /\ proc'.cfg = c /\ proc'.cmd = proc.cmd
        /\ proc'.flags = proc.flags /\ proc'.traffic = proc.traffic
    <3> HIDE DEF c, w, next
    <3> QED BY <2>1, Parts DEF StartupInv
  <2>3. CommandOK'
    <3> HIDE DEF c, w
    <3> QED BY <2>1 DEF StartupInv, CommandOK, Stage, Stages
  <2>4. StoreOK' /\ InUseOK'
    <3>1. proc.traffic = {} /\ (proc.cmd = "replay-attached" => proc.store = <<>>)
      BY <2>1 DEF StartupInv, StoreOK, InUseOK
    <3> QED BY <2>1, <2>2, <3>1 DEF StoreOK, InUseOK, Stage
  <2> QED BY <2>3, <2>4 DEF StartupInv
<1>2. CASE ~Load(file)
  BY <1>2, FailStep DEF ReplayLoads, Stage
<1> QED BY <1>1, <1>2

LEMMA UseStep ==
  ASSUME StartupInv, Use
  PROVE  StartupInv'
<1>1. proc' = [proc EXCEPT !.stage = "serving", !.serving = TRUE] /\ Stage("ready")
      /\ UNCHANGED <<file, edits>>
  BY DEF Use
<1>2. CommandOK'
  BY <1>1 DEF StartupInv, CommandOK, Stage, Stages
<1>3. /\ proc'.stage = "serving" /\ proc'.warned = proc.warned /\ proc'.store = proc.store
      /\ proc'.read = proc.read /\ proc'.cfg = proc.cfg /\ proc'.cmd = proc.cmd
      /\ proc'.flags = proc.flags /\ proc'.traffic = proc.traffic
  BY <1>1, Parts DEF StartupInv
<1>4. StoreOK' /\ InUseOK'
  BY <1>1, <1>3 DEF StartupInv, StoreOK, InUseOK, Stage
<1> QED BY <1>2, <1>4 DEF StartupInv

LEMMA StartupStep == StartupInv /\ [Next]_vars => StartupInv'
<1> SUFFICES ASSUME StartupInv, [Next]_vars PROVE StartupInv'
  OBVIOUS
<1>1. CASE Build
  BY <1>1, BuildStoreStep DEF Build
<1>2. CASE ReplayBuilds
  BY <1>2, BuildStoreStep DEF ReplayBuilds
<1>3. CASE BuildGateway
  BY <1>3, TrafficStep, FailStep DEF BuildGateway, Stage
<1>4. CASE ReplayClient
  BY <1>4, TrafficStep, FailStep DEF ReplayClient, Stage
<1>5. CASE Edit
  BY <1>5 DEF Edit, StartupInv, CommandOK, StoreOK, InUseOK, Stage
<1>6. CASE UNCHANGED vars
  BY <1>6 DEF vars, StartupInv, CommandOK, StoreOK, InUseOK, Stage
<1> QED BY <1>1, <1>2, <1>3, <1>4, <1>5, <1>6, WarnStep, ReplayLoadsStep, UseStep
        DEF Next, Ended

-----------------------------------------------------------------------------
(* The safety properties.                                                  *)

\* The configuration a store in use was built from.
Used == ApplyTLSFlags(Read, proc.flags)

LEMMA InService ==
  ASSUME StartupInv, OwnStore
  PROVE  /\ Used.ids = Read.ids /\ Used.ids \in Seq(Identity) /\ Identities(Used) \subseteq Identity
         /\ Load(Read) /\ Named(Used) /\ proc.store = Recipes(Used)
         /\ \A id \in Identities(Used) : Buildable(Effective(Used, id)) /\ Complete(id)
         /\ edits = 0 \/ proc.cmd # "replay" => proc.cfg = Used /\ proc.warned = Warnings(Used)
         /\ proc.traffic \subseteq {proc.cfg.tls}
         /\ \A n : Meant(n) = Owner(Used, n)
         /\ \A x \in DOMAIN proc.flags : Used.tls[x] = proc.flags[x]
<1>1. proc.stage = "serving" /\ proc.cmd # "replay-attached" /\ proc.flags \in FlagSets
  BY DEF StartupInv, CommandOK, OwnStore, Stage
<1>2. /\ Read \in Files /\ Load(Read) /\ ~RecipesFail(Used) /\ proc.store = Recipes(Used)
      /\ edits = 0 \/ proc.cmd # "replay" => proc.cfg = Used
  BY <1>1 DEF StartupInv, StoreOK, Read, Used
<1>3. Read \in Config
  BY <1>2, StartupAssumption
<1>4. Used.ids = Read.ids /\ \A x \in DOMAIN proc.flags : Used.tls[x] = proc.flags[x]
  BY <1>1, <1>3, FlagsApplied DEF Used
<1>5. Used.ids \in Seq(Identity)
  BY <1>3, <1>4 DEF Config
<1>6. Identities(Used) \subseteq Identity /\ Identities(Read) = Identities(Used)
  BY <1>4, <1>5 DEF Identities
<1>7. \A n : Meant(n) = Owner(Used, n)
  BY <1>6 DEF Meant, Owner
<1>8. proc.warned = Warnings(proc.cfg) /\ proc.traffic \subseteq {proc.cfg.tls}
  BY <1>1 DEF StartupInv, InUseOK
<1> HIDE DEF Used, Read
<1>9. Named(Used) /\ \A id \in Identities(Used) : Buildable(Effective(Used, id)) /\ Complete(id)
  BY <1>2 DEF RecipesFail
<1> QED BY <1>2, <1>4, <1>5, <1>6, <1>7, <1>8, <1>9

LEMMA AllRegistered == StartupInv => RegisteredExactly
<1> SUFFICES ASSUME StartupInv, OwnStore
             PROVE  /\ Cardinality(DOMAIN proc.store) = Len(Read.ids)
                    /\ DOMAIN proc.store \cap {Blank, AnonName} = {}
  BY DEF RegisteredExactly
<1> QED BY InService, NobodyLost

LEMMA FlagsReach == StartupInv => FlagsReachRecipes
<1> SUFFICES ASSUME StartupInv, OwnStore, NEW n \in DOMAIN proc.store
             PROVE  /\ Meant(n).tls # {} => proc.store[n].tls \in Meant(n).tls
                    /\ Meant(n).tls = {} =>
                         /\ \A f \in DOMAIN proc.flags : proc.store[n].tls[f] = proc.flags[f]
                         /\ edits = 0 => proc.traffic \subseteq {proc.store[n].tls}
  BY DEF FlagsReachRecipes
<1>1. Meant(n) \in Identity /\ proc.store[n].tls = Effective(Used, Meant(n))
  BY InService, RegisteredOwner
<1>2. CASE Meant(n).tls # {}
  BY <1>1, <1>2, OwnPolicy
<1>3. CASE Meant(n).tls = {}
  <2>1. proc.store[n].tls = Used.tls
    BY <1>1, <1>3, OwnPolicy
  <2> QED BY <1>3, <2>1, InService
<1> QED BY <1>2, <1>3

LEMMA InsecureTold == StartupInv => InsecureAnnounced
<1> SUFFICES ASSUME StartupInv, proc.serving, edits = 0 \/ proc.cmd # "replay"
             PROVE  /\ \A p \in proc.traffic :
                         p.insecure => <<"insecure", "global">> \in proc.warned
                    /\ \A n \in DOMAIN proc.store :
                         proc.store[n].tls.insecure
                           => <<"insecure", IF Meant(n).tls = {} THEN "global" ELSE n>>
                                \in proc.warned
  BY DEF InsecureAnnounced
<1>1. proc.traffic \subseteq {proc.cfg.tls} /\ proc.warned = Warnings(proc.cfg)
  BY DEF StartupInv, CommandOK, InUseOK, Stage
<1>2. \A p \in proc.traffic : p.insecure => <<"insecure", "global">> \in proc.warned
  BY <1>1, InsecureWarned
<1>3. CASE proc.cmd = "replay-attached"
  BY <1>2, <1>3 DEF StartupInv, StoreOK
<1>4. ASSUME proc.cmd # "replay-attached", NEW n \in DOMAIN proc.store,
             proc.store[n].tls.insecure
      PROVE  <<"insecure", IF Meant(n).tls = {} THEN "global" ELSE n>> \in proc.warned
  <2>1. OwnStore
    BY <1>4 DEF OwnStore
  <2>2. /\ Meant(n) \in Identities(Used) /\ Meant(n) \in Identity /\ Meant(n).name = n
        /\ proc.store[n].tls = Effective(Used, Meant(n)) /\ proc.warned = Warnings(Used)
    BY <2>1, InService, RegisteredOwner
  <2>3. CASE Meant(n).tls = {}
    BY <1>4, <2>2, <2>3, OwnPolicy, InsecureWarned
  <2>4. CASE Meant(n).tls # {}
    BY <1>4, <2>2, <2>4, InsecureWarned
  <2> QED BY <2>3, <2>4
<1> QED BY <1>2, <1>3, <1>4

LEMMA PlaintextTold == StartupInv => PlaintextAnnounced
<1> SUFFICES ASSUME StartupInv, OwnStore, edits = 0 \/ proc.cmd # "replay",
                    NEW n \in DOMAIN proc.store,
                    Endpoints(Meant(n)) \cap {"http", "http-tmpl"} # {}
             PROVE  <<"plaintext", n>> \in proc.warned
  BY DEF PlaintextAnnounced
<1>1. /\ Meant(n) \in Identities(Used) /\ Meant(n) \in Identity /\ Meant(n).name = n
      /\ Complete(Meant(n)) /\ proc.warned = Warnings(Used)
  BY InService, RegisteredOwner
<1> QED BY <1>1, PlaintextWarned

LEMMA ValidOnly == StartupInv => RunsOnlyValid
<1> SUFFICES ASSUME StartupInv, OwnStore, NEW id \in Identities(Read)
             PROVE  /\ Endpoints(id) # {} /\ Endpoints(id) \cap {"", "bad"} = {}
                    /\ Password(id.secret) # "error"
                    /\ \A p \in id.tls : p.ca # "bad" /\ p.cert = p.key /\ p.key # "bad"
                    /\ proc.cmd = "daemon" => id.csrf \notin {"incomplete", "pattern"}
  BY DEF RunsOnlyValid
<1>1. id \in Identities(Used)
  BY InService DEF Identities
<1>2. id \in Identity /\ Complete(id) /\ Buildable(Effective(Used, id))
  BY <1>1, InService
<1>3. Password(id.secret) # "error"
  BY InService DEF Load
<1>4. ASSUME proc.cmd = "daemon" PROVE id.csrf \in {"none", "good"}
  <2>1. BuildCSRFPolicies(proc.cfg) /\ proc.cfg = Used
    BY <1>4, InService DEF StartupInv, CommandOK, InUseOK, OwnStore, Stage
  <2> QED BY <1>1, <2>1 DEF BuildCSRFPolicies
<1> QED BY <1>2, <1>3, <1>4, CompleteEndpoints, BuildablePolicy

\* What a command has read, registered, announced and put to use belongs together at
\* every stage (cmd/store.go, buildStore; cmd/daemon.go; cmd/replay.go).
THEOREM StartupSafe == Spec => []StartupInv
<1> QED BY StartupInit, StartupStep, PTL DEF Spec

\* No identity of the file is lost to another of its name or registered as "anon"
\* (config.go:161-172), in a file of any length.
THEOREM RegisteredSafe == Spec => []RegisteredExactly
<1> QED BY StartupSafe, AllRegistered, PTL

\* A TLS flag reaches every recipe whose identity has no block of its own
\* (daemon.go:106-107, tls.go:52-54), with any set of flags.
THEOREM FlagsSafe == Spec => []FlagsReachRecipes
<1> QED BY StartupSafe, FlagsReach, PTL

\* No client that skips verification is in use without a warning (tls.go:70-73).
THEOREM InsecureSafe == Spec => []InsecureAnnounced
<1> QED BY StartupSafe, InsecureTold, PTL

\* No password goes to a literal http:// endpoint without a warning (tls.go:85-90),
\* whatever the recipe's type and however many steps it has.
THEOREM PlaintextSafe == Spec => []PlaintextAnnounced
<1> QED BY StartupSafe, PlaintextTold, PTL

\* Nothing that could not work is left to be found by the first login
\* (config.go:148-150).
THEOREM ValidSafe == Spec => []RunsOnlyValid
<1> QED BY StartupSafe, ValidOnly, PTL
=============================================================================

---------------------------- MODULE SetupProofs ----------------------------
(***************************************************************************)
(* Proofs about setup, for any machine, options and number of faults.      *)
(***************************************************************************)
EXTENDS Setup, TLAPS

RuntimeIds == {"colima.install", "colima.start", "desktop.start", "orbstack.start",
               "podman.start"}
StepIds == {"hub-login", "gh.install", "gh-login", "same-account", "agent-install",
            "agent-login", "pull", "impersonation"} \union RuntimeIds
Kinds == {"hub_login", "terminal", "captured", "same_account", "pull"}
Steps == [id : StepIds, kind : Kinds, needs : SUBSET StepIds, images : SUBSET Images]

Plans == [steps : Seq(Steps), yours : SUBSET (Todos \union {"ufw.allow"}),
          afterwards : SUBSET (Todos \union {"ufw.allow"})]

SetupTypeOK ==
  /\ machine \in Machine
  /\ opts \in Option
  /\ phase \in {"idle", "planned", "running"}
  /\ agent \in Agents \union {"none"}
  /\ plan \in Plans
  /\ at \in 1..(Len(plan.steps) + 1)
  /\ succeeded \subseteq StepIds
  /\ exit \in {0, 1, 2, 130}
  /\ reached \subseteq {"hub", "gh"}
  /\ faults \in 0..MaxFaults

\* No two steps of a plan have an id.
Distinct(s) == \A i, j \in DOMAIN s : s[i].id = s[j].id => i = j

\* Which steps a run has been through.
RunSoFar ==
  /\ Distinct(plan.steps)
  /\ \A id \in succeeded : \E i \in 1..(at - 1) : plan.steps[i].id = id
  /\ \A s \in ToSet(plan.steps) : 
       Succeeded(s.id) => s.needs \subseteq succeeded /\ Runnable(s)

\* What the steps have made of the machine m the plan was built for.
Progress(m) ==
  /\ Succeeded("hub-login") => machine.hub # "none"
  /\ ~HubPlanned(m) => machine.hub = m.hub
  /\ Succeeded("gh-login") => machine.gh \notin {"missing", "unauthed"}
  /\ ~GhPlanned(m, reached) => machine.gh = m.gh
  /\ Succeeded("same-account") => OneAccount
  /\ Succeeded("agent-login") => agent \in machine.logins
  /\ m.logins \subseteq machine.logins
  /\ Runtime(m) # "none" => Runtime(machine) = Runtime(m)
  /\ m.images \subseteq machine.images
  /\ \A s \in ToSet(plan.steps) :
       (s.id = "pull" /\ Succeeded(s.id)) => \A k \in s.images : ImageHere(machine, k)

PlannedFor(m) ==
  /\ m \in Machine
  /\ plan = BuildPlan(m, reached, agent)
  /\ agent \in AgentsToSetUp(m)
  /\ RunSoFar
  /\ Progress(m)

SetupInv ==
  /\ SetupTypeOK
  /\ phase = "planned" => succeeded = {}
  /\ phase # "idle" => \E m \in Machine : PlannedFor(m)
  /\ plan.afterwards \subseteq {"rosetta.install", "colima.recreate", "podman.slow"}
  /\ "one.account" \in plan.yours => machine.gh \in Accounts /\ "gh.get" \notin plan.yours
  /\ phase = "idle" => /\ \A s \in ToSet(plan.steps) : Succeeded(s.id) => Runnable(s)
                       /\ CleanRunIsReady

-----------------------------------------------------------------------------
(* THE STEPS OF A PLAN *)

Ids(s) == {s[i].id : i \in DOMAIN s}

(* What a concatenation of steps holds. *)
LEMMA ConcatFacts ==
  ASSUME NEW s \in Seq(Steps), NEW t \in Seq(Steps)
  PROVE  /\ s \o t \in Seq(Steps)
         /\ ToSet(s \o t) = ToSet(s) \union ToSet(t)
         /\ Ids(s \o t) = Ids(s) \union Ids(t)
         /\ Distinct(s) /\ Distinct(t) /\ Ids(s) \intersect Ids(t) = {} => Distinct(s \o t)
<1> DEFINE u == s \o t
<1>1. /\ u \in Seq(Steps) /\ Len(u) = Len(s) + Len(t)
      /\ Len(s) \in Nat /\ Len(t) \in Nat
      /\ DOMAIN u = 1..Len(u) /\ DOMAIN s = 1..Len(s) /\ DOMAIN t = 1..Len(t)
      /\ \A i \in 1..Len(s) : u[i] = s[i]
      /\ \A i \in 1..Len(t) : u[Len(s) + i] = t[i]
  OBVIOUS
<1>2. \A i \in DOMAIN u : \/ i \in DOMAIN s /\ u[i] = s[i]
                          \/ i - Len(s) \in DOMAIN t /\ u[i] = t[i - Len(s)] /\ i \notin DOMAIN s
  BY <1>1
<1>3. /\ \A i \in DOMAIN s : i \in DOMAIN u /\ u[i] = s[i]
      /\ \A i \in DOMAIN t : Len(s) + i \in DOMAIN u /\ u[Len(s) + i] = t[i]
  BY <1>1
<1> HIDE DEF u
<1>4. ToSet(u) = ToSet(s) \union ToSet(t)
  <2>1. ToSet(u) \subseteq ToSet(s) \union ToSet(t)
    BY <1>2 DEF ToSet
  <2>2. ToSet(s) \union ToSet(t) \subseteq ToSet(u)
    BY <1>3 DEF ToSet
  <2>3. QED
    BY <2>1, <2>2
<1>5. Ids(u) = Ids(s) \union Ids(t)
  <2>1. Ids(u) \subseteq Ids(s) \union Ids(t)
    BY <1>2 DEF Ids
  <2>2. Ids(s) \union Ids(t) \subseteq Ids(u)
    BY <1>3 DEF Ids
  <2>3. QED
    BY <2>1, <2>2
<1>6. ASSUME Distinct(s), Distinct(t), Ids(s) \intersect Ids(t) = {}
      PROVE  Distinct(u)
  <2> SUFFICES ASSUME NEW i \in DOMAIN u, NEW j \in DOMAIN u, u[i].id = u[j].id
               PROVE  i = j
    BY DEF Distinct
  <2>1. CASE i \in DOMAIN s /\ j \in DOMAIN s
    BY <1>3, <1>6, <2>1 DEF Distinct
  <2>2. CASE i \notin DOMAIN s /\ j \notin DOMAIN s
    <3>1. i - Len(s) = j - Len(s)
      BY <1>2, <1>6, <2>2 DEF Distinct
    <3>2. QED
      BY <1>1, <3>1
  <2>3. CASE ~(i \in DOMAIN s <=> j \in DOMAIN s)
    BY <1>2, <1>6, <2>3 DEF Ids
  <2>4. QED
    BY <2>1, <2>2, <2>3
<1>7. QED
  BY <1>1, <1>4, <1>5, <1>6 DEF u

(* A step that is planned on a condition. *)
LEMMA WhenFacts ==
  ASSUME NEW c, NEW s \in Steps
  PROVE  /\ When(c, <<s>>) \in Seq(Steps)
         /\ ToSet(When(c, <<s>>)) = IF c THEN {s} ELSE {}
         /\ Ids(When(c, <<s>>)) = IF c THEN {s.id} ELSE {}
         /\ Distinct(When(c, <<s>>))
<1>1. CASE c
  <2> DEFINE w == When(c, <<s>>)
  <2>1. w = <<s>> /\ w \in Seq(Steps)
    BY <1>1 DEF When
  <2>2. DOMAIN w = {1} /\ w[1] = s
    BY <2>1
  <2> HIDE DEF w
  <2>3. QED
    BY <1>1, <2>1, <2>2 DEF ToSet, Ids, Distinct, w
<1>2. CASE ~c
  <2>1. When(c, <<s>>) = <<>> /\ DOMAIN <<>> = {}
    BY <1>2 DEF When
  <2>2. QED
    BY <1>2, <2>1 DEF ToSet, Ids, Distinct
<1>3. QED
  BY <1>1, <1>2

LEMMA HubPart ==
  ASSUME NEW m
  PROVE  /\ HubSteps(m) \in Seq(Steps) /\ Distinct(HubSteps(m))
         /\ Ids(HubSteps(m)) = IF HubPlanned(m) THEN {"hub-login"} ELSE {}
         /\ ToSet(HubSteps(m)) = IF HubPlanned(m)
                                 THEN {Step("hub-login", "hub_login", {}, {})} ELSE {}
<1>1. Step("hub-login", "hub_login", {}, {}) \in Steps
  BY DEF Step, Steps, StepIds, Kinds
<1>2. Step("hub-login", "hub_login", {}, {}).id = "hub-login"
  BY DEF Step
<1>3. QED
  BY <1>1, <1>2, WhenFacts DEF HubSteps

GhNeeds(m, r) == IF GhStepped(m, r) THEN {"gh.install"} ELSE {}

LEMMA GhPart ==
  ASSUME NEW m, NEW r
  PROVE  /\ GhSteps(m, r) \in Seq(Steps) /\ Distinct(GhSteps(m, r))
         /\ Ids(GhSteps(m, r)) = (IF GhStepped(m, r) THEN {"gh.install"} ELSE {})
                                   \union (IF GhPlanned(m, r) THEN {"gh-login"} ELSE {})
         /\ ToSet(GhSteps(m, r)) =
              (IF GhStepped(m, r) THEN {Step("gh.install", "captured", {}, {})} ELSE {})
              \union (IF GhPlanned(m, r)
                      THEN {Step("gh-login", "terminal", GhNeeds(m, r), {})} ELSE {})
<1> DEFINE install == Step("gh.install", "captured", {}, {})
           login == Step("gh-login", "terminal", GhNeeds(m, r), {})
           s == When(GhStepped(m, r), <<install>>)
           t == When(GhPlanned(m, r), <<login>>)
<1>1. install \in Steps /\ login \in Steps
  BY DEF Step, Steps, StepIds, Kinds, GhNeeds
<1>2. install.id = "gh.install" /\ login.id = "gh-login"
  BY DEF Step
<1>3. GhSteps(m, r) = s \o t
  BY DEF GhSteps, GhNeeds
<1> HIDE DEF install, login
<1>4. /\ s \in Seq(Steps) /\ ToSet(s) = (IF GhStepped(m, r) THEN {install} ELSE {})
      /\ Ids(s) = (IF GhStepped(m, r) THEN {"gh.install"} ELSE {}) /\ Distinct(s)
  BY <1>1, <1>2, WhenFacts
<1>5. /\ t \in Seq(Steps) /\ ToSet(t) = (IF GhPlanned(m, r) THEN {login} ELSE {})
      /\ Ids(t) = (IF GhPlanned(m, r) THEN {"gh-login"} ELSE {}) /\ Distinct(t)
  BY <1>1, <1>2, WhenFacts
<1> HIDE DEF s, t
<1>6. Ids(s) \intersect Ids(t) = {}
  BY <1>4, <1>5
<1>7. /\ s \o t \in Seq(Steps) /\ Distinct(s \o t)
      /\ ToSet(s \o t) = ToSet(s) \union ToSet(t)
      /\ Ids(s \o t) = Ids(s) \union Ids(t)
  BY <1>4, <1>5, <1>6, ConcatFacts
<1>8. QED
  BY <1>3, <1>4, <1>5, <1>7 DEF install, login

AccountNeeds(m, r) == {s \in {"hub-login"} : HubPlanned(m)}
                        \union {s \in {"gh-login"} : GhPlanned(m, r)}
Compared(m, r) == /\ HubPlanned(m) \/ GhPlanned(m, r)
                  /\ Wanted("gh") /\ (GhState(m, r) = "authed" \/ GhPlanned(m, r))

LEMMA AccountPart ==
  ASSUME NEW m, NEW r
  PROVE  /\ AccountSteps(m, r) \in Seq(Steps) /\ Distinct(AccountSteps(m, r))
         /\ Ids(AccountSteps(m, r)) = IF Compared(m, r) THEN {"same-account"} ELSE {}
         /\ ToSet(AccountSteps(m, r)) =
              IF Compared(m, r)
              THEN {Step("same-account", "same_account", AccountNeeds(m, r), {})} ELSE {}
         /\ ~Compared(m, r) => AccountSteps(m, r) = <<>>
<1> DEFINE step == Step("same-account", "same_account", AccountNeeds(m, r), {})
           s == When(Compared(m, r), <<step>>)
<1>1. step \in Steps /\ step.id = "same-account"
  BY DEF Step, Steps, StepIds, Kinds, AccountNeeds
<1>2. AccountSteps(m, r) = s
  BY DEF AccountSteps, Compared, AccountNeeds
<1> HIDE DEF step
<1>3. ~Compared(m, r) => AccountSteps(m, r) = <<>>
  BY <1>2 DEF When
<1>4. /\ s \in Seq(Steps) /\ Distinct(s)
      /\ Ids(s) = (IF Compared(m, r) THEN {step.id} ELSE {})
      /\ ToSet(s) = (IF Compared(m, r) THEN {step} ELSE {})
  BY <1>1, WhenFacts
<1> HIDE DEF s
<1>5. QED
  BY <1>1, <1>2, <1>3, <1>4 DEF step

FreshAgent(m, a) == a # "none" /\ a \notin m.agents /\ a # "opencode2"
AgentNeeds(m, a) == IF FreshAgent(m, a) THEN {"agent-install"} ELSE {}
AgentToLogIn(m, a) == a # "none" /\ ~AgentReady(m, a)

LEMMA AgentPart ==
  ASSUME NEW m, NEW a
  PROVE  /\ AgentSteps(m, a) \in Seq(Steps) /\ Distinct(AgentSteps(m, a))
         /\ Ids(AgentSteps(m, a)) = (IF FreshAgent(m, a) THEN {"agent-install"} ELSE {})
                                      \union (IF AgentToLogIn(m, a) THEN {"agent-login"} ELSE {})
         /\ ToSet(AgentSteps(m, a)) =
              (IF FreshAgent(m, a) THEN {Step("agent-install", "captured", {}, {})} ELSE {})
              \union (IF AgentToLogIn(m, a)
                      THEN {Step("agent-login", "terminal", AgentNeeds(m, a), {})} ELSE {})
<1> DEFINE install == Step("agent-install", "captured", {}, {})
           login == Step("agent-login", "terminal", AgentNeeds(m, a), {})
           s == When(FreshAgent(m, a), <<install>>)
           t == When(AgentToLogIn(m, a), <<login>>)
<1>1. install \in Steps /\ login \in Steps
  BY DEF Step, Steps, StepIds, Kinds, AgentNeeds
<1>2. install.id = "agent-install" /\ login.id = "agent-login"
  BY DEF Step
<1>3. AgentSteps(m, a) = s \o t
  BY DEF AgentSteps, AgentNeeds, FreshAgent, AgentToLogIn
<1> HIDE DEF install, login
<1>4. /\ s \in Seq(Steps) /\ ToSet(s) = (IF FreshAgent(m, a) THEN {install} ELSE {})
      /\ Ids(s) = (IF FreshAgent(m, a) THEN {"agent-install"} ELSE {}) /\ Distinct(s)
  BY <1>1, <1>2, WhenFacts
<1>5. /\ t \in Seq(Steps) /\ ToSet(t) = (IF AgentToLogIn(m, a) THEN {login} ELSE {})
      /\ Ids(t) = (IF AgentToLogIn(m, a) THEN {"agent-login"} ELSE {}) /\ Distinct(t)
  BY <1>1, <1>2, WhenFacts
<1> HIDE DEF s, t
<1>6. Ids(s) \intersect Ids(t) = {}
  BY <1>4, <1>5
<1>7. /\ s \o t \in Seq(Steps) /\ Distinct(s \o t)
      /\ ToSet(s \o t) = ToSet(s) \union ToSet(t)
      /\ Ids(s \o t) = Ids(s) \union Ids(t)
  BY <1>4, <1>5, <1>6, ConcatFacts
<1>8. QED
  BY <1>3, <1>4, <1>5, <1>7 DEF install, login


(* Lists of one or two recipes. *)
LEMMA OneFacts ==
  ASSUME NEW x
  PROVE  Last(<<x>>) = x /\ Front(<<x>>) = <<>> /\ ToSet(<<x>>) = {x} /\ <<x>> # <<>>
<1>1. DOMAIN <<x>> = {1} /\ <<x>>[1] = x
  OBVIOUS
<1>2. ToSet(<<x>>) = {x}
  BY <1>1 DEF ToSet
<1>3. Last(<<x>>) = x /\ <<x>> # <<>>
  BY DEF Last
<1>4. Front(<<x>>) = <<>>
  BY DEF Front
<1>5. QED
  BY <1>2, <1>3, <1>4

LEMMA TwoFacts ==
  ASSUME NEW x, NEW y
  PROVE  /\ Last(<<x, y>>) = y /\ Front(<<x, y>>) = <<x>> /\ <<x, y>> # <<>>
         /\ <<x>> \o <<y>> = <<x, y>>
<1> DEFINE s == <<x, y>>
<1>1. s \in Seq({x, y}) /\ Len(s) = 2 /\ s[1] = x /\ s[2] = y
  OBVIOUS
<1>2. Front(s) \in Seq({x, y}) /\ Len(Front(s)) = 1 /\ Front(s)[1] = x
  <2> HIDE DEF s
  <2>1. QED
    BY <1>1 DEF Front
<1>3. Last(s) = y /\ s # <<>>
  BY DEF Last
<1>4. <<x>> \o <<y>> = s
  <2> DEFINE t == <<x>> \o <<y>>
  <2>1. <<x>> \in Seq({x, y}) /\ <<y>> \in Seq({x, y})
    OBVIOUS
  <2>2. t \in Seq({x, y}) /\ Len(t) = 2 /\ t[1] = x /\ t[2] = y
    BY <2>1
  <2> HIDE DEF t, s
  <2>3. t = s
    BY <1>1, <2>2
  <2>4. QED
    BY <2>3 DEF t
<1>5. QED
  BY <1>2, <1>3, <1>4

TheirRecipes == {"desktop.open", "podman.init", "runtime.get", "rosetta.install", "docker.group",
                 "docker.start", "podman.fix", "docker.install"}

(* A plan starts no runtime beside one that answers, else has something to do about
   it: start one that is there, install colima, or leave it to the person. *)
LEMMA RecipeForms ==
  ASSUME NEW m
  PROVE  /\ Runtime(m) # "none" => RuntimeRecipes(m) = <<>>
         /\ Runtime(m) = "none" =>
              \/ RuntimeRecipes(m) \in {<<x>> : x \in RuntimeIds \ {"colima.install"}}
              \/ RuntimeRecipes(m) \in {<<x>> : x \in TheirRecipes}
              \/ RuntimeRecipes(m) = <<"colima.install", "colima.start">>
              \/ RuntimeRecipes(m) = <<"colima.install", "rosetta.install">>
<1> DEFINE Ours == {<<x>> : x \in RuntimeIds \ {"colima.install"}}
           Theirs == {<<x>> : x \in TheirRecipes}
<1>1. /\ {<<"colima.start">>, <<"desktop.start">>, <<"orbstack.start">>, <<"podman.start">>}
           \subseteq Ours
      /\ {<<"desktop.open">>, <<"podman.init">>, <<"runtime.get">>, <<"rosetta.install">>,
          <<"docker.group">>, <<"docker.start">>, <<"podman.fix">>, <<"docker.install">>}
           \subseteq Theirs
  BY DEF RuntimeIds, TheirRecipes
<1> HIDE DEF Ours, Theirs
<1>2. NewColimaVm(m) = <<"rosetta.install">> \/ NewColimaVm(m) = <<"colima.start">>
  BY DEF NewColimaVm
<1>3. \/ MacRuntimeRecipes(m) \in Ours \/ MacRuntimeRecipes(m) \in Theirs
      \/ MacRuntimeRecipes(m) = <<"colima.install", "colima.start">>
      \/ MacRuntimeRecipes(m) = <<"colima.install", "rosetta.install">>
  <2> DEFINE p == ActiveProvider(m)
  <2>1. CASE p \in {"colima", "desktop", "orbstack", "podman"}
    <3>1. MacRuntimeRecipes(m) \in
            {<<"colima.start">>, <<"desktop.start">>, <<"desktop.open">>, <<"orbstack.start">>,
             <<"podman.start">>, <<"podman.init">>, <<"rosetta.install">>}
      BY <1>2, <2>1 DEF MacRuntimeRecipes
    <3>2. QED
      BY <1>1, <3>1
  <2>2. CASE p \notin {"colima", "desktop", "orbstack", "podman"}
    <3>1. MacRuntimeRecipes(m) = IF m.brew THEN <<"colima.install">> \o NewColimaVm(m)
                                 ELSE <<"runtime.get">>
      BY <2>2 DEF MacRuntimeRecipes
    <3>2. <<"colima.install">> \o <<"colima.start">> = <<"colima.install", "colima.start">>
      BY TwoFacts
    <3>3. <<"colima.install">> \o <<"rosetta.install">> = <<"colima.install", "rosetta.install">>
      BY TwoFacts
    <3>4. CASE m.brew
      <4>1. MacRuntimeRecipes(m) = <<"colima.install">> \o NewColimaVm(m)
        BY <3>1, <3>4
      <4>2. QED
        BY <1>2, <4>1, <3>2, <3>3
    <3>5. CASE ~m.brew
      BY <1>1, <3>1, <3>5
    <3>6. QED
      BY <3>4, <3>5
  <2>3. QED
    BY <2>1, <2>2
<1>4. LinuxRuntimeRecipes(m) \in Theirs
  <2>1. LinuxRuntimeRecipes(m) \in
          {<<"docker.group">>, <<"docker.start">>, <<"podman.fix">>, <<"docker.install">>}
    BY DEF LinuxRuntimeRecipes
  <2>2. QED
    BY <1>1, <2>1
<1>5. QED
  BY <1>3, <1>4 DEF RuntimeRecipes, Ours, Theirs

MyRecipes(m) ==
  LET recipes == When(Wanted("container_runtime"), RuntimeRecipes(m))
  IN IF recipes # <<>> /\ Last(recipes) \notin ByNethackers THEN Front(recipes) ELSE recipes

LEMMA MyRecipeForms ==
  ASSUME NEW m
  PROVE  /\ \/ MyRecipes(m) = <<>>
            \/ \E x \in RuntimeIds : MyRecipes(m) = <<x>>
            \/ MyRecipes(m) = <<"colima.install", "colima.start">>
         /\ Runtime(m) # "none" => MyRecipes(m) = <<>>
         /\ Runtime(m) = "none" /\ Wanted("container_runtime") /\ RuntimeYours(m) = {} =>
              MyRecipes(m) # <<>>
<1> DEFINE recipes == RuntimeRecipes(m)
<1>1. CASE ~Wanted("container_runtime") \/ Runtime(m) # "none"
  <2>1. MyRecipes(m) = <<>>
    BY <1>1, RecipeForms DEF MyRecipes, When
  <2>2. QED
    BY <1>1, <2>1
<1>2. CASE Wanted("container_runtime") /\ Runtime(m) = "none"
  <2>0. /\ MyRecipes(m) = IF recipes # <<>> /\ Last(recipes) \notin ByNethackers
                          THEN Front(recipes) ELSE recipes
        /\ RuntimeYours(m) = {x \in ToSet(recipes) : x \notin ByNethackers}
    BY <1>2 DEF MyRecipes, When, RuntimeYours
  <2> HIDE DEF recipes
  <2>1. ASSUME NEW x \in RuntimeIds \ {"colima.install"}, recipes = <<x>>
        PROVE  MyRecipes(m) = <<x>>
    BY <2>0, <2>1, OneFacts DEF ByNethackers, RuntimeIds
  <2>2. ASSUME NEW x \in TheirRecipes, recipes = <<x>>
        PROVE  MyRecipes(m) = <<>> /\ RuntimeYours(m) # {}
    <3>1. x \notin ByNethackers
      BY DEF ByNethackers, TheirRecipes
    <3>2. QED
      BY <2>0, <2>2, <3>1, OneFacts
  <2>3. CASE recipes = <<"colima.install", "colima.start">>
    <3>1. MyRecipes(m) = <<"colima.install", "colima.start">>
      BY <2>0, <2>3, TwoFacts DEF ByNethackers
    <3>2. QED
      BY <1>2, <3>1, TwoFacts
  <2>4. CASE recipes = <<"colima.install", "rosetta.install">>
    <3>1. MyRecipes(m) = <<"colima.install">>
      BY <2>0, <2>4, TwoFacts DEF ByNethackers
    <3>2. QED
      BY <1>2, <3>1, OneFacts DEF RuntimeIds
  <2>5. CASE \E x \in RuntimeIds \ {"colima.install"} : recipes = <<x>>
    <3>1. PICK x \in RuntimeIds \ {"colima.install"} : recipes = <<x>>
      BY <2>5
    <3>2. QED
      BY <1>2, <2>1, <3>1, OneFacts
  <2>6. CASE \E x \in TheirRecipes : recipes = <<x>>
    BY <2>2, <2>6
  <2>7. QED
    BY <1>2, <2>3, <2>4, <2>5, <2>6, TwoFacts, RecipeForms DEF recipes
<1>3. QED
  BY <1>1, <1>2

LEMMA FunctionIsSeq ==
  ASSUME NEW S, NEW n \in Nat, NEW f \in [1..n -> S]
  PROVE  f \in Seq(S) /\ Len(f) = n
<1>1. f \in Seq(S)
  OBVIOUS
<1>2. Len(f) = n
  OBVIOUS
<1>3. QED
  BY <1>1, <1>2

(* Plans of one or two steps. *)
LEMMA OneStep ==
  ASSUME NEW x \in Steps, NEW s, DOMAIN s = {1}, s = [i \in {1} |-> s[i]], s[1] = x
  PROVE  /\ s \in Seq(Steps) /\ s # <<>> /\ Last(s) = x
         /\ ToSet(s) = {x} /\ Ids(s) = {x.id} /\ Distinct(s)
<1>1. 1..1 = {1}
  OBVIOUS
<1>2. PICK n \in Nat : n = 1 /\ s \in [1..n -> Steps]
  BY <1>1
<1>3. s \in Seq(Steps) /\ Len(s) = n
  BY <1>2, FunctionIsSeq
<1>4. Last(s) = x
  BY <1>2, <1>3 DEF Last
<1>4a. s # <<>>
  BY <1>2, <1>3
<1>5. QED
  BY <1>3, <1>4, <1>4a DEF ToSet, Ids, Distinct

LEMMA TwoSteps ==
  ASSUME NEW x \in Steps, NEW y \in Steps, x.id # y.id,
         NEW s, DOMAIN s = {1, 2}, s = [i \in {1, 2} |-> s[i]], s[1] = x, s[2] = y
  PROVE  /\ s \in Seq(Steps) /\ s # <<>> /\ Last(s) = y
         /\ ToSet(s) = {x, y} /\ Ids(s) = {x.id, y.id} /\ Distinct(s)
<1>1. 1..2 = {1, 2}
  OBVIOUS
<1>2. PICK n \in Nat : n = 2 /\ s \in [1..n -> Steps]
  BY <1>1
<1>3. s \in Seq(Steps) /\ Len(s) = n
  BY <1>2, FunctionIsSeq
<1>4. Last(s) = y
  BY <1>2, <1>3 DEF Last
<1>4a. s # <<>>
  BY <1>2, <1>3
<1>5. ToSet(s) = {x, y} /\ Ids(s) = {x.id, y.id}
  BY DEF ToSet, Ids
<1>6. Distinct(s)
  BY DEF Distinct
<1>7. QED
  BY <1>3, <1>4, <1>4a, <1>5, <1>6

\* Whoever has the last of some steps, and all that a step needs, has them all.
Chained(s) ==
  \A S : /\ s # <<>> => Last(s).id \in S
         /\ \A x \in ToSet(s) : x.id \in S => x.needs \subseteq S
         => Ids(s) \subseteq S

(* The runtime steps need one another in a chain: who has the last has them all. *)
LEMMA RuntimePart ==
  ASSUME NEW m
  PROVE  /\ RuntimeSteps(m) \in Seq(Steps) /\ Distinct(RuntimeSteps(m))
         /\ Ids(RuntimeSteps(m)) \subseteq RuntimeIds /\ Chained(RuntimeSteps(m))
         /\ \A x \in ToSet(RuntimeSteps(m)) : x.kind = "captured"
         /\ Runtime(m) # "none" => RuntimeSteps(m) = <<>>
         /\ Runtime(m) = "none" /\ Wanted("container_runtime") /\ RuntimeYours(m) = {} =>
              RuntimeSteps(m) # <<>>
         /\ RuntimeSteps(m) # <<>> => Last(RuntimeSteps(m)) \in Steps
<1> DEFINE mine == MyRecipes(m)
           s == RuntimeSteps(m)
           first(x) == [id |-> x, kind |-> "captured", needs |-> {}, images |-> {}]
           second == [id |-> "colima.start", kind |-> "captured", needs |-> {"colima.install"},
                      images |-> {}]
<1>1. s = [i \in DOMAIN mine |-> Step(mine[i], "captured", IF i = 1 THEN {} ELSE {mine[i - 1]}, {})]
  BY DEF RuntimeSteps, MyRecipes
<1>2. (\A x \in RuntimeIds : first(x) \in Steps) /\ second \in Steps
  BY DEF Steps, StepIds, Kinds, RuntimeIds
<1> HIDE DEF s, mine
<1>3. CASE mine = <<>>
  <2>1. s = <<>> /\ DOMAIN s = {}
    BY <1>1, <1>3
  <2>2. s \in Seq(Steps) /\ Distinct(s) /\ ToSet(s) = {} /\ Ids(s) = {}
    BY <2>1 DEF Distinct, Ids, ToSet
  <2>3. QED
    BY <1>3, <2>1, <2>2, MyRecipeForms DEF s, mine, Chained
<1>4. CASE \E x \in RuntimeIds : mine = <<x>>
  <2>1. PICK x \in RuntimeIds : mine = <<x>>
    BY <1>4
  <2>2. DOMAIN mine = {1} /\ mine[1] = x
    BY <2>1
  <2>3. DOMAIN s = {1} /\ s = [i \in {1} |-> s[i]] /\ s[1] = first(x)
    BY <1>1, <2>2 DEF Step
  <2>4. /\ s \in Seq(Steps) /\ s # <<>> /\ Last(s) = first(x)
        /\ ToSet(s) = {first(x)} /\ Ids(s) = {first(x).id} /\ Distinct(s)
    BY <1>2, <2>3, OneStep
  <2>5. Chained(s)
    BY <2>4 DEF Chained
  <2>6. Runtime(m) = "none"
    BY <2>1, MyRecipeForms, OneFacts DEF mine
  <2>7. QED
    BY <1>2, <2>4, <2>5, <2>6 DEF s
<1>5. CASE mine = <<"colima.install", "colima.start">>
  <2> DEFINE install == first("colima.install")
  <2>1. DOMAIN mine = {1, 2} /\ mine[1] = "colima.install" /\ mine[2] = "colima.start"
    BY <1>5
  <2>2. DOMAIN s = {1, 2} /\ s = [i \in {1, 2} |-> s[i]] /\ s[1] = install /\ s[2] = second
    BY <1>1, <2>1 DEF Step
  <2>3. install \in Steps /\ install.id = "colima.install" /\ second.id = "colima.start"
    BY <1>2 DEF RuntimeIds
  <2>4. second.needs = {"colima.install"} /\ install.kind = "captured" /\ second.kind = "captured"
    OBVIOUS
  <2> HIDE DEF install, second
  <2>5. /\ s \in Seq(Steps) /\ s # <<>> /\ Last(s) = second
        /\ ToSet(s) = {install, second} /\ Ids(s) = {install.id, second.id} /\ Distinct(s)
    BY <1>2, <2>2, <2>3, TwoSteps
  <2>6. Chained(s)
    BY <2>3, <2>4, <2>5 DEF Chained
  <2>7. Runtime(m) = "none"
    BY <1>5, MyRecipeForms, TwoFacts DEF mine
  <2>8. QED
    BY <1>2, <2>3, <2>4, <2>5, <2>6, <2>7 DEF s, RuntimeIds
<1>6. QED
  BY <1>3, <1>4, <1>5, MyRecipeForms DEF mine

Pulls(m) == {k \in Images : Wanted(ImageCheck(k)) /\ ~ImageHere(m, k)}
PullNeeds(m) == IF RuntimeSteps(m) = <<>> THEN {} ELSE {Last(RuntimeSteps(m)).id}
PullPlanned(m) == /\ Pulls(m) # {}
                  /\ Runtime(m) # "none" \/ (RuntimeSteps(m) # <<>> /\ RuntimeYours(m) = {})

LEMMA PullPart ==
  ASSUME NEW m
  PROVE  /\ PullSteps(m) \in Seq(Steps) /\ Distinct(PullSteps(m))
         /\ Ids(PullSteps(m)) = IF PullPlanned(m) THEN {"pull"} ELSE {}
         /\ ToSet(PullSteps(m)) =
              IF PullPlanned(m) THEN {Step("pull", "pull", PullNeeds(m), Pulls(m))} ELSE {}
<1> DEFINE step == Step("pull", "pull", PullNeeds(m), Pulls(m))
           s == When(PullPlanned(m), <<step>>)
<1>1. PullNeeds(m) \subseteq StepIds
  BY RuntimePart DEF PullNeeds, Steps
<1>2. step \in Steps /\ step.id = "pull"
  BY <1>1 DEF Step, Steps, StepIds, Kinds, Pulls
<1>3. PullSteps(m) = s
  BY DEF PullSteps, PullPlanned, PullNeeds, Pulls
<1> HIDE DEF step
<1>4. /\ s \in Seq(Steps) /\ Distinct(s)
      /\ Ids(s) = (IF PullPlanned(m) THEN {step.id} ELSE {})
      /\ ToSet(s) = (IF PullPlanned(m) THEN {step} ELSE {})
  BY <1>2, WhenFacts
<1> HIDE DEF s
<1>5. QED
  BY <1>2, <1>3, <1>4 DEF step

LEMMA ImpersonationPart ==
  ASSUME NEW m, NEW a
  PROVE  /\ ImpersonationSteps(m, a) \in Seq(Steps) /\ Distinct(ImpersonationSteps(m, a))
         /\ Ids(ImpersonationSteps(m, a)) \subseteq {"impersonation"}
         /\ ToSet(ImpersonationSteps(m, a)) \subseteq {Step("impersonation", "captured", {}, {})}
<1> DEFINE step == Step("impersonation", "captured", {}, {})
           wanted == a = "codex" /\ ~m.curl
           s == When(wanted, <<step>>)
<1>1. step \in Steps /\ step.id = "impersonation"
  BY DEF Step, Steps, StepIds, Kinds
<1>2. ImpersonationSteps(m, a) = s
  BY DEF ImpersonationSteps
<1> HIDE DEF step, wanted
<1>3. /\ s \in Seq(Steps) /\ Distinct(s)
      /\ Ids(s) = (IF wanted THEN {step.id} ELSE {})
      /\ ToSet(s) = (IF wanted THEN {step} ELSE {})
  BY <1>1, WhenFacts
<1> HIDE DEF s
<1>4. QED
  BY <1>1, <1>2, <1>3 DEF step

\* The agent's steps, of a plan that is to get a machine to evolve.
AgentStepsIfAny(m, a) == When("evolve" \in Scope, AgentSteps(m, a))

\* Some steps with ids of a set, no two with one.
Part(s, ids) == s \in Seq(Steps) /\ Distinct(s) /\ Ids(s) \subseteq ids

LEMMA Joined ==
  ASSUME NEW s, NEW t, NEW A, NEW B, Part(s, A), Part(t, B), A \intersect B = {}
  PROVE  Part(s \o t, A \union B) /\ ToSet(s \o t) = ToSet(s) \union ToSet(t)
<1>1. s \in Seq(Steps) /\ t \in Seq(Steps) /\ Distinct(s) /\ Distinct(t)
  BY DEF Part
<1>2. Ids(s) \subseteq A /\ Ids(t) \subseteq B
  BY DEF Part
<1>3. Ids(s) \intersect Ids(t) = {}
  BY <1>2
<1>4. /\ s \o t \in Seq(Steps) /\ Distinct(s \o t)
      /\ ToSet(s \o t) = ToSet(s) \union ToSet(t)
      /\ Ids(s \o t) = Ids(s) \union Ids(t)
  BY <1>1, <1>3, ConcatFacts
<1>5. QED
  BY <1>2, <1>4 DEF Part

(* A plan is made of the steps of each part, no two with one id. *)
LEMMA PlanParts ==
  ASSUME NEW m, NEW r, NEW a
  PROVE  /\ BuildPlan(m, r, a).steps \in Seq(Steps)
         /\ Distinct(BuildPlan(m, r, a).steps)
         /\ ToSet(BuildPlan(m, r, a).steps) =
              ToSet(HubSteps(m)) \union ToSet(GhSteps(m, r)) \union ToSet(AccountSteps(m, r))
                \union ToSet(AgentStepsIfAny(m, a)) \union ToSet(RuntimeSteps(m))
                \union ToSet(PullSteps(m)) \union ToSet(ImpersonationSteps(m, a))
<1> DEFINE p1 == HubSteps(m)
           p2 == GhSteps(m, r)
           p3 == AccountSteps(m, r)
           p4 == AgentStepsIfAny(m, a)
           p5 == RuntimeSteps(m)
           p6 == PullSteps(m)
           p7 == ImpersonationSteps(m, a)
           q2 == p1 \o p2
           q3 == q2 \o p3
           q4 == q3 \o p4
           q5 == q4 \o p5
           q6 == q5 \o p6
           q7 == q6 \o p7
           ids2 == {"hub-login"} \union {"gh.install", "gh-login"}
           ids3 == ids2 \union {"same-account"}
           ids4 == ids3 \union {"agent-install", "agent-login"}
           ids5 == ids4 \union RuntimeIds
           ids6 == ids5 \union {"pull"}
           ids7 == ids6 \union {"impersonation"}
<1>1. /\ Part(p1, {"hub-login"}) /\ Part(p2, {"gh.install", "gh-login"})
      /\ Part(p3, {"same-account"})
  BY HubPart, GhPart, AccountPart DEF Part
<1>2. Part(p4, {"agent-install", "agent-login"})
  <2>1. <<>> \in Seq(Steps) /\ Distinct(<<>>) /\ Ids(<<>>) = {}
    BY DEF Distinct, Ids
  <2>2. QED
    BY <2>1, AgentPart DEF AgentStepsIfAny, When, Part
<1>3. Part(p5, RuntimeIds) /\ Part(p6, {"pull"}) /\ Part(p7, {"impersonation"})
  BY RuntimePart, PullPart, ImpersonationPart DEF Part
<1>4. BuildPlan(m, r, a).steps = q7
  BY DEF BuildPlan, AgentStepsIfAny
<1>5. /\ {"hub-login"} \intersect {"gh.install", "gh-login"} = {}
      /\ ids2 \intersect {"same-account"} = {}
      /\ ids3 \intersect {"agent-install", "agent-login"} = {}
      /\ ids4 \intersect RuntimeIds = {}
      /\ ids5 \intersect {"pull"} = {}
      /\ ids6 \intersect {"impersonation"} = {}
  BY DEF RuntimeIds
<1> HIDE DEF p1, p2, p3, p4, p5, p6, p7, ids2, ids3, ids4, ids5, ids6, ids7
<1>6. Part(q2, ids2) /\ ToSet(q2) = ToSet(p1) \union ToSet(p2)
  BY <1>1, <1>5, Joined DEF ids2
<1> HIDE DEF q2
<1>7. Part(q3, ids3) /\ ToSet(q3) = ToSet(q2) \union ToSet(p3)
  BY <1>1, <1>5, <1>6, Joined DEF ids3
<1> HIDE DEF q3
<1>8. Part(q4, ids4) /\ ToSet(q4) = ToSet(q3) \union ToSet(p4)
  BY <1>2, <1>5, <1>7, Joined DEF ids4
<1> HIDE DEF q4
<1>9. Part(q5, ids5) /\ ToSet(q5) = ToSet(q4) \union ToSet(p5)
  BY <1>3, <1>5, <1>8, Joined DEF ids5
<1> HIDE DEF q5
<1>10. Part(q6, ids6) /\ ToSet(q6) = ToSet(q5) \union ToSet(p6)
  BY <1>3, <1>5, <1>9, Joined DEF ids6
<1> HIDE DEF q6
<1>11. Part(q7, ids7) /\ ToSet(q7) = ToSet(q6) \union ToSet(p7)
  BY <1>3, <1>5, <1>10, Joined DEF ids7
<1> HIDE DEF q7
<1>12. QED
  BY <1>4, <1>6, <1>7, <1>8, <1>9, <1>10, <1>11 DEF p1, p2, p3, p4, p5, p6, p7, Part

\* The steps of the runtime part need the next ones in turn; the others are these.
LEMMA StepForms ==
  ASSUME NEW m, NEW r, NEW a, NEW s \in ToSet(BuildPlan(m, r, a).steps)
  PROVE  /\ s \in Steps
         /\ s.id = "hub-login" => HubPlanned(m)
         /\ s.id = "gh.install" => GhStepped(m, r)
         /\ s.id = "gh-login" => GhPlanned(m, r) /\ s.needs = GhNeeds(m, r)
         /\ s.id = "same-account" => Compared(m, r) /\ s.needs = AccountNeeds(m, r)
         /\ s.id \in {"agent-install", "agent-login"} => a # "none"
         /\ s.id \in RuntimeIds => Runtime(m) = "none" /\ s \in ToSet(RuntimeSteps(m))
         /\ s.id = "pull" => PullPlanned(m) /\ s.needs = PullNeeds(m) /\ s.images = Pulls(m)
         /\ s.kind = "same_account" <=> s.id = "same-account"
         /\ s.kind = "pull" <=> s.id = "pull"
<1>0. s \in Steps
  BY PlanParts DEF ToSet
<1>1. CASE s \in ToSet(HubSteps(m))
  <2>1. s = Step("hub-login", "hub_login", {}, {}) /\ HubPlanned(m)
    BY <1>1, HubPart
  <2>2. QED
    BY <1>0, <2>1 DEF Step, RuntimeIds
<1>2. CASE s \in ToSet(GhSteps(m, r))
  <2>1. \/ s = Step("gh.install", "captured", {}, {}) /\ GhStepped(m, r)
        \/ s = Step("gh-login", "terminal", GhNeeds(m, r), {}) /\ GhPlanned(m, r)
    BY <1>2, GhPart
  <2>2. QED
    BY <1>0, <2>1 DEF Step, RuntimeIds
<1>3. CASE s \in ToSet(AccountSteps(m, r))
  <2>1. s = Step("same-account", "same_account", AccountNeeds(m, r), {}) /\ Compared(m, r)
    BY <1>3, AccountPart
  <2>2. QED
    BY <1>0, <2>1 DEF Step, RuntimeIds
<1>4. CASE s \in ToSet(AgentStepsIfAny(m, a))
  <2>1. ToSet(<<>>) = {}
    BY DEF ToSet
  <2>2. s \in ToSet(AgentSteps(m, a))
    BY <1>4, <2>1 DEF AgentStepsIfAny, When
  <2>3. \/ s = Step("agent-install", "captured", {}, {}) /\ FreshAgent(m, a)
        \/ s = Step("agent-login", "terminal", AgentNeeds(m, a), {}) /\ AgentToLogIn(m, a)
    BY <2>2, AgentPart
  <2>4. QED
    BY <1>0, <2>3 DEF Step, RuntimeIds, AgentToLogIn, FreshAgent
<1>5. CASE s \in ToSet(RuntimeSteps(m))
  <2>1. s.kind = "captured" /\ s.id \in RuntimeIds
    BY <1>5, RuntimePart DEF ToSet, Ids
  <2>2. Runtime(m) = "none"
    <3>1. ToSet(<<>>) = {}
      BY DEF ToSet
    <3>2. QED
      BY <1>5, <3>1, RuntimePart
  <2>3. QED
    BY <1>0, <1>5, <2>1, <2>2 DEF RuntimeIds
<1>6. CASE s \in ToSet(PullSteps(m))
  <2>1. s = Step("pull", "pull", PullNeeds(m), Pulls(m)) /\ PullPlanned(m)
    BY <1>6, PullPart
  <2>2. QED
    BY <1>0, <2>1 DEF Step, RuntimeIds
<1>7. CASE s \in ToSet(ImpersonationSteps(m, a))
  <2>1. s = Step("impersonation", "captured", {}, {})
    BY <1>7, ImpersonationPart
  <2>2. QED
    BY <1>0, <2>1 DEF Step, RuntimeIds
<1>8. QED
  BY <1>1, <1>2, <1>3, <1>4, <1>5, <1>6, <1>7, PlanParts

\* And what there is to do, the plan has a step for.
LEMMA StepsPlanned ==
  ASSUME NEW m, NEW r, NEW a
  PROVE  LET steps == ToSet(BuildPlan(m, r, a).steps)
         IN /\ HubPlanned(m) => \E s \in steps : s.id = "hub-login"
            /\ GhPlanned(m, r) => \E s \in steps : s.id = "gh-login"
            /\ Compared(m, r) => \E s \in steps : s.id = "same-account"
            /\ "evolve" \in Scope /\ AgentToLogIn(m, a) => \E s \in steps : s.id = "agent-login"
            /\ PullPlanned(m) => \E s \in steps : s.id = "pull" /\ s.images = Pulls(m)
            /\ ToSet(RuntimeSteps(m)) \subseteq steps
<1> DEFINE steps == ToSet(BuildPlan(m, r, a).steps)
<1>1. /\ ToSet(HubSteps(m)) \subseteq steps /\ ToSet(GhSteps(m, r)) \subseteq steps
      /\ ToSet(AccountSteps(m, r)) \subseteq steps /\ ToSet(AgentStepsIfAny(m, a)) \subseteq steps
      /\ ToSet(RuntimeSteps(m)) \subseteq steps /\ ToSet(PullSteps(m)) \subseteq steps
  BY PlanParts
<1> HIDE DEF steps
<1>2. ASSUME HubPlanned(m) PROVE \E s \in steps : s.id = "hub-login"
  <2>1. Step("hub-login", "hub_login", {}, {}) \in steps
    BY <1>1, <1>2, HubPart
  <2>2. QED
    BY <2>1 DEF Step
<1>3. ASSUME GhPlanned(m, r) PROVE \E s \in steps : s.id = "gh-login"
  <2>1. Step("gh-login", "terminal", GhNeeds(m, r), {}) \in steps
    BY <1>1, <1>3, GhPart
  <2>2. QED
    BY <2>1 DEF Step
<1>4. ASSUME Compared(m, r) PROVE \E s \in steps : s.id = "same-account"
  <2>1. Step("same-account", "same_account", AccountNeeds(m, r), {}) \in steps
    BY <1>1, <1>4, AccountPart
  <2>2. QED
    BY <2>1 DEF Step
<1>5. ASSUME "evolve" \in Scope, AgentToLogIn(m, a) PROVE \E s \in steps : s.id = "agent-login"
  <2>1. AgentStepsIfAny(m, a) = AgentSteps(m, a)
    BY <1>5 DEF AgentStepsIfAny, When
  <2>2. Step("agent-login", "terminal", AgentNeeds(m, a), {}) \in steps
    BY <1>1, <1>5, <2>1, AgentPart
  <2>3. QED
    BY <2>2 DEF Step
<1>6. ASSUME PullPlanned(m) PROVE \E s \in steps : s.id = "pull" /\ s.images = Pulls(m)
  <2>1. Step("pull", "pull", PullNeeds(m), Pulls(m)) \in steps
    BY <1>1, <1>6, PullPart
  <2>2. QED
    BY <2>1 DEF Step
<1>7. QED
  BY <1>1, <1>2, <1>3, <1>4, <1>5, <1>6 DEF steps

-----------------------------------------------------------------------------
(* THE EFFECTS OF A STEP *)

\* A machine that agrees on the engines answers to the same runtime.
LEMMA SameRuntime ==
  ASSUME NEW m, NEW n, n.os = m.os, n.installed = m.installed, n.running = m.running,
         n.context = m.context, n.denied = m.denied
  PROVE  Runtime(n) = Runtime(m)
  BY DEF Runtime, DockerAnswers, PodmanAnswers

LEMMA AfterFacts ==
  ASSUME NEW m \in Machine, NEW id \in StepIds, NEW who \in Accounts,
         id \in {"agent-install", "agent-login"} => agent \in Agents
  PROVE  LET n == After(id, who, m)
         IN /\ n \in Machine /\ n.os = m.os
            /\ n.hub = IF id = "hub-login" THEN who ELSE m.hub
            /\ n.gh = IF id = "gh-login" THEN who
                      ELSE IF id = "gh.install" THEN "unauthed" ELSE m.gh
            /\ m.logins \subseteq n.logins
            /\ id = "agent-login" => agent \in n.logins
            /\ n.images = m.images
            /\ id \notin RuntimeIds => Runtime(n) = Runtime(m)
<1> DEFINE n == After(id, who, m)
<1>1. CASE id \in {"hub-login", "gh-login", "gh.install", "impersonation"}
  <2>1. CASE id = "hub-login"
    <3>1. n = [m EXCEPT !.hub = who]
      BY <2>1 DEF After
    <3>2. n \in Machine
      BY <3>1, ZenonT(40) DEF Machine
    <3>3. /\ n.os = m.os /\ n.installed = m.installed /\ n.running = m.running
          /\ n.context = m.context /\ n.denied = m.denied
      BY <3>1 DEF Machine
    <3>4. n.gh = m.gh /\ n.logins = m.logins /\ n.images = m.images /\ n.hub = who
      BY <3>1 DEF Machine
    <3>5. Runtime(n) = Runtime(m)
      BY <3>3, SameRuntime
    <3>6. QED
      BY <2>1, <3>2, <3>3, <3>4, <3>5
  <2>2. CASE id = "gh-login"
    <3>1. n = [m EXCEPT !.gh = who]
      BY <2>2 DEF After
    <3>2. n \in Machine
      BY <3>1, ZenonT(40) DEF Machine
    <3>3. /\ n.os = m.os /\ n.installed = m.installed /\ n.running = m.running
          /\ n.context = m.context /\ n.denied = m.denied
      BY <3>1 DEF Machine
    <3>4. n.hub = m.hub /\ n.logins = m.logins /\ n.images = m.images /\ n.gh = who
      BY <3>1 DEF Machine
    <3>5. Runtime(n) = Runtime(m)
      BY <3>3, SameRuntime
    <3>6. QED
      BY <2>2, <3>2, <3>3, <3>4, <3>5
  <2>3. CASE id = "gh.install"
    <3>1. n = [m EXCEPT !.gh = "unauthed"]
      BY <2>3 DEF After
    <3>2. n \in Machine
      BY <3>1, ZenonT(40) DEF Machine
    <3>3. /\ n.os = m.os /\ n.installed = m.installed /\ n.running = m.running
          /\ n.context = m.context /\ n.denied = m.denied
      BY <3>1 DEF Machine
    <3>4. n.hub = m.hub /\ n.logins = m.logins /\ n.images = m.images /\ n.gh = "unauthed"
      BY <3>1 DEF Machine
    <3>5. Runtime(n) = Runtime(m)
      BY <3>3, SameRuntime
    <3>6. QED
      BY <2>3, <3>2, <3>3, <3>4, <3>5
  <2>4. CASE id = "impersonation"
    <3>1. n = [m EXCEPT !.curl = TRUE]
      BY <2>4 DEF After
    <3>2. n \in Machine
      BY <3>1, ZenonT(40) DEF Machine
    <3>3. /\ n.os = m.os /\ n.installed = m.installed /\ n.running = m.running
          /\ n.context = m.context /\ n.denied = m.denied
      BY <3>1 DEF Machine
    <3>4. n.hub = m.hub /\ n.gh = m.gh /\ n.logins = m.logins /\ n.images = m.images
      BY <3>1 DEF Machine
    <3>5. Runtime(n) = Runtime(m)
      BY <3>3, SameRuntime
    <3>6. QED
      BY <2>4, <3>2, <3>3, <3>4, <3>5
  <2>5. QED
    BY <1>1, <2>1, <2>2, <2>3, <2>4
<1>2. CASE id \in {"agent-install", "agent-login"}
  <2>1. agent \in Agents
    BY <1>2
  <2>2. CASE id = "agent-install"
    <3> DEFINE x == m.agents \union {agent}
    <3>1. n = [m EXCEPT !.agents = x]
      BY <2>2 DEF After
    <3>2. x \in SUBSET Agents /\ m.agents \subseteq x /\ agent \in x
      BY <2>1 DEF Machine
    <3> HIDE DEF x
    <3>3. n \in Machine
      BY <3>1, <3>2, ZenonT(40) DEF Machine
    <3>4. /\ n.os = m.os /\ n.installed = m.installed /\ n.running = m.running
          /\ n.context = m.context /\ n.denied = m.denied
      BY <3>1 DEF Machine
    <3>5. n.hub = m.hub /\ n.gh = m.gh /\ n.logins = m.logins /\ n.images = m.images /\ n.agents = x
      BY <3>1 DEF Machine
    <3>6. Runtime(n) = Runtime(m)
      BY <3>4, SameRuntime
    <3>7. QED
      BY <2>2, <3>2, <3>3, <3>4, <3>5, <3>6
  <2>3. CASE id = "agent-login"
    <3> DEFINE x == m.logins \union {agent}
    <3>1. n = [m EXCEPT !.logins = x]
      BY <2>3 DEF After
    <3>2. x \in SUBSET Agents /\ m.logins \subseteq x /\ agent \in x
      BY <2>1 DEF Machine
    <3> HIDE DEF x
    <3>3. n \in Machine
      BY <3>1, <3>2, ZenonT(40) DEF Machine
    <3>4. /\ n.os = m.os /\ n.installed = m.installed /\ n.running = m.running
          /\ n.context = m.context /\ n.denied = m.denied
      BY <3>1 DEF Machine
    <3>5. n.hub = m.hub /\ n.gh = m.gh /\ n.agents = m.agents /\ n.images = m.images /\ n.logins = x
      BY <3>1 DEF Machine
    <3>6. Runtime(n) = Runtime(m)
      BY <3>4, SameRuntime
    <3>7. QED
      BY <2>3, <3>2, <3>3, <3>4, <3>5, <3>6
  <2>4. QED
    BY <1>2, <2>2, <2>3
<1>3. CASE id \in {"same-account", "pull"}
  <2>1. n = m
    BY <1>3 DEF After
  <2>2. QED
    BY <1>3, <2>1
<1>4. CASE id \in RuntimeIds
  <2> DEFINE Rest(x) == /\ x \in Machine /\ x.os = m.os
                        /\ x.hub = m.hub /\ x.gh = m.gh
                        /\ x.logins = m.logins /\ x.images = m.images
  <2>1. SUFFICES Rest(n)
    BY <1>4 DEF RuntimeIds
  <2>2. "colima" \in Engines /\ "docker" \in Engines /\ "desktop" \in Engines
        /\ "orbstack" \in Engines /\ "podman" \in Engines
    BY DEF Engines
  <2>3. CASE id = "colima.install"
    <3> DEFINE x == m.installed \union {"colima", "docker"}
    <3>1. n = [m EXCEPT !.installed = x]
      BY <2>3 DEF After
    <3>2. x \in SUBSET Engines
      BY <2>2 DEF Machine
    <3> HIDE DEF x
    <3>3. QED
      BY <3>1, <3>2, ZenonT(40) DEF Machine
  <2>4. ASSUME NEW x \in SUBSET Engines PROVE Rest([m EXCEPT !.running = x])
    BY ZenonT(40) DEF Machine
  <2>5. ASSUME NEW e \in Engines PROVE Rest(Starts(m, e))
    <3> DEFINE k == [m EXCEPT !.running = m.running \union {e}]
    <3>1. Starts(m, e) = [k EXCEPT !.context = e]
      BY DEF Machine, Starts
    <3>2. m.running \union {e} \in SUBSET Engines
      BY <2>5 DEF Machine
    <3>3. Rest(k)
      BY <2>4, <3>2
    <3> HIDE DEF k
    <3>4. Rest([k EXCEPT !.context = e])
      BY <3>3, <2>5, ZenonT(40) DEF Machine
    <3>5. QED
      BY <3>1, <3>4
  <2>6. CASE id = "colima.start"
    <3> DEFINE k == Starts(m, "colima")
           q == m.colimaVm /\ m.qemu
    <3>1. n = [k EXCEPT !.colimaVm = TRUE, !.qemu = q]
      BY <2>6 DEF After
    <3>2. Rest(k)
      BY <2>2, <2>5
    <3>3. q \in BOOLEAN
      OBVIOUS
    <3> HIDE DEF k, q
    <3>4. Rest([k EXCEPT !.colimaVm = TRUE, !.qemu = q])
      BY <3>2, <3>3, ZenonT(40) DEF Machine
    <3>5. QED
      BY <3>1, <3>4
  <2>7. CASE id = "desktop.start"
    BY <2>2, <2>5, <2>7 DEF After
  <2>8. CASE id = "orbstack.start"
    BY <2>2, <2>5, <2>8 DEF After
  <2>9. CASE id = "podman.start"
    <3> DEFINE x == m.running \union {"podman"}
    <3>1. n = [m EXCEPT !.running = x]
      BY <2>9 DEF After
    <3>2. x \in SUBSET Engines
      BY <2>2 DEF Machine
    <3>3. Rest([m EXCEPT !.running = x])
      BY <2>4, <3>2
    <3>4. QED
      BY <3>1, <3>3
  <2>10. QED
    BY <1>4, <2>3, <2>6, <2>7, <2>8, <2>9 DEF RuntimeIds
<1>5. QED
  BY <1>1, <1>2, <1>3, <1>4 DEF StepIds, RuntimeIds

LEMMA PersonFacts ==
  ASSUME NEW m \in Machine, NEW todo \in Todos, NEW n \in AfterPerson(todo, m),
         todo = "agent-login" => agent \in Agents,
         todo = "one.account" => m.gh \in Accounts
  PROVE  /\ n \in Machine /\ n.os = m.os
         /\ todo \in {"rosetta.install", "colima.recreate", "podman.slow"} =>
              n.hub = m.hub /\ n.gh = m.gh
         /\ n.gh = m.gh \/ todo = "gh.get" \/ n.gh \in Accounts
<1> DEFINE Rest(x) == x \in Machine /\ x.os = m.os /\ x.hub = m.hub /\ x.gh = m.gh
<1>0. /\ m.installed \subseteq Engines /\ m.running \subseteq Engines
      /\ {"colima", "docker"} \subseteq Engines /\ {"desktop"} \subseteq Engines
      /\ {"docker"} \subseteq Engines /\ {"podman"} \subseteq Engines
      /\ {"dockerd"} \subseteq Engines /\ "default" \in Engines /\ "desktop" \in Engines
  BY DEF Machine, Engines
<1>1. ASSUME NEW x \in SUBSET Engines, NEW y \in SUBSET Engines, NEW d \in BOOLEAN
      PROVE  /\ Rest([m EXCEPT !.installed = x]) /\ Rest([m EXCEPT !.running = x])
             /\ Rest([m EXCEPT !.denied = d])
             /\ Rest([m EXCEPT !.podmanMachine = TRUE, !.running = x])
             /\ Rest([m EXCEPT !.colimaVm = FALSE, !.context = "default", !.running = x,
                               !.images = {}])
             /\ Rest([m EXCEPT !.running = y, !.context = "desktop", !.desktopCli = TRUE,
                               !.installed = x])
  <2>1. Rest([m EXCEPT !.installed = x]) /\ Rest([m EXCEPT !.running = x])
    BY ZenonT(40) DEF Machine
  <2>2. Rest([m EXCEPT !.denied = d])
    BY ZenonT(40) DEF Machine
  <2>3. Rest([m EXCEPT !.podmanMachine = TRUE, !.running = x])
    BY ZenonT(40) DEF Machine
  <2>4. Rest([m EXCEPT !.colimaVm = FALSE, !.context = "default", !.running = x, !.images = {}])
    <3> DEFINE k == [m EXCEPT !.colimaVm = FALSE, !.images = {}]
               c == "default"
    <3>1. c \in Engines
      BY <1>0
    <3>2. Rest(k)
      BY ZenonT(40) DEF Machine
    <3>3. [m EXCEPT !.colimaVm = FALSE, !.context = c, !.running = x, !.images = {}]
            = [k EXCEPT !.context = c, !.running = x]
      BY DEF Machine
    <3> HIDE DEF k, c
    <3>4. Rest([k EXCEPT !.context = c, !.running = x])
      BY <3>1, <3>2, ZenonT(40) DEF Machine
    <3>5. QED
      BY <3>3, <3>4 DEF c
  <2>5. Rest([m EXCEPT !.running = y, !.context = "desktop", !.desktopCli = TRUE,
                       !.installed = x])
    BY <1>0, ZenonT(40) DEF Machine
  <2>6. QED
    BY <2>1, <2>2, <2>3, <2>4, <2>5
<1>2. CASE todo \in {"rosetta.install", "runtime.get"}
  <2>1. n \in {[m EXCEPT !.rosetta = "present"], [m EXCEPT !.brew = TRUE],
               [m EXCEPT !.installed = m.installed \union {"desktop"}]}
    BY <1>2 DEF AfterPerson
  <2>2. Rest([m EXCEPT !.rosetta = "present"]) /\ Rest([m EXCEPT !.brew = TRUE])
    BY ZenonT(40) DEF Machine
  <2>3. m.installed \union {"desktop"} \in SUBSET Engines
    BY <1>0
  <2>4. Rest([m EXCEPT !.installed = m.installed \union {"desktop"}])
    BY <1>1, <2>3
  <2>5. QED
    BY <1>2, <2>1, <2>2, <2>4
<1>3. CASE todo = "desktop.open"
  <2> DEFINE x == m.installed \union {"docker"}
             y == m.running \union {"desktop"}
  <2>1. n = [m EXCEPT !.running = y, !.context = "desktop", !.desktopCli = TRUE, !.installed = x]
    BY <1>3 DEF AfterPerson, Starts, Machine
  <2>2. x \in SUBSET Engines /\ y \in SUBSET Engines
    BY <1>0
  <2> HIDE DEF x, y
  <2>3. Rest(n)
    BY <1>1, <2>1, <2>2
  <2>4. QED
    BY <1>3, <2>3
<1>4. CASE todo \in {"podman.init", "podman.fix", "docker.start"}
  <2> DEFINE x == m.running \union {"podman"}
             y == m.running \union {"dockerd"}
  <2>1. \/ n = [m EXCEPT !.podmanMachine = TRUE, !.running = x]
        \/ n = [m EXCEPT !.running = x] \/ n = [m EXCEPT !.running = y]
    BY <1>4 DEF AfterPerson
  <2>2. x \in SUBSET Engines /\ y \in SUBSET Engines
    BY <1>0
  <2> HIDE DEF x, y
  <2>3. Rest([m EXCEPT !.podmanMachine = TRUE, !.running = x])
    BY <1>1, <2>2
  <2>4. Rest([m EXCEPT !.running = x]) /\ Rest([m EXCEPT !.running = y])
    BY <1>1, <2>2
  <2>5. QED
    BY <1>4, <2>1, <2>3, <2>4
<1>5. CASE todo = "podman.slow"
  <2> DEFINE x == m.installed \union {"colima", "docker"}
  <2>1. n = [m EXCEPT !.installed = x] /\ x \in SUBSET Engines
    BY <1>0, <1>5 DEF AfterPerson
  <2> HIDE DEF x
  <2>2. QED
    BY <1>1, <1>5, <2>1
<1>6. CASE todo = "colima.recreate"
  <2> DEFINE x == m.running \ {"colima"}
  <2>1. /\ n = [m EXCEPT !.colimaVm = FALSE, !.context = "default", !.running = x, !.images = {}]
        /\ x \in SUBSET Engines
    BY <1>0, <1>6 DEF AfterPerson
  <2> HIDE DEF x
  <2>2. QED
    BY <1>1, <1>6, <2>1
<1>7. CASE todo = "docker.install"
  <2> DEFINE x == m.running \union {"dockerd"}
             y == m.installed \union {"docker"}
  <2>1. PICK d \in BOOLEAN : n = [m EXCEPT !.installed = y, !.denied = d, !.running = x]
    BY <1>7 DEF AfterPerson
  <2>2. x \in SUBSET Engines /\ y \in SUBSET Engines
    BY <1>0
  <2> HIDE DEF x, y
  <2>3. Rest([m EXCEPT !.installed = y, !.denied = d, !.running = x])
    BY <2>2, ZenonT(40) DEF Machine
  <2>4. Rest(n)
    BY <2>1, <2>3
  <2>5. QED
    BY <1>7, <2>4
<1>8. CASE todo = "docker.group"
  <2>1. n = [m EXCEPT !.denied = FALSE]
    BY <1>8 DEF AfterPerson
  <2>2. Rest(n)
    BY <1>0, <1>1, <2>1
  <2>3. QED
    BY <1>8, <2>2
<1>9. CASE todo = "gh.get"
  <2>1. n = [m EXCEPT !.gh = "unauthed"]
    BY <1>9 DEF AfterPerson
  <2>2. QED
    BY <1>9, <2>1 DEF Machine
<1>10. CASE todo = "one.account"
  <2>1. n = [m EXCEPT !.hub = m.gh]
    BY <1>10 DEF AfterPerson
  <2>2. QED
    BY <1>10, <2>1 DEF Machine
<1>11. CASE todo \in {"hub-login", "gh-login", "agent-login"}
  <2>1. n = After(todo, "me", m)
    BY <1>11 DEF AfterPerson
  <2>2. todo \in StepIds /\ "me" \in Accounts
    BY <1>11 DEF StepIds, Accounts
  <2>3. n \in Machine /\ n.os = m.os /\ n.gh = IF todo = "gh-login" THEN "me" ELSE m.gh
    BY <1>11, <2>1, <2>2, AfterFacts
  <2>4. QED
    BY <1>11, <2>2, <2>3
<1>12. QED
  BY <1>2, <1>3, <1>4, <1>5, <1>6, <1>7, <1>8, <1>9, <1>10, <1>11 DEF Todos

-----------------------------------------------------------------------------
(* A PLAN THAT WAS CARRIED OUT *)

(* What a plan leaves to the person. *)
LEMMA YoursFacts ==
  ASSUME NEW m, NEW r, NEW a
  PROVE  LET p == BuildPlan(m, r, a)
         IN /\ p.yours \subseteq Todos \union {"ufw.allow"}
            /\ p.afterwards \subseteq {"rosetta.install", "colima.recreate", "podman.slow"}
            /\ "one.account" \in p.yours <=> Mismatched(m, r)
            /\ "gh.get" \in p.yours <=> Wanted("gh") /\ GhState(m, r) = "missing"
                                          /\ ~GhStepped(m, r)
            /\ p.yours \subseteq {"ufw.allow"} => RuntimeYours(m) = {}
<1> DEFINE p == BuildPlan(m, r, a)
           gh == Wanted("gh") /\ GhState(m, r) = "missing" /\ ~GhStepped(m, r)
           ufw == "evolve" \in Scope /\ m.ufw /\ m.os = "linux" /\ Runtime(m) # "podman"
           Blocking == {x \in {"gh.get"} : gh} \union {x \in {"one.account"} : Mismatched(m, r)}
                         \union RuntimeYours(m) \union {x \in {"ufw.allow"} : ufw}
<1>1. /\ p.yours = Blocking
      /\ p.afterwards = (IF Scope \intersect {"eval", "evolve"} # {} THEN Emulation(m) ELSE {})
                        \ Blocking
  BY DEF BuildPlan
<1>2. ToSet(RuntimeRecipes(m)) \subseteq RuntimeIds \union TheirRecipes
  <2>1. CASE Runtime(m) # "none"
    <3>1. ToSet(<<>>) = {}
      BY DEF ToSet
    <3>2. QED
      BY <2>1, <3>1, RecipeForms
  <2>2. ASSUME NEW x, RuntimeRecipes(m) = <<x>>, x \in RuntimeIds \union TheirRecipes
        PROVE  ToSet(RuntimeRecipes(m)) \subseteq RuntimeIds \union TheirRecipes
    BY <2>2, OneFacts
  <2>3. ASSUME NEW x, NEW y, RuntimeRecipes(m) = <<x, y>>,
               x \in RuntimeIds \union TheirRecipes, y \in RuntimeIds \union TheirRecipes
        PROVE  ToSet(RuntimeRecipes(m)) \subseteq RuntimeIds \union TheirRecipes
    BY <2>3 DEF ToSet
  <2>4. CASE RuntimeRecipes(m) \in {<<x>> : x \in RuntimeIds \ {"colima.install"}}
    BY <2>2, <2>4
  <2>5. CASE RuntimeRecipes(m) \in {<<x>> : x \in TheirRecipes}
    BY <2>2, <2>5
  <2>6. CASE RuntimeRecipes(m) = <<"colima.install", "colima.start">>
    BY <2>3, <2>6 DEF RuntimeIds
  <2>7. CASE RuntimeRecipes(m) = <<"colima.install", "rosetta.install">>
    BY <2>3, <2>7 DEF RuntimeIds, TheirRecipes
  <2>8. QED
    BY <2>1, <2>4, <2>5, <2>6, <2>7, RecipeForms
<1>3. RuntimeYours(m) \subseteq TheirRecipes
  BY <1>2 DEF RuntimeYours, ByNethackers, RuntimeIds
<1>4. Emulation(m) \subseteq {"rosetta.install", "colima.recreate", "podman.slow"}
  BY DEF Emulation
<1>5. Blocking \subseteq Todos \union {"ufw.allow"}
  BY <1>3 DEF Todos, TheirRecipes
<1>6. "one.account" \notin TheirRecipes /\ "gh.get" \notin TheirRecipes
      /\ "ufw.allow" \notin TheirRecipes
  BY DEF TheirRecipes
<1> HIDE DEF p, ufw, gh
<1>7. p.yours \subseteq {"ufw.allow"} => RuntimeYours(m) = {}
  BY <1>1, <1>3, <1>6
<1>8. /\ "one.account" \in Blocking <=> Mismatched(m, r)
      /\ "gh.get" \in Blocking <=> gh
  BY <1>3, <1>6
<1>9. p.afterwards \subseteq {"rosetta.install", "colima.recreate", "podman.slow"}
  BY <1>1, <1>4
<1>10. QED
  BY <1>1, <1>5, <1>7, <1>8, <1>9 DEF p, gh

(* What a capability is gated by. *)
LEMMA Gates ==
  ASSUME NEW P
  PROVE  /\ CapabilityReady(P, "eval") <=> {"container_runtime", "arena_image"} \subseteq P
         /\ CapabilityReady(P, "evolve") <=>
              {"container_runtime", "arena_image", "mutator_image", "operator"} \subseteq P
         /\ CapabilityReady(P, "publish") <=> {"hub", "hub_login", "gh"} \subseteq P
         /\ CapabilityReady(P, "browse") <=> {"hub"} \subseteq P
<1> DEFINE Tagged(cap) == {c \in CheckIds : cap \in CapabilitiesOf(c)}
<1>1. Tagged("eval") = {"container_runtime", "arena_image"}
  BY DEF CheckIds, CapabilitiesOf
<1>2. Tagged("evolve") = {"container_runtime", "arena_image", "mutator_image", "operator"}
  BY DEF CheckIds, CapabilitiesOf
<1>3. Tagged("publish") = {"hub", "hub_login", "gh"}
  BY DEF CheckIds, CapabilitiesOf
<1>4. Tagged("browse") = {"hub"}
  BY DEF CheckIds, CapabilitiesOf
<1>5. \A cap : CapabilityReady(P, cap) <=>
        (IF Tagged(cap) \intersect Hard # {} THEN Tagged(cap) \intersect Hard ELSE Tagged(cap))
          \subseteq P
  BY DEF CapabilityReady
<1> HIDE DEF Tagged
<1>6. /\ Tagged("eval") \intersect Hard = {"container_runtime", "arena_image"}
      /\ Tagged("evolve") \intersect Hard
           = {"container_runtime", "arena_image", "mutator_image", "operator"}
      /\ Tagged("publish") \intersect Hard = {} /\ Tagged("browse") \intersect Hard = {}
  BY <1>1, <1>2, <1>3, <1>4 DEF Hard
<1>7. QED
  BY <1>3, <1>4, <1>5, <1>6

LEMMA WantedFacts ==
  ASSUME NEW S, S = Scope
  PROVE  /\ "eval" \in S => Wanted("container_runtime") /\ Wanted("arena_image")
         /\ "evolve" \in S => /\ Wanted("container_runtime") /\ Wanted("arena_image")
                              /\ Wanted("mutator_image")
         /\ "publish" \in S => Wanted("hub_login") /\ Wanted("gh")
  BY DEF Wanted, CapabilitiesOf

(* Both runtime and images are there when the pull, if any, succeeded. *)
LEMMA RuntimeReady ==
  ASSUME NEW m \in Machine, NEW k \in Images,
         Wanted("container_runtime"), Wanted(ImageCheck(k)),
         RuntimeYours(m) = {}, Progress(m),
         \A s \in ToSet(plan.steps) : Succeeded(s.id),
         plan = BuildPlan(m, reached, agent)
  PROVE  Runtime(machine) # "none" /\ ImageHere(machine, k)
<1>1. CASE ImageHere(m, k)
  BY <1>1 DEF ImageHere, Progress
<1>2. CASE ~ImageHere(m, k)
  <2>1. k \in Pulls(m)
    BY <1>2 DEF Pulls
  <2>2. Runtime(m) # "none" \/ RuntimeSteps(m) # <<>>
    BY RuntimePart
  <2>3. PullPlanned(m)
    BY <2>1, <2>2 DEF PullPlanned
  <2>4. PICK s \in ToSet(plan.steps) : s.id = "pull" /\ s.images = Pulls(m)
    BY <2>3, StepsPlanned
  <2>5. Succeeded(s.id)
    BY <2>4
  <2>6. ImageHere(machine, k)
    BY <2>1, <2>4, <2>5 DEF Progress
  <2>7. QED
    BY <2>6 DEF ImageHere
<1>3. QED
  BY <1>1, <1>2

(* The agent is logged in, by the plan or before it. *)
LEMMA OperatorReady ==
  ASSUME NEW m \in Machine, NEW p \in {opts.operator, agent}, "evolve" \in Scope,
         p = agent => agent # "none" \/ opts.operator = "none",
         agent \in AgentsToSetUp(m), Progress(m),
         \A s \in ToSet(plan.steps) : Succeeded(s.id),
         plan = BuildPlan(m, reached, agent), NEW r
  PROVE  "operator" \in Passing(machine, p, r)
<1>1. ASSUME agent # "none" PROVE AgentReady(machine, agent)
  <2>1. CASE AgentReady(m, agent)
    BY <2>1 DEF AgentReady, Progress
  <2>2. CASE ~AgentReady(m, agent)
    <3>1. AgentToLogIn(m, agent)
      BY <1>1, <2>2 DEF AgentToLogIn
    <3>2. PICK s \in ToSet(plan.steps) : s.id = "agent-login"
      BY <3>1, StepsPlanned
    <3>3. Succeeded("agent-login")
      BY <3>2
    <3>4. QED
      BY <3>3 DEF Progress, AgentReady
  <2>3. QED
    BY <2>1, <2>2
<1>2. opts.operator # "none" => agent = opts.operator
  BY DEF AgentsToSetUp
<1>3. CASE p = "none"
  <2>1. "opencode2" \in Agents /\ AgentReady(machine, "opencode2")
    BY DEF Agents, AgentReady
  <2>2. QED
    BY <1>3, <2>1 DEF Passing, CheckIds
<1>4. CASE p # "none"
  <2>1. AgentReady(machine, p)
    BY <1>1, <1>2, <1>4
  <2>2. QED
    BY <1>4, <2>1 DEF Passing, CheckIds
<1>5. QED
  BY <1>3, <1>4

(* Both accounts are logged in, and one. *)
LEMMA AccountsReady ==
  ASSUME NEW m \in Machine, "publish" \in Scope, reached = {"hub", "gh"}, Progress(m),
         plan = BuildPlan(m, reached, agent), plan.yours \subseteq {"ufw.allow"},
         \A s \in ToSet(plan.steps) : Succeeded(s.id)
  PROVE  machine.hub # "none" /\ machine.gh \notin {"missing", "unauthed"} /\ OneAccount
<1>1. Wanted("hub_login") /\ Wanted("gh")
  BY WantedFacts
<1>2. machine.hub # "none"
  <2>1. CASE HubPlanned(m)
    <3>1. Succeeded("hub-login")
      BY <2>1, StepsPlanned
    <3>2. QED
      BY <3>1 DEF Progress
  <2>2. CASE ~HubPlanned(m)
    BY <1>1, <2>2 DEF HubPlanned, Progress
  <2>3. QED
    BY <2>1, <2>2
<1>3. GhPlanned(m, reached) \/ GhState(m, reached) = "authed"
  <2>1. "gh.get" \notin plan.yours /\ "gh" \in reached
    OBVIOUS
  <2>2. ~(GhState(m, reached) = "missing" /\ ~GhStepped(m, reached))
    BY <1>1, <2>1, YoursFacts
  <2>3. GhState(m, reached) \in {"missing", "unauthed", "authed"}
    BY <2>1 DEF GhState
  <2>4. QED
    BY <1>1, <2>2, <2>3 DEF GhPlanned
<1>4. machine.gh \notin {"missing", "unauthed"}
  <2>1. CASE GhPlanned(m, reached)
    <3>1. Succeeded("gh-login")
      BY <2>1, StepsPlanned
    <3>2. QED
      BY <3>1 DEF Progress
  <2>2. CASE ~GhPlanned(m, reached)
    BY <1>3, <2>2 DEF GhState, Progress
  <2>3. QED
    BY <2>1, <2>2
<1>5. OneAccount
  <2>1. CASE Compared(m, reached)
    <3>1. Succeeded("same-account")
      BY <2>1, StepsPlanned
    <3>2. QED
      BY <3>1 DEF Progress
  <2>2. CASE ~Compared(m, reached)
    <3>1. ~HubPlanned(m) /\ ~GhPlanned(m, reached) /\ GhState(m, reached) = "authed"
      BY <1>1, <1>3, <2>2 DEF Compared
    <3>2. AccountSteps(m, reached) = <<>>
      BY <2>2, AccountPart
    <3>3. ~Mismatched(m, reached)
      <4>1. "one.account" \notin plan.yours
        OBVIOUS
      <4>2. QED
        BY <4>1, YoursFacts
    <3>4. m.hub # "none"
      BY <1>1, <3>1 DEF HubPlanned
    <3>5. m.hub = m.gh
      BY <1>1, <3>1, <3>2, <3>3, <3>4 DEF Mismatched
    <3>6. QED
      BY <3>1, <3>5 DEF Progress, OneAccount
  <2>3. QED
    BY <2>1, <2>2
<1>6. QED
  BY <1>2, <1>4, <1>5

(* The exit code of a run that did all it planned, and left nothing that blocks. *)
LEMMA CleanMeansReady ==
  ASSUME NEW m \in Machine, NEW p \in {opts.operator, agent}, opts \in Option,
         p = agent => agent # "none" \/ opts.operator = "none",
         agent \in AgentsToSetUp(m), Progress(m),
         \A s \in ToSet(plan.steps) : Succeeded(s.id),
         plan = BuildPlan(m, reached, agent), reached = {"hub", "gh"},
         plan.yours \subseteq {"ufw.allow"}
  PROVE  /\ ExitCode(machine, p, {"hub", "gh"}) = 0
         /\ "publish" \in Scope => OneAccount
<1> DEFINE P == Passing(machine, p, {"hub", "gh"})
<1>1. "publish" \in Scope => OneAccount
  BY AccountsReady
<1>2. Scope \subseteq Capabilities
  BY DEF Scope, Option, Capabilities
<1>3. RuntimeYours(m) = {}
  BY YoursFacts
<1>4. ASSUME "eval" \in Scope \/ "evolve" \in Scope
      PROVE  {"container_runtime", "arena_image"} \subseteq P
  <2>1. Wanted("container_runtime") /\ Wanted("arena_image") /\ ImageCheck("arena") = "arena_image"
    BY <1>4, WantedFacts DEF ImageCheck
  <2>2. Runtime(machine) # "none" /\ ImageHere(machine, "arena")
    BY <1>3, <2>1, RuntimeReady DEF Images
  <2>3. QED
    BY <2>2 DEF Passing, CheckIds
<1>5. ASSUME "evolve" \in Scope PROVE {"mutator_image", "operator"} \subseteq P
  <2>1. /\ Wanted("container_runtime") /\ Wanted("mutator_image")
        /\ ImageCheck("mutator") = "mutator_image"
    BY <1>5, WantedFacts DEF ImageCheck
  <2>2. ImageHere(machine, "mutator")
    BY <1>3, <2>1, RuntimeReady DEF Images
  <2>3. "operator" \in P
    BY <1>5, OperatorReady
  <2>4. QED
    BY <2>2, <2>3 DEF Passing, CheckIds
<1>6. "hub" \in P
  BY DEF Passing, CheckIds
<1>7. ASSUME "publish" \in Scope PROVE {"hub_login", "gh"} \subseteq P
  <2>1. machine.hub # "none" /\ machine.gh \notin {"missing", "unauthed"}
    BY <1>7, AccountsReady
  <2>2. GhState(machine, {"hub", "gh"}) = "authed"
    BY <2>1 DEF GhState
  <2>3. QED
    BY <2>1, <2>2 DEF Passing, CheckIds
<1> HIDE DEF P
<1>8. \A cap \in Scope : CapabilityReady(P, cap)
  BY <1>2, <1>4, <1>5, <1>6, <1>7, Gates DEF Capabilities
<1>9. QED
  BY <1>1, <1>8 DEF ExitCode, P

-----------------------------------------------------------------------------
(* EVERY STEP OF THE SYSTEM *)

(* Nothing about a plan changes while the options do not. *)
LEMMA SameOptions ==
  ASSUME NEW m, NEW r, NEW a, opts' = opts
  PROVE  /\ Scope' = Scope
         /\ BuildPlan(m, r, a)' = BuildPlan(m, r, a)
         /\ HubPlanned(m)' = HubPlanned(m) /\ GhPlanned(m, r)' = GhPlanned(m, r)
         /\ AgentsToSetUp(m)' = AgentsToSetUp(m)
<1>1. Scope' = Scope /\ \A c : Wanted(c)' = Wanted(c)
  BY DEF Scope, Wanted
<1>2. HubPlanned(m)' = HubPlanned(m) /\ HubSteps(m)' = HubSteps(m)
  BY <1>1 DEF HubPlanned, HubSteps
<1>3. GhStepped(m, r)' = GhStepped(m, r)
  BY <1>1 DEF GhStepped
<1>4. GhPlanned(m, r)' = GhPlanned(m, r)
  BY <1>1, <1>3 DEF GhPlanned
<1>5. GhSteps(m, r)' = GhSteps(m, r)
  BY <1>3, <1>4 DEF GhSteps
<1>6. AccountSteps(m, r)' = AccountSteps(m, r)
  BY <1>1, <1>2, <1>4 DEF AccountSteps
<1>7. Mismatched(m, r)' = Mismatched(m, r)
  BY <1>1, <1>6 DEF Mismatched
<1>8. RuntimeSteps(m)' = RuntimeSteps(m) /\ RuntimeYours(m)' = RuntimeYours(m)
  BY <1>1 DEF RuntimeSteps, RuntimeYours
<1>9. PullSteps(m)' = PullSteps(m)
  BY <1>1, <1>8 DEF PullSteps
<1>10. BuildPlan(m, r, a)' = BuildPlan(m, r, a)
  BY <1>1, <1>2, <1>3, <1>5, <1>6, <1>7, <1>8, <1>9 DEF BuildPlan
<1>11. AgentsToSetUp(m)' = AgentsToSetUp(m)
  BY <1>1 DEF AgentsToSetUp
<1>12. QED
  BY <1>1, <1>2, <1>4, <1>10, <1>11

(* The step that is tried, and the ones before it. *)
LEMMA CurrentFacts ==
  ASSUME SetupTypeOK, RunSoFar, More
  PROVE  /\ Current \in ToSet(plan.steps) /\ Current \in Steps
         /\ ~Succeeded(Current.id)
         /\ \A id \in succeeded : \E s \in ToSet(plan.steps) : s.id = id /\ s.needs \subseteq succeeded
<1>1. /\ plan.steps \in Seq(Steps) /\ at \in Nat /\ at \in DOMAIN plan.steps
      /\ \A i \in 1..(at - 1) : i \in DOMAIN plan.steps /\ i # at
  BY DEF SetupTypeOK, Plans, More
<1>2. Current \in ToSet(plan.steps) /\ Current \in Steps
  BY <1>1 DEF Current, ToSet
<1>3. ~Succeeded(Current.id)
  BY <1>1 DEF RunSoFar, Distinct, Succeeded, Current
<1>4. ASSUME NEW id \in succeeded
      PROVE  \E s \in ToSet(plan.steps) : s.id = id /\ s.needs \subseteq succeeded
  <2>1. PICK i \in 1..(at - 1) : plan.steps[i].id = id
    BY <1>4 DEF RunSoFar
  <2>2. plan.steps[i] \in ToSet(plan.steps)
    BY <1>1 DEF ToSet
  <2>3. QED
    BY <1>4, <2>1, <2>2 DEF RunSoFar, Succeeded
<1>5. QED
  BY <1>2, <1>3, <1>4

LEMMA RecordKeepsOrder ==
  ASSUME SetupTypeOK, RunSoFar, More, NEW ok \in BOOLEAN, Record(Current, ok),
         ok => Runnable(Current) /\ Current.needs \subseteq succeeded,
         UNCHANGED <<opts, plan>>
  PROVE  /\ RunSoFar' /\ at' \in 1..(Len(plan.steps) + 1) /\ succeeded' \subseteq StepIds
         /\ \A id \in succeeded' : id \in succeeded \/ (ok /\ id = Current.id)
         /\ ok => Current.id \in succeeded'
         /\ succeeded \subseteq succeeded'
<1>1. /\ plan.steps \in Seq(Steps) /\ at \in Nat /\ at \in 1..Len(plan.steps)
      /\ DOMAIN plan.steps = 1..Len(plan.steps) /\ Len(plan.steps) \in Nat
  BY DEF SetupTypeOK, Plans, More
<1>2. at' = at + 1 /\ succeeded' = succeeded \union {id \in {Current.id} : ok}
  BY DEF Record
<1>3. Current \in Steps /\ Current \in ToSet(plan.steps)
  BY CurrentFacts
<1>4. succeeded' \subseteq StepIds
  BY <1>2, <1>3 DEF SetupTypeOK, Steps
<1>5. \A id \in succeeded' : \E i \in 1..(at' - 1) : plan.steps[i].id = id
  <2> SUFFICES ASSUME NEW id \in succeeded' PROVE \E i \in 1..(at' - 1) : plan.steps[i].id = id
    OBVIOUS
  <2>1. CASE id \in succeeded
    <3>1. PICK i \in 1..(at - 1) : plan.steps[i].id = id
      BY <2>1 DEF RunSoFar
    <3>2. i \in 1..(at' - 1)
      BY <1>1, <1>2
    <3>3. QED
      BY <3>1, <3>2
  <2>2. CASE id = Current.id
    <3>1. at \in 1..(at' - 1)
      BY <1>1, <1>2
    <3>2. QED
      BY <2>2, <3>1 DEF Current
  <2>3. QED
    BY <1>2, <2>1, <2>2
<1>6. ASSUME NEW s \in ToSet(plan.steps), s.id \in succeeded'
      PROVE  s.needs \subseteq succeeded' /\ Runnable(s)
  <2>1. CASE s.id \in succeeded
    BY <1>2, <2>1 DEF RunSoFar, Succeeded
  <2>2. CASE s.id \notin succeeded
    <3>1. ok /\ s.id = Current.id
      BY <1>2, <1>6, <2>2
    <3>2. s = Current
      <4>1. PICK i \in DOMAIN plan.steps : s = plan.steps[i]
        BY DEF ToSet
      <4>2. i = at
        BY <1>1, <3>1, <4>1 DEF RunSoFar, Distinct, Current
      <4>3. QED
        BY <4>1, <4>2 DEF Current
    <3>3. QED
      BY <1>2, <3>1, <3>2
  <2>3. QED
    BY <2>1, <2>2
<1>7. RunSoFar'
  <2>1. Distinct(plan.steps)'
    BY DEF RunSoFar, Distinct
  <2>2. \A s : Runnable(s)' = Runnable(s)
    BY DEF Runnable
  <2>3. QED
    BY <1>5, <1>6, <2>1, <2>2 DEF RunSoFar, Succeeded
<1>8. QED
  BY <1>1, <1>2, <1>4, <1>7

(* A step that leaves Progress as it should be leaves the invariant. *)
LEMMA StepKeepsInv ==
  ASSUME SetupInv, More, NEW m \in Machine, PlannedFor(m), NEW ok \in BOOLEAN,
         Record(Current, ok), ok => Runnable(Current) /\ Current.needs \subseteq succeeded,
         UNCHANGED <<opts, phase, agent, plan, exit, reached>>, faults' \in 0..MaxFaults,
         machine' \in Machine, Progress(m)',
         "one.account" \in plan.yours => machine'.gh \in Accounts
  PROVE  SetupInv'
<1>1. phase = "running" /\ phase' = "running"
  BY DEF More
<1>2. RunSoFar' /\ at' \in 1..(Len(plan.steps) + 1) /\ succeeded' \subseteq StepIds
  BY RecordKeepsOrder DEF SetupInv, PlannedFor
<1>3. SetupTypeOK'
  BY <1>2 DEF SetupInv, SetupTypeOK
<1>4. PlannedFor(m)'
  <2>1. /\ BuildPlan(m, reached, agent)' = BuildPlan(m, reached, agent)
        /\ AgentsToSetUp(m)' = AgentsToSetUp(m)
    BY SameOptions
  <2>2. QED
    BY <1>2, <2>1 DEF PlannedFor
<1>5. QED
  BY <1>1, <1>3, <1>4 DEF SetupInv

(* A step that is passed by, skipped or fails leaves the machine as it was. *)
LEMMA NothingDone ==
  ASSUME SetupInv, More, Record(Current, FALSE),
         UNCHANGED <<machine, opts, phase, agent, plan, exit, reached>>, faults' \in 0..MaxFaults
  PROVE  SetupInv'
<1>1. PICK m \in Machine : PlannedFor(m)
  BY DEF SetupInv, More
<1>2. succeeded' = succeeded
  BY DEF Record
<1>3. Progress(m)'
  <2>1. HubPlanned(m)' = HubPlanned(m) /\ GhPlanned(m, reached)' = GhPlanned(m, reached)
    BY SameOptions
  <2>2. QED
    BY <1>1, <1>2, <2>1 DEF PlannedFor, Progress, Succeeded, OneAccount
<1>4. machine' \in Machine /\ ("one.account" \in plan.yours => machine'.gh \in Accounts)
  BY DEF SetupInv, SetupTypeOK
<1>5. QED
  BY <1>1, <1>3, <1>4, StepKeepsInv

(* What a step needs has succeeded before it, and is not run again. *)
LEMMA NotYet ==
  ASSUME SetupTypeOK, NEW m \in Machine, PlannedFor(m), More
  PROVE  LET id == Current.id
         IN /\ id \in {"hub-login", "gh-login"} => ~Succeeded("same-account")
            /\ id = "gh.install" => ~Succeeded("gh-login") /\ ~Succeeded("same-account")
            /\ id \in RuntimeIds => ~Succeeded("pull")
<1> DEFINE id == Current.id
           P == ToSet(BuildPlan(m, reached, agent).steps)
<1>0. ToSet(plan.steps) = P /\ Current \in P
  BY CurrentFacts DEF PlannedFor
<1>1. ~Succeeded(id) /\ \A x \in succeeded : \E s \in P : s.id = x /\ s.needs \subseteq succeeded
  BY <1>0, CurrentFacts DEF PlannedFor
<1>2. /\ id = "hub-login" => HubPlanned(m)
      /\ id = "gh.install" => GhStepped(m, reached)
      /\ id = "gh-login" => GhPlanned(m, reached)
      /\ id \in RuntimeIds => Current \in ToSet(RuntimeSteps(m))
  BY <1>0, StepForms
<1> HIDE DEF P
<1>3. ASSUME Succeeded("same-account") PROVE AccountNeeds(m, reached) \subseteq succeeded
  <2>1. PICK s \in P : s.id = "same-account" /\ s.needs \subseteq succeeded
    BY <1>1, <1>3 DEF Succeeded
  <2>2. QED
    BY <2>1, StepForms DEF P
<1>4. ASSUME Succeeded("gh-login") PROVE GhNeeds(m, reached) \subseteq succeeded
  <2>1. PICK s \in P : s.id = "gh-login" /\ s.needs \subseteq succeeded
    BY <1>1, <1>4 DEF Succeeded
  <2>2. QED
    BY <2>1, StepForms DEF P
<1>5. ASSUME Succeeded("pull") PROVE Ids(RuntimeSteps(m)) \subseteq succeeded
  <2>1. PICK s \in P : s.id = "pull" /\ s.needs \subseteq succeeded
    BY <1>1, <1>5 DEF Succeeded
  <2>2. PullNeeds(m) \subseteq succeeded
    BY <2>1, StepForms DEF P
  <2>3. RuntimeSteps(m) # <<>> => Last(RuntimeSteps(m)).id \in succeeded
    BY <2>2 DEF PullNeeds
  <2>4. \A x \in ToSet(RuntimeSteps(m)) : x.id \in succeeded => x.needs \subseteq succeeded
    <3>1. ToSet(RuntimeSteps(m)) \subseteq P
      BY StepsPlanned DEF P
    <3>2. QED
      BY <1>0, <3>1 DEF PlannedFor, RunSoFar, Succeeded
  <2>5. QED
    BY <2>3, <2>4, RuntimePart DEF Chained
<1>6. ASSUME id \in RuntimeIds PROVE id \in Ids(RuntimeSteps(m))
  BY <1>2, <1>6 DEF Ids, ToSet
<1> HIDE DEF id
<1>7. id \in {"hub-login", "gh-login"} => ~Succeeded("same-account")
  BY <1>1, <1>2, <1>3 DEF AccountNeeds, Succeeded
<1>8. id = "gh.install" => ~Succeeded("gh-login")
  BY <1>1, <1>2, <1>4 DEF GhNeeds, Succeeded
<1>9. id = "gh.install" => ~Succeeded("same-account")
  <2>1. GhStepped(m, reached) => GhPlanned(m, reached)
    BY DEF GhStepped, GhPlanned
  <2>2. QED
    BY <1>2, <1>3, <1>8, <2>1 DEF AccountNeeds, Succeeded
<1>10. id \in RuntimeIds => ~Succeeded("pull")
  BY <1>1, <1>5, <1>6 DEF Succeeded
<1>11. QED
  BY <1>7, <1>8, <1>9, <1>10 DEF id

LEMMA RunKeepsInv ==
  ASSUME SetupInv, NEW who \in Accounts, Run(who)
  PROVE  SetupInv'
<1> DEFINE id == Current.id
<1>0. /\ Ready /\ More /\ machine' = After(id, who, machine)
      /\ Current.kind \in {"hub_login", "terminal", "captured"}
      /\ Record(Current, TRUE)
      /\ UNCHANGED <<opts, phase, agent, plan, exit, reached>>
  BY DEF Run, Ready
<1>1. PICK m \in Machine : PlannedFor(m)
  BY <1>0 DEF SetupInv, More
<1>2. /\ SetupTypeOK /\ Progress(m) /\ RunSoFar
      /\ Current \in ToSet(BuildPlan(m, reached, agent).steps) /\ id \in StepIds
  BY <1>0, <1>1, CurrentFacts DEF SetupInv, PlannedFor, Steps
<1>3. /\ id = "hub-login" => HubPlanned(m)
      /\ id = "gh.install" => GhStepped(m, reached)
      /\ id = "gh-login" => GhPlanned(m, reached)
      /\ id \in RuntimeIds => Runtime(m) = "none"
      /\ id # "same-account" /\ id # "pull"
  BY <1>0, <1>2, StepForms
<1>4. GhStepped(m, reached) => GhPlanned(m, reached)
  BY DEF GhStepped, GhPlanned
<1>5. /\ machine' \in Machine
      /\ machine'.hub = (IF id = "hub-login" THEN who ELSE machine.hub)
      /\ machine'.gh = (IF id = "gh-login" THEN who
                        ELSE IF id = "gh.install" THEN "unauthed" ELSE machine.gh)
      /\ machine.logins \subseteq machine'.logins
      /\ id = "agent-login" => agent \in machine'.logins
      /\ machine'.images = machine.images
      /\ id \notin RuntimeIds => Runtime(machine') = Runtime(machine)
  <2>1. id \in {"agent-install", "agent-login"} => agent \in Agents
    BY <1>2, StepForms DEF SetupTypeOK
  <2>2. machine \in Machine
    BY <1>2 DEF SetupTypeOK
  <2>3. QED
    BY <1>0, <1>2, <2>1, <2>2, AfterFacts
<1>6. /\ id \in {"hub-login", "gh-login"} => ~Succeeded("same-account")
      /\ id = "gh.install" => ~Succeeded("gh-login") /\ ~Succeeded("same-account")
      /\ id \in RuntimeIds => ~Succeeded("pull")
  BY <1>0, <1>1, <1>2, NotYet
<1>7. Runnable(Current) /\ Current.needs \subseteq succeeded
  BY <1>0 DEF Ready, Succeeded
<1>8. succeeded' = succeeded \union {id}
  BY <1>0 DEF Record
<1>9. /\ HubPlanned(m)' = HubPlanned(m) /\ GhPlanned(m, reached)' = GhPlanned(m, reached)
  BY <1>0, SameOptions
<1>10. who # "none" /\ who \notin {"missing", "unauthed"}
  BY DEF Accounts
<1> HIDE DEF id
<1>11. Progress(m)'
  <2>1. (Succeeded("hub-login") => machine.hub # "none")'
    BY <1>2, <1>5, <1>8, <1>10 DEF Progress, Succeeded
  <2>2. (~HubPlanned(m) => machine.hub = m.hub)'
    BY <1>2, <1>3, <1>5, <1>9 DEF Progress
  <2>3. (Succeeded("gh-login") => machine.gh \notin {"missing", "unauthed"})'
    BY <1>2, <1>5, <1>6, <1>8, <1>10 DEF Progress, Succeeded
  <2>4. (~GhPlanned(m, reached) => machine.gh = m.gh)'
    BY <1>2, <1>3, <1>4, <1>5, <1>9 DEF Progress
  <2>5. (Succeeded("same-account") => OneAccount)'
    BY <1>2, <1>3, <1>5, <1>6, <1>8 DEF Progress, Succeeded, OneAccount
  <2>6. (Succeeded("agent-login") => agent \in machine.logins)'
    BY <1>0, <1>2, <1>5, <1>8 DEF Progress, Succeeded
  <2>7. (m.logins \subseteq machine.logins)'
    BY <1>2, <1>5 DEF Progress
  <2>8. (Runtime(m) # "none" => Runtime(machine) = Runtime(m))'
    BY <1>2, <1>3, <1>5 DEF Progress
  <2>9. (m.images \subseteq machine.images)'
    BY <1>2, <1>5 DEF Progress
  <2>10. (\A s \in ToSet(plan.steps) :
            (s.id = "pull" /\ Succeeded(s.id)) => \A k \in s.images : ImageHere(machine, k))'
    <3> SUFFICES ASSUME NEW s \in ToSet(plan.steps), s.id = "pull", s.id \in succeeded',
                        NEW k \in s.images
                 PROVE  ImageHere(machine', k)
      BY <1>0 DEF Succeeded
    <3>1. Succeeded("pull")
      BY <1>3, <1>8 DEF Succeeded
    <3>2. ImageHere(machine, k)
      BY <1>2, <3>1 DEF Progress
    <3>3. QED
      BY <1>5, <1>6, <3>1, <3>2 DEF ImageHere
  <2>11. QED
    BY <2>1, <2>2, <2>3, <2>4, <2>5, <2>6, <2>7, <2>8, <2>9, <2>10 DEF Progress
<1>12. "one.account" \in plan.yours => machine'.gh \in Accounts
  <2>1. "one.account" \in plan.yours => ~GhStepped(m, reached)
    BY <1>1, YoursFacts DEF PlannedFor, Mismatched, GhStepped
  <2>2. QED
    BY <1>3, <1>5, <2>1 DEF SetupInv
<1>13. faults' \in 0..MaxFaults
  BY <1>2, SetupAssumption DEF Run, Costs, Fault, SetupTypeOK
<1>14. QED
  BY <1>0, <1>1, <1>5, <1>7, <1>11, <1>12, <1>13, StepKeepsInv

LEMMA CompareKeepsInv ==
  ASSUME SetupInv, CompareAccounts
  PROVE  SetupInv'
<1> DEFINE ok == machine.hub = machine.gh
<1>0. /\ More /\ Runnable(Current) /\ Current.needs \subseteq succeeded
      /\ Current.kind = "same_account" /\ Record(Current, ok)
      /\ UNCHANGED <<machine, opts, phase, agent, plan, exit, reached, faults>>
  BY DEF CompareAccounts, Ready, Succeeded
<1>1. PICK m \in Machine : PlannedFor(m)
  BY <1>0 DEF SetupInv, More
<1>2. Current.id = "same-account"
  <2>1. Current \in ToSet(BuildPlan(m, reached, agent).steps)
    BY <1>0, <1>1, CurrentFacts DEF SetupInv, PlannedFor
  <2>2. QED
    BY <1>0, <2>1, StepForms
<1>3. \A id \in succeeded' : id \in succeeded \/ (ok /\ id = "same-account")
  BY <1>0, <1>2 DEF Record
<1>4. Progress(m)'
  <2>1. HubPlanned(m)' = HubPlanned(m) /\ GhPlanned(m, reached)' = GhPlanned(m, reached)
    BY <1>0, SameOptions
  <2>2. Progress(m)
    BY <1>1 DEF PlannedFor
  <2>3. \A id : id # "same-account" => (Succeeded(id)' => Succeeded(id))
    BY <1>3 DEF Succeeded
  <2>4. (Succeeded("same-account") => OneAccount)'
    BY <1>0, <1>3, <2>2 DEF Progress, Succeeded, OneAccount
  <2>5. QED
    BY <1>0, <2>1, <2>2, <2>3, <2>4 DEF Progress
<1>5. machine' \in Machine /\ faults' \in 0..MaxFaults
      /\ ("one.account" \in plan.yours => machine'.gh \in Accounts)
  BY <1>0 DEF SetupInv, SetupTypeOK
<1>6. QED
  BY <1>0, <1>1, <1>4, <1>5, StepKeepsInv

LEMMA PullKeepsInv ==
  ASSUME SetupInv, NEW got \in SUBSET Images, Pull(got)
  PROVE  SetupInv'
<1> DEFINE ok == got = Current.images
           more == {<<Runtime(machine), k>> : k \in got}
           images == machine.images \union more
<1>0. /\ More /\ Runnable(Current) /\ Current.needs \subseteq succeeded
      /\ Current.kind = "pull" /\ Record(Current, ok)
      /\ Runtime(machine) = "none" => got = {}
      /\ machine' = [machine EXCEPT !.images = images]
      /\ UNCHANGED <<opts, phase, agent, plan, exit, reached>>
  BY DEF Pull, Ready, Succeeded
<1>1. PICK m \in Machine : PlannedFor(m)
  BY <1>0 DEF SetupInv, More
<1>2. SetupTypeOK /\ Progress(m) /\ machine \in Machine
      /\ Current \in ToSet(BuildPlan(m, reached, agent).steps)
  BY <1>0, <1>1, CurrentFacts DEF SetupInv, PlannedFor, SetupTypeOK
<1>3. Current.id = "pull" /\ Current.images = Pulls(m) /\ Pulls(m) # {}
  BY <1>0, <1>2, StepForms DEF PullPlanned
<1>4. Runtime(machine) \in {"docker", "podman", "none"}
  BY DEF Runtime
<1>5. more \subseteq {"docker", "podman"} \X Images
  BY <1>0, <1>4
<1>6. images \in SUBSET ({"docker", "podman"} \X Images) /\ machine.images \subseteq images
      /\ \A k \in got : <<Runtime(machine), k>> \in images
  BY <1>2, <1>5 DEF Machine
<1> HIDE DEF images, more
<1>7. /\ machine' \in Machine /\ machine'.images = images
      /\ machine'.hub = machine.hub /\ machine'.gh = machine.gh
      /\ machine'.logins = machine.logins
      /\ Runtime(machine') = Runtime(machine)
  <2>1. machine' = [machine EXCEPT !.images = images]
    BY <1>0
  <2>2. machine' \in Machine
    BY <1>2, <1>6, <2>1, ZenonT(40) DEF Machine
  <2>3. /\ machine'.os = machine.os /\ machine'.installed = machine.installed
        /\ machine'.running = machine.running /\ machine'.context = machine.context
        /\ machine'.denied = machine.denied
    BY <1>2, <2>1 DEF Machine
  <2>4. /\ machine'.images = images /\ machine'.hub = machine.hub
        /\ machine'.gh = machine.gh /\ machine'.logins = machine.logins
    BY <1>2, <2>1 DEF Machine
  <2>5. QED
    BY <2>2, <2>3, <2>4, SameRuntime
<1>8. \A id \in succeeded' : id \in succeeded \/ (ok /\ id = "pull")
  BY <1>0, <1>3 DEF Record
<1>9. \A k : ImageHere(machine, k) => ImageHere(machine', k)
  BY <1>6, <1>7 DEF ImageHere
<1>10. \A id : id # "pull" => (Succeeded(id)' => Succeeded(id))
  BY <1>8 DEF Succeeded
<1>11. (\A s \in ToSet(plan.steps) :
          (s.id = "pull" /\ Succeeded(s.id)) => \A k \in s.images : ImageHere(machine, k))'
  <2> SUFFICES ASSUME NEW s \in ToSet(plan.steps), s.id = "pull", s.id \in succeeded',
                      NEW k \in s.images
               PROVE  ImageHere(machine', k)
    BY <1>0 DEF Succeeded
  <2>1. CASE Succeeded("pull")
    BY <1>2, <1>9, <2>1 DEF Progress
  <2>2. CASE ~Succeeded("pull")
    <3>1. got = Pulls(m)
      BY <1>3, <1>8, <2>2 DEF Succeeded
    <3>2. s.images = Pulls(m)
      <4>1. s \in ToSet(BuildPlan(m, reached, agent).steps)
        BY <1>1 DEF PlannedFor
      <4>2. QED
        BY <4>1, StepForms
    <3>3. Runtime(machine) # "none"
      BY <1>0, <1>3, <3>1
    <3>4. QED
      BY <1>6, <1>7, <3>1, <3>2, <3>3 DEF ImageHere
  <2>3. QED
    BY <2>1, <2>2
<1>12. Progress(m)'
  <2>1. HubPlanned(m)' = HubPlanned(m) /\ GhPlanned(m, reached)' = GhPlanned(m, reached)
    BY <1>0, SameOptions
  <2>2. m.images \subseteq machine'.images
    BY <1>2, <1>6, <1>7 DEF Progress
  <2>3. (Succeeded("same-account") => OneAccount)'
    BY <1>2, <1>7, <1>10 DEF Progress, OneAccount
  <2>4. QED
    BY <1>0, <1>2, <1>7, <1>10, <1>11, <2>1, <2>2, <2>3 DEF Progress
<1>13. faults' \in 0..MaxFaults
  BY <1>2, SetupAssumption DEF Pull, Costs, Fault, SetupTypeOK
<1>14. "one.account" \in plan.yours => machine'.gh \in Accounts
  BY <1>7 DEF SetupInv
<1>15. QED
  BY <1>0, <1>1, <1>7, <1>12, <1>13, <1>14, StepKeepsInv

(* The checks and the plan. *)
LEMMA LaunchKeepsInv ==
  ASSUME SetupInv, NEW r \in Answers, NEW a \in Agents \union {"none"}, Launch(r, a)
  PROVE  SetupInv'
<1> PICK m \in Machine : m = machine
  BY DEF SetupInv, SetupTypeOK
<1>1. /\ a \in AgentsToSetUp(m) /\ reached' = r /\ agent' = a
      /\ plan' = BuildPlan(m, r, a) /\ phase' = "planned" /\ at' = 1 /\ succeeded' = {}
      /\ machine' = m /\ UNCHANGED <<opts, exit>>
  BY DEF Launch
<1>2. /\ BuildPlan(m, reached, agent)' = BuildPlan(m, r, a)
      /\ HubPlanned(m)' = HubPlanned(m) /\ GhPlanned(m, reached)' = GhPlanned(m, r)
      /\ AgentsToSetUp(m)' = AgentsToSetUp(m)
  BY <1>1, SameOptions
<1>3. plan' \in Plans
  <2>1. BuildPlan(m, r, a) = [steps |-> BuildPlan(m, r, a).steps,
                              yours |-> BuildPlan(m, r, a).yours,
                              afterwards |-> BuildPlan(m, r, a).afterwards]
    BY DEF BuildPlan
  <2>2. {"rosetta.install", "colima.recreate", "podman.slow"} \subseteq Todos
    BY DEF Todos
  <2>3. QED
    BY <1>1, <2>1, <2>2, PlanParts, YoursFacts DEF Plans
<1>4. faults' \in 0..MaxFaults
  BY SetupAssumption DEF Launch, Costs, Fault, SetupInv, SetupTypeOK
<1>5. SetupTypeOK'
  <2>1. at' \in 1..(Len(plan'.steps) + 1)
    BY <1>1, <1>3 DEF Plans
  <2>2. QED
    BY <1>1, <1>3, <1>4, <2>1 DEF SetupInv, SetupTypeOK, Answers
<1>6. RunSoFar'
  BY <1>1, PlanParts DEF RunSoFar, Succeeded
<1>7. Progress(m)'
  BY <1>1, <1>2 DEF Progress, Succeeded
<1>8. PlannedFor(m)'
  BY <1>1, <1>2, <1>6, <1>7 DEF PlannedFor
<1>9. "one.account" \in plan'.yours => machine'.gh \in Accounts /\ "gh.get" \notin plan'.yours
  <2>1. Mismatched(m, r) => m.gh \in Accounts /\ GhState(m, r) # "missing"
    BY DEF Mismatched, GhState, Machine
  <2>2. QED
    BY <1>1, <2>1, YoursFacts
<1>10. plan'.afterwards \subseteq {"rosetta.install", "colima.recreate", "podman.slow"}
  BY <1>1, YoursFacts
<1>11. QED
  BY <1>1, <1>5, <1>8, <1>9, <1>10 DEF SetupInv

(* A run ends: what it did is what the exit code is of. *)
LEMMA EndKeepsInv ==
  ASSUME SetupInv, phase # "idle", phase' = "idle", NEW r \in Answers,
         NEW p \in {opts.operator, agent},
         p = agent => agent # "none" \/ opts.operator = "none",
         exit' = ExitCode(machine, p, r) \/ exit' = 130,
         reached' = reached \intersect r, faults' \in 0..MaxFaults,
         UNCHANGED <<machine, opts, agent, plan, at, succeeded>>
  PROVE  SetupInv'
<1>1. PICK m \in Machine : PlannedFor(m)
  BY DEF SetupInv
<1>2. SetupTypeOK'
  <2>1. exit' \in {0, 1, 130}
    BY DEF ExitCode
  <2>2. QED
    BY <2>1 DEF SetupInv, SetupTypeOK
<1>3. (\A s \in ToSet(plan.steps) : Succeeded(s.id) => Runnable(s))'
  BY <1>1 DEF PlannedFor, RunSoFar, Succeeded, Runnable
<1>4. CleanRunIsReady'
  <2> SUFFICES ASSUME exit' # 130, reached' = {"hub", "gh"}, plan.yours \subseteq {"ufw.allow"},
                      \A s \in ToSet(plan.steps) : Succeeded(s.id)
               PROVE  exit' = 0 /\ ("publish" \in Scope => OneAccount)
    BY DEF CleanRunIsReady, Succeeded, OneAccount, Scope
  <2>1. reached = {"hub", "gh"} /\ r = {"hub", "gh"}
    BY DEF Answers, SetupInv, SetupTypeOK
  <2>2. opts \in Option
    BY DEF SetupInv, SetupTypeOK
  <2>3. /\ ExitCode(machine, p, {"hub", "gh"}) = 0
        /\ "publish" \in Scope => OneAccount
    BY <1>1, <2>1, <2>2, CleanMeansReady DEF PlannedFor
  <2>4. QED
    BY <2>1, <2>3
<1>5. QED
  BY <1>2, <1>3, <1>4 DEF SetupInv

(* The person does nothing that a clean run counts on. *)
LEMMA PersonKeepsInv ==
  ASSUME SetupInv, NEW todo \in Todos, PersonDoes(todo)
  PROVE  SetupInv'
<1>1. /\ phase = "idle" /\ todo \in plan.yours \union plan.afterwards \union Listed
      /\ todo = "agent-login" => agent \in machine.agents
      /\ UNCHANGED <<opts, phase, agent, plan, at, succeeded, exit, reached, faults>>
  BY DEF PersonDoes
<1>2. PICK n \in AfterPerson(todo, machine) : machine' = n
  BY DEF PersonDoes
<1>3. machine \in Machine /\ machine.agents \subseteq Agents
  BY DEF SetupInv, SetupTypeOK, Machine
<1>4. Listed \subseteq StepIds /\ "one.account" \notin StepIds /\ "gh.get" \notin StepIds
  <2>1. plan.steps \in Seq(Steps)
    BY DEF SetupInv, SetupTypeOK, Plans
  <2>2. \A s \in ToSet(plan.steps) : s \in Steps
    BY <2>1 DEF ToSet
  <2>3. Listed \subseteq StepIds
    BY <2>2 DEF Listed, Steps
  <2>4. QED
    BY <2>3 DEF StepIds, RuntimeIds
<1>5. todo = "one.account" => machine.gh \in Accounts
  <2>1. SUFFICES ASSUME todo = "one.account" PROVE "one.account" \in plan.yours
    BY DEF SetupInv
  <2>2. "one.account" \notin plan.afterwards
    BY DEF SetupInv
  <2>3. "one.account" \notin Listed
    BY <1>4
  <2>4. QED
    BY <1>1, <2>1, <2>2, <2>3
<1>6. /\ machine' \in Machine /\ machine'.os = machine.os
      /\ todo \in {"rosetta.install", "colima.recreate", "podman.slow"} =>
           machine'.hub = machine.hub /\ machine'.gh = machine.gh
      /\ machine'.gh = machine.gh \/ todo = "gh.get" \/ machine'.gh \in Accounts
  BY <1>1, <1>2, <1>3, <1>5, PersonFacts
<1>7. SetupTypeOK'
  BY <1>1, <1>6 DEF SetupInv, SetupTypeOK
<1>8. "one.account" \in plan.yours => machine'.gh \in Accounts /\ "gh.get" \notin plan.yours
  <2>1. SUFFICES ASSUME "one.account" \in plan.yours PROVE todo # "gh.get"
    BY <1>6, <2>1 DEF SetupInv
  <2>2. "gh.get" \notin plan.yours /\ "gh.get" \notin plan.afterwards
    BY <2>1 DEF SetupInv
  <2>3. "gh.get" \notin Listed
    BY <1>4
  <2>4. QED
    BY <1>1, <2>2, <2>3
<1>9. (\A s \in ToSet(plan.steps) : Succeeded(s.id) => Runnable(s))'
  BY <1>1 DEF SetupInv, Succeeded, Runnable
<1>10. CleanRunIsReady'
  <2> SUFFICES ASSUME exit \notin {2, 130}, machine.os # "other", reached = {"hub", "gh"},
                      plan.yours \subseteq {"ufw.allow"},
                      \A s \in ToSet(plan.steps) : Succeeded(s.id)
               PROVE  exit = 0 /\ ("publish" \in Scope => machine'.hub = machine'.gh)
    BY <1>1, <1>6 DEF CleanRunIsReady, Succeeded, OneAccount, Scope
  <2>1. exit = 0 /\ ("publish" \in Scope => OneAccount)
    BY <1>1 DEF SetupInv, CleanRunIsReady
  <2>2. Listed = {}
    BY <1>1 DEF SetupInv, Listed, Runnable
  <2>3. todo # "ufw.allow"
    BY DEF Todos
  <2>4. todo \in {"rosetta.install", "colima.recreate", "podman.slow"}
    BY <1>1, <2>2, <2>3 DEF SetupInv
  <2>5. QED
    BY <1>6, <2>1, <2>4 DEF OneAccount
<1>11. QED
  BY <1>1, <1>7, <1>8, <1>9, <1>10 DEF SetupInv

LEMMA SetupInvInit == Init => SetupInv
<1> SUFFICES ASSUME Init PROVE SetupInv
  OBVIOUS
<1>1. machine \in Machine /\ opts \in Option
  BY SetupAssumption DEF Init
<1>2. plan = NoPlan /\ plan.steps = <<>> /\ plan \in Plans /\ plan.yours = {} /\ plan.afterwards = {}
  BY DEF Init, NoPlan, Plans
<1>3. ToSet(plan.steps) = {} /\ Len(plan.steps) = 0
  BY <1>2 DEF ToSet
<1>4. SetupTypeOK
  BY <1>1, <1>2, <1>3, SetupAssumption DEF Init, SetupTypeOK
<1>5. CleanRunIsReady
  BY DEF Init, CleanRunIsReady
<1>6. QED
  BY <1>2, <1>3, <1>4, <1>5 DEF Init, SetupInv

LEMMA SetupInvStep == SetupInv /\ [Next]_vars => SetupInv'
<1> SUFFICES ASSUME SetupInv, [Next]_vars PROVE SetupInv'
  OBVIOUS
<1>0. SetupTypeOK /\ MaxFaults \in Nat /\ faults \in 0..MaxFaults
  BY SetupAssumption DEF SetupInv, SetupTypeOK
<1>1. ASSUME NEW r \in Answers, NEW a \in Agents \union {"none"}, Launch(r, a) PROVE SetupInv'
  BY <1>1, LaunchKeepsInv
<1>2. CASE NotCovered
  <2>1. /\ phase = "idle" /\ phase' = "idle" /\ machine'.os = "other" /\ exit' = 1
        /\ UNCHANGED <<machine, opts, agent, plan, at, succeeded, reached, faults>>
    BY <1>2 DEF NotCovered
  <2>2. SetupTypeOK'
    BY <1>0, <2>1 DEF SetupTypeOK
  <2>3. CleanRunIsReady'
    BY <2>1 DEF CleanRunIsReady
  <2>4. QED
    BY <2>1, <2>2, <2>3 DEF SetupInv, Succeeded, Runnable
<1>3. CASE FinishUnrun
  <2>1. /\ phase = "planned" /\ phase' = "idle"
        /\ exit' = ExitCode(machine, opts.operator, reached)
        /\ UNCHANGED <<machine, opts, agent, plan, at, succeeded, reached>>
    BY <1>3 DEF FinishUnrun, Ends
  <2>2. faults' \in 0..MaxFaults
    BY <1>0, <1>3 DEF FinishUnrun, Costs, Fault
  <2>3. reached \in Answers /\ reached' = reached \intersect reached
    BY <1>0, <2>1 DEF Answers, SetupTypeOK
  <2>4. opts.operator = agent => agent # "none" \/ opts.operator = "none"
    OBVIOUS
  <2>5. QED
    BY <2>1, <2>2, <2>3, <2>4, EndKeepsInv
<1>4. CASE Begin
  <2>1. /\ phase # "idle" /\ phase' = "running" /\ succeeded' = succeeded
        /\ UNCHANGED <<machine, opts, agent, plan, at, succeeded, exit, reached, faults>>
    BY <1>4 DEF Begin
  <2>2. PICK m \in Machine : PlannedFor(m)
    BY <2>1 DEF SetupInv
  <2>3. PlannedFor(m)'
    <3>1. /\ BuildPlan(m, reached, agent)' = BuildPlan(m, reached, agent)
          /\ HubPlanned(m)' = HubPlanned(m) /\ GhPlanned(m, reached)' = GhPlanned(m, reached)
          /\ AgentsToSetUp(m)' = AgentsToSetUp(m)
      BY <2>1, SameOptions
    <3>2. RunSoFar'
      BY <2>1, <2>2 DEF PlannedFor, RunSoFar, Succeeded, Runnable, Distinct
    <3>3. Progress(m)'
      BY <2>1, <2>2, <3>1 DEF PlannedFor, Progress, Succeeded, OneAccount
    <3>4. QED
      BY <2>1, <2>2, <3>1, <3>2, <3>3 DEF PlannedFor
  <2>4. SetupTypeOK'
    BY <1>0, <2>1 DEF SetupTypeOK
  <2>5. QED
    BY <2>1, <2>3, <2>4 DEF SetupInv
<1>5. CASE PassBy \/ Skip
  <2>1. /\ More /\ Record(Current, FALSE) /\ faults' \in 0..MaxFaults
        /\ UNCHANGED <<machine, opts, phase, agent, plan, exit, reached>>
    BY <1>0, <1>5 DEF PassBy, Skip, Record
  <2>2. QED
    BY <2>1, NothingDone
<1>6. CASE StepFails
  <2>1. /\ More /\ Record(Current, FALSE) /\ Fault
        /\ UNCHANGED <<machine, opts, phase, agent, plan, exit, reached>>
    BY <1>6 DEF StepFails, Ready
  <2>2. faults' \in 0..MaxFaults
    BY <1>0, <2>1 DEF Fault
  <2>3. QED
    BY <2>1, <2>2, NothingDone
<1>7. CASE CompareAccounts
  BY <1>7, CompareKeepsInv
<1>8. ASSUME NEW who \in Accounts, Run(who) PROVE SetupInv'
  BY <1>8, RunKeepsInv
<1>9. ASSUME NEW got \in SUBSET Images, Pull(got) PROVE SetupInv'
  BY <1>9, PullKeepsInv
<1>10. ASSUME NEW r \in Answers, Finish(r) PROVE SetupInv'
  <2> DEFINE p == IF agent # "none" THEN agent ELSE opts.operator
  <2>1. /\ phase # "idle" /\ phase' = "idle" /\ exit' = ExitCode(machine, p, r)
        /\ reached' = reached \intersect r
        /\ UNCHANGED <<machine, opts, agent, plan, at, succeeded>>
    BY <1>10 DEF Finish, Ends
  <2>2. faults' \in 0..MaxFaults
    BY <1>0, <1>10 DEF Finish, Costs, Fault
  <2>3. p \in {opts.operator, agent} /\ (p = agent => agent # "none" \/ opts.operator = "none")
    OBVIOUS
  <2> HIDE DEF p
  <2>4. QED
    BY <2>1, <2>2, <2>3, EndKeepsInv
<1>11. CASE Interrupt
  <2>1. /\ phase # "idle" /\ phase' = "idle" /\ exit' = 130
        /\ UNCHANGED <<machine, opts, agent, plan, at, succeeded, reached>>
    BY <1>11 DEF Interrupt, Ends, More
  <2>2. faults' \in 0..MaxFaults
    BY <1>0, <1>11 DEF Interrupt, Fault
  <2>3. reached \in Answers /\ reached' = reached \intersect reached
    BY <1>0, <2>1 DEF Answers, SetupTypeOK
  <2>4. QED
    BY <2>1, <2>2, <2>3, EndKeepsInv
<1>12. ASSUME NEW todo \in Todos, PersonDoes(todo) PROVE SetupInv'
  BY <1>12, PersonKeepsInv
<1>13. CASE UNCHANGED vars
  <2>1. UNCHANGED <<machine, opts, phase, agent, plan, at, succeeded, exit, reached, faults>>
    BY <1>13 DEF vars
  <2>2. SetupTypeOK'
    BY <1>0, <2>1 DEF SetupTypeOK
  <2>3. Scope' = Scope
    BY <2>1 DEF Scope
  <2>4. CASE phase = "idle"
    <3>1. CleanRunIsReady'
      BY <2>1, <2>3, <2>4 DEF SetupInv, CleanRunIsReady, Succeeded, OneAccount
    <3>2. QED
      BY <2>1, <2>2, <2>4, <3>1 DEF SetupInv, Succeeded, Runnable
  <2>5. CASE phase # "idle"
    <3>1. PICK m \in Machine : PlannedFor(m)
      BY <2>5 DEF SetupInv
    <3>2. PlannedFor(m)'
      <4>1. /\ BuildPlan(m, reached, agent)' = BuildPlan(m, reached, agent)
            /\ HubPlanned(m)' = HubPlanned(m) /\ GhPlanned(m, reached)' = GhPlanned(m, reached)
            /\ AgentsToSetUp(m)' = AgentsToSetUp(m)
        BY <2>1, SameOptions
      <4>2. RunSoFar'
        BY <2>1, <3>1 DEF PlannedFor, RunSoFar, Succeeded, Runnable, Distinct
      <4>3. Progress(m)'
        BY <2>1, <3>1, <4>1 DEF PlannedFor, Progress, Succeeded, OneAccount
      <4>4. QED
        BY <2>1, <3>1, <4>1, <4>2, <4>3 DEF PlannedFor
    <3>3. QED
      BY <2>1, <2>2, <2>5, <3>2 DEF SetupInv
  <2>6. QED
    BY <2>4, <2>5
<1>14. QED
  BY <1>1, <1>2, <1>3, <1>4, <1>5, <1>6, <1>7, <1>8, <1>9, <1>10, <1>11, <1>12, <1>13
     DEF Next, Setup, Person

LEMMA SetupInductive == Spec => []SetupInv
<1>1. Init => SetupInv
  BY SetupInvInit
<1>2. SetupInv /\ [Next]_vars => SetupInv'
  BY SetupInvStep
<1>3. QED
  BY <1>1, <1>2, PTL DEF Spec

\* The machine, the plan and what was done keep their types (setup/plan.py, setup/run.py).
THEOREM SetupTyped == Spec => []SetupTypeOK
<1>1. SetupInv => SetupTypeOK
  BY DEF SetupInv
<1>2. QED
  BY <1>1, SetupInductive, PTL

\* Whatever the machine, the options and the number of faults: a run of which
\* every step succeeded, and that left nothing blocking to the person, exits 0
\* with one account on both sides of publishing.
THEOREM CleanRunsAreReady == Spec => []CleanRunIsReady
<1>1. SetupInv => CleanRunIsReady
  BY DEF SetupInv, SetupTypeOK, CleanRunIsReady
<1>2. QED
  BY <1>1, SetupInductive, PTL
=============================================================================

------------------------------- MODULE Setup -------------------------------
(***************************************************************************)
(* `nethackers setup`: check the machine, build a plan, ask once, run the  *)
(* steps in order, check again, exit.  A machine is a record of what the   *)
(* probes of setup/host.py, containers.py and diagnostics.py can see; the  *)
(* recipes of setup/macos.py and setup/linux.py are the ways it changes.   *)
(* What a recipe does to a machine belongs to brew, colima, docker, gh and *)
(* the agents' installers, and is modelled from what setup counts on.      *)
(*                                                                         *)
(* Between two runs of setup the person does what the last one left to     *)
(* them.  MaxFaults bounds the failed steps, interrupts, refusals, silent  *)
(* services and wrong accounts of a behaviour.                             *)
(***************************************************************************)
EXTENDS Naturals, Sequences, SequencesExt

CONSTANTS
  Machines,   \* the machines setup is first run on
  Options,    \* [scope, operator, yes, interactive]: how setup is called
  MaxFaults

Capabilities == {"eval", "evolve", "publish", "browse"}
CheckIds == {"container_runtime", "arena_image", "mutator_image", "hub", "hub_login",
             "gh", "operator"}
Agents == {"claude", "codex", "opencode2"}
NoPlan == [steps |-> <<>>, yours |-> {}, afterwards |-> {}]

\* Runtimes, their commands and daemons, and the contexts of docker.
Engines == {"docker", "dockerd", "podman", "desktop", "orbstack", "colima", "default"}
Images == {"arena", "mutator"}
Accounts == {"me", "other"}

\* What the probes can see of a machine; gh and hub hold the account logged in.
Machine ==
  [os : {"mac", "linux", "other"}, brew : BOOLEAN,
   rosetta : {"present", "missing", "not needed"},
   installed : SUBSET Engines, running : SUBSET Engines, context : Engines,
   colimaVm : BOOLEAN, qemu : BOOLEAN, podmanMachine : BOOLEAN, desktopCli : BOOLEAN,
   denied : BOOLEAN, ufw : BOOLEAN, images : SUBSET ({"docker", "podman"} \X Images),
   gh : {"missing", "unauthed"} \union Accounts, hub : {"none"} \union Accounts,
   agents : SUBSET Agents, logins : SUBSET Agents, curl : BOOLEAN]
Option == [scope : Capabilities \union {"all"}, operator : Agents \union {"none"},
           yes : BOOLEAN, interactive : BOOLEAN]

ASSUME SetupAssumption ==
  /\ \A m \in Machines : m \in Machine
  /\ Options \subseteq Option
  /\ MaxFaults \in Nat

VARIABLES
  machine,    \* what is installed, running and logged in
  opts,       \* the options setup is called with, each time
  phase,      \* "idle" | "planned" | "running"
  agent,      \* the coding agent this run sets up, or "none"
  plan,       \* the plan of the last run
  at,         \* the position in the plan of the step to be tried
  succeeded,  \* the ids of the steps that did; the rest failed or were skipped
  exit,       \* the last exit code; 2 before the first, 130 when interrupted
  reached,    \* which of "hub" and "gh" answered all of this run's checks
  faults

vars == <<machine, opts, phase, agent, plan, at, succeeded, exit, reached, faults>>

Fault == faults < MaxFaults /\ faults' = faults + 1
Costs(bad) == IF bad THEN Fault ELSE UNCHANGED faults

\* --------------------------- the probes ---------------------------------
\* A runtime that is on PATH with nothing behind it is not usable.
DockerAnswers(m) ==
  /\ "docker" \in m.installed
  /\ IF m.os = "mac" THEN m.context \in m.running ELSE "dockerd" \in m.running /\ ~m.denied
PodmanAnswers(m) == "podman" \in m.installed /\ "podman" \in m.running

Runtime(m) ==
  CASE DockerAnswers(m) -> "docker" [] ~DockerAnswers(m) /\ PodmanAnswers(m) -> "podman"
    [] OTHER -> "none"

AgentReady(m, a) == a = "opencode2" \/ a \in m.logins
ImageHere(m, kind) == Runtime(m) # "none" /\ <<Runtime(m), kind>> \in m.images
GhState(m, r) == IF m.gh = "missing" THEN "missing"
                 ELSE IF "gh" \notin r THEN "unknown"
                 ELSE IF m.gh = "unauthed" THEN "unauthed" ELSE "authed"

\* --------------------------- the checks ---------------------------------
Hard == {"container_runtime", "arena_image", "mutator_image", "operator"}
CapabilitiesOf(c) ==
  CASE c \in {"container_runtime", "arena_image"} -> {"eval", "evolve"}
    [] c \in {"mutator_image", "operator"} -> {"evolve"}
    [] c = "hub" -> {"browse", "publish"}
    [] c \in {"hub_login", "gh"} -> {"publish"}

\* run_checks: the checks that do not fail.  A hard check that warns counts as
\* not ok; the only soft one that warns is a gh that did not answer in time,
\* which gates nothing.
Passing(m, operator, r) ==
  {c \in CheckIds :
     CASE c = "container_runtime" -> Runtime(m) # "none"
       [] c = "arena_image" -> ImageHere(m, "arena")
       [] c = "mutator_image" -> ImageHere(m, "mutator")
       [] c = "hub" -> "hub" \in r
       [] c = "hub_login" -> m.hub # "none"
       [] c = "gh" -> GhState(m, r) \in {"authed", "unknown"}
       [] c = "operator" -> IF operator = "none" THEN \E a \in Agents : AgentReady(m, a)
                            ELSE AgentReady(m, operator)}

\* Hard checks gate a capability that has any; else its soft ones do.
CapabilityReady(passing, cap) ==
  LET tagged == {c \in CheckIds : cap \in CapabilitiesOf(c)}
  IN (IF tagged \intersect Hard # {} THEN tagged \intersect Hard ELSE tagged) \subseteq passing

Scope == IF opts.scope = "all" THEN Capabilities ELSE {opts.scope}
Wanted(c) == CapabilitiesOf(c) \intersect Scope # {}
ExitCode(m, operator, r) ==
  IF \A cap \in Scope : CapabilityReady(Passing(m, operator, r), cap) THEN 0 ELSE 1

\* --------------------------- the recipes --------------------------------
\* Those setup runs itself; every other one is printed for the person.
ByNethackers == {"colima.install", "colima.start", "desktop.start", "orbstack.start",
                 "podman.start", "gh.install"}

\* Which installed runtime this Mac's docker is set up to use.
ActiveProvider(m) ==
  LET there == SelectSeq(<<"desktop", "orbstack", "colima", "podman">>,
                         LAMBDA p : p \in m.installed)
  IN IF m.context \in m.installed THEN m.context
     ELSE IF there = <<>> THEN "none" ELSE Head(there)

NewColimaVm(m) == IF m.rosetta = "missing" THEN <<"rosetta.install">> ELSE <<"colima.start">>

MacRuntimeRecipes(m) ==
  LET p == ActiveProvider(m)
  IN CASE p = "colima" -> IF m.colimaVm THEN <<"colima.start">> ELSE NewColimaVm(m)
       [] p = "desktop" -> IF m.desktopCli THEN <<"desktop.start">> ELSE <<"desktop.open">>
       [] p = "orbstack" -> <<"orbstack.start">>
       [] p = "podman" -> IF m.podmanMachine THEN <<"podman.start">> ELSE <<"podman.init">>
       [] OTHER -> IF m.brew THEN <<"colima.install">> \o NewColimaVm(m) ELSE <<"runtime.get">>

\* Slip: a daemon that refuses this user taken for one that is not running.
LinuxRuntimeRecipesUngrouped(m) ==
  CASE "docker" \in m.installed -> <<"docker.start">>
    [] {"docker", "podman"} \intersect m.installed = {"podman"} -> <<"podman.fix">>
    [] OTHER -> <<"docker.install">>

LinuxRuntimeRecipes(m) ==
  CASE "docker" \in m.installed -> IF "dockerd" \in m.running THEN <<"docker.group">>
                                   ELSE <<"docker.start">>
    [] {"docker", "podman"} \intersect m.installed = {"podman"} -> <<"podman.fix">>
    [] OTHER -> <<"docker.install">>

RuntimeRecipes(m) == IF Runtime(m) # "none" THEN <<>>
                     ELSE IF m.os = "mac" THEN MacRuntimeRecipes(m) ELSE LinuxRuntimeRecipes(m)

GhInstall(m) == IF m.os = "mac" /\ m.brew THEN "gh.install" ELSE "gh.get"

\* The advice on amd64 emulation: what turns Rosetta on where it is known off.
\* Docker Desktop's own setting is left out: it touches nothing the probes see.
Emulation(m) ==
  CASE m.os # "mac" \/ m.rosetta = "not needed" -> {}
    [] m.os = "mac" /\ m.rosetta = "missing" -> {"rosetta.install"}
    [] OTHER -> CASE ActiveProvider(m) = "colima" /\ m.colimaVm /\ m.qemu -> {"colima.recreate"}
                  [] ActiveProvider(m) = "podman" -> {"podman.slow"}
                  [] OTHER -> {}

\* --------------------------- the plan -----------------------------------
Step(id, kind, needs, images) == [id |-> id, kind |-> kind, needs |-> needs, images |-> images]
When(c, s) == IF c THEN s ELSE <<>>
NeedsTerminal == {"hub_login", "terminal"}

HubPlanned(m) == Wanted("hub_login") /\ m.hub = "none"
GhStepped(m, r) == Wanted("gh") /\ GhState(m, r) = "missing" /\ GhInstall(m) \in ByNethackers
GhPlanned(m, r) == Wanted("gh") /\ (GhState(m, r) = "unauthed" \/ GhStepped(m, r))

HubSteps(m) == When(HubPlanned(m), <<Step("hub-login", "hub_login", {}, {})>>)

GhSteps(m, r) ==
  When(GhStepped(m, r), <<Step("gh.install", "captured", {}, {})>>)
    \o When(GhPlanned(m, r), <<Step("gh-login", "terminal",
                                    IF GhStepped(m, r) THEN {"gh.install"} ELSE {}, {})>>)

\* Slip: compared only when both logins are planned.
AccountStepsOfBoth(m, r) ==
  When(HubPlanned(m) /\ GhPlanned(m, r),
       <<Step("same-account", "same_account", {"hub-login", "gh-login"}, {})>>)

\* Compared by a step when a login of this run decides it, else right away.
AccountSteps(m, r) ==
  When(/\ HubPlanned(m) \/ GhPlanned(m, r)
       /\ Wanted("gh") /\ (GhState(m, r) = "authed" \/ GhPlanned(m, r)),
       <<Step("same-account", "same_account",
              {s \in {"hub-login"} : HubPlanned(m)} \union {s \in {"gh-login"} : GhPlanned(m, r)},
              {})>>)
Mismatched(m, r) == /\ Wanted("gh") /\ AccountSteps(m, r) = <<>>
                    /\ m.hub # "none" /\ GhState(m, r) = "authed" /\ m.hub # m.gh

AgentSteps(m, a) ==
  LET fresh == a # "none" /\ a \notin m.agents /\ a # "opencode2"
  IN When(fresh, <<Step("agent-install", "captured", {}, {})>>)
       \o When(a # "none" /\ ~AgentReady(m, a),
               <<Step("agent-login", "terminal", IF fresh THEN {"agent-install"} ELSE {}, {})>>)

\* Each runtime step needs the one before; the pull needs the last of them.  A
\* recipe left to the person is always the last.
RuntimeSteps(m) ==
  LET recipes == When(Wanted("container_runtime"), RuntimeRecipes(m))
      mine == IF recipes # <<>> /\ Last(recipes) \notin ByNethackers
              THEN Front(recipes) ELSE recipes
  IN [i \in DOMAIN mine |->
        Step(mine[i], "captured", IF i = 1 THEN {} ELSE {mine[i - 1]}, {})]

RuntimeYours(m) == IF Wanted("container_runtime")
                   THEN {x \in ToSet(RuntimeRecipes(m)) : x \notin ByNethackers} ELSE {}

ImageCheck(kind) == IF kind = "arena" THEN "arena_image" ELSE "mutator_image"

PullSteps(m) ==
  LET pulls == {k \in Images : Wanted(ImageCheck(k)) /\ ~ImageHere(m, k)}
      runtime == RuntimeSteps(m)
  IN When(/\ pulls # {}
          /\ Runtime(m) # "none" \/ (runtime # <<>> /\ RuntimeYours(m) = {}),
          <<Step("pull", "pull", IF runtime = <<>> THEN {} ELSE {Last(runtime).id}, pulls)>>)

ImpersonationSteps(m, a) ==
  When(a = "codex" /\ ~m.curl, <<Step("impersonation", "captured", {}, {})>>)

BuildPlan(m, r, a) ==
  LET evolve == "evolve" \in Scope
      yours == {x \in {"gh.get"} : Wanted("gh") /\ GhState(m, r) = "missing" /\ ~GhStepped(m, r)}
               \union {x \in {"one.account"} : Mismatched(m, r)} \union RuntimeYours(m)
               \union {x \in {"ufw.allow"} : evolve /\ m.ufw /\ m.os = "linux"
                                             /\ Runtime(m) # "podman"}
  IN [steps |-> HubSteps(m) \o GhSteps(m, r) \o AccountSteps(m, r)
                \o When(evolve, AgentSteps(m, a)) \o RuntimeSteps(m) \o PullSteps(m)
                \o ImpersonationSteps(m, a),
      yours |-> yours,
      afterwards |-> (IF Scope \intersect {"eval", "evolve"} # {} THEN Emulation(m) ELSE {})
                     \ yours]

\* --operator, else an agent already logged in, else the person is asked.
AgentsToSetUp(m) ==
  CASE "evolve" \notin Scope -> {"none"}
    [] "evolve" \in Scope /\ opts.operator # "none" -> {opts.operator}
    [] "evolve" \in Scope /\ opts.operator = "none" ->
         CASE "claude" \in m.logins -> {"claude"}
           [] m.logins = {"codex"} -> {"codex"}
           [] OTHER -> IF opts.interactive /\ ~opts.yes THEN Agents ELSE {"none"}

\* --------------------------- the recipes' effects -----------------------
Starts(m, engine) == [m EXCEPT !.running = @ \union {engine}, !.context = engine]

\* What a successful step leaves behind; `who` is the account a login ends in.
After(id, who, m) ==
  CASE id = "hub-login" -> [m EXCEPT !.hub = who]
    [] id = "gh-login" -> [m EXCEPT !.gh = who]
    [] id = "gh.install" -> [m EXCEPT !.gh = "unauthed"]
    [] id = "agent-install" -> [m EXCEPT !.agents = @ \union {agent}]
    [] id = "agent-login" -> [m EXCEPT !.logins = @ \union {agent}]
    [] id = "impersonation" -> [m EXCEPT !.curl = TRUE]
    [] id = "colima.install" -> [m EXCEPT !.installed = @ \union {"colima", "docker"}]
    [] id = "colima.start" -> [Starts(m, "colima") EXCEPT !.colimaVm = TRUE,
                                                         !.qemu = m.colimaVm /\ m.qemu]
    [] id = "desktop.start" -> Starts(m, "desktop")
    [] id = "orbstack.start" -> Starts(m, "orbstack")
    [] id = "podman.start" -> [m EXCEPT !.running = @ \union {"podman"}]
    [] OTHER -> m

\* What a machine becomes when the person does what was printed.
AfterPerson(todo, m) ==
  CASE todo = "rosetta.install" -> {[m EXCEPT !.rosetta = "present"]}
    [] todo = "desktop.open" -> {[Starts(m, "desktop") EXCEPT !.desktopCli = TRUE,
                                                             !.installed = @ \union {"docker"}]}
    [] todo = "podman.init" -> {[m EXCEPT !.podmanMachine = TRUE,
                                          !.running = @ \union {"podman"}]}
    [] todo = "podman.fix" -> {[m EXCEPT !.running = @ \union {"podman"}]}
    [] todo = "podman.slow" -> {[m EXCEPT !.installed = @ \union {"colima", "docker"}]}
    [] todo = "runtime.get" -> {[m EXCEPT !.brew = TRUE],
                                [m EXCEPT !.installed = @ \union {"desktop"}]}
    [] todo = "colima.recreate" -> {[m EXCEPT !.colimaVm = FALSE, !.context = "default",
                                              !.running = @ \ {"colima"}, !.images = {}]}
    [] todo = "docker.install" -> {[m EXCEPT !.installed = @ \union {"docker"}, !.denied = d,
                                             !.running = @ \union {"dockerd"}] : d \in BOOLEAN}
    [] todo = "docker.start" -> {[m EXCEPT !.running = @ \union {"dockerd"}]}
    [] todo = "docker.group" -> {[m EXCEPT !.denied = FALSE]}
    [] todo = "gh.get" -> {[m EXCEPT !.gh = "unauthed"]}
    [] todo = "one.account" -> {[m EXCEPT !.hub = m.gh]}
    [] todo \in {"hub-login", "gh-login", "agent-login"} -> {After(todo, "me", m)}
    [] OTHER -> {}

\* --------------------------- a run --------------------------------------
Init ==
  /\ machine \in Machines
  /\ opts \in Options
  /\ phase = "idle"
  /\ agent = "none"
  /\ plan = NoPlan
  /\ at = 1
  /\ succeeded = {}
  /\ exit = 2
  /\ reached = {"hub", "gh"}
  /\ faults = 0

\* The checks and the plan: read once, before anything is changed.
Launch(r, a) ==
  /\ phase = "idle"
  /\ machine.os # "other"
  /\ Costs(r # {"hub", "gh"})
  /\ a \in AgentsToSetUp(machine)
  /\ reached' = r
  /\ agent' = a
  /\ plan' = BuildPlan(machine, r, a)
  /\ phase' = "planned"
  /\ at' = 1
  /\ succeeded' = {}
  /\ UNCHANGED <<machine, opts, exit>>

NotCovered ==
  /\ phase = "idle"
  /\ machine.os = "other"
  /\ exit' = 1
  /\ UNCHANGED <<machine, opts, phase, agent, plan, at, succeeded, reached, faults>>

Ends(code) == phase' = "idle" /\ exit' = code

\* Only instructions, or a run nobody said yes to: the first checks decide.
FinishUnrun ==
  /\ phase = "planned"
  /\ \/ plan.steps = <<>> \/ (~opts.interactive /\ ~opts.yes)
     \/ opts.interactive /\ ~opts.yes /\ faults < MaxFaults
  /\ Costs(plan.steps # <<>> /\ opts.interactive)
  /\ Ends(ExitCode(machine, opts.operator, reached))
  /\ UNCHANGED <<machine, opts, agent, plan, at, succeeded, reached>>

Begin ==
  /\ phase = "planned"
  /\ plan.steps # <<>>
  /\ opts.interactive \/ opts.yes
  /\ phase' = "running"
  /\ UNCHANGED <<machine, opts, agent, plan, at, succeeded, exit, reached, faults>>

Current == plan.steps[at]
More == phase = "running" /\ at <= Len(plan.steps)

\* Without a terminal the logins are listed instead of run.
Runnable(s) == opts.interactive \/ s.kind \notin NeedsTerminal

PassBy ==
  /\ More /\ ~Runnable(Current)
  /\ at' = at + 1
  /\ UNCHANGED <<machine, opts, phase, agent, plan, succeeded, exit, reached, faults>>

Succeeded(id) == id \in succeeded
Record(s, ok) == /\ succeeded' = succeeded \union {id \in {s.id} : ok}
                 /\ at' = at + 1

Ready == More /\ Runnable(Current) /\ \A id \in Current.needs : Succeeded(id)

Skip ==
  /\ More /\ Runnable(Current)
  /\ \E id \in Current.needs : ~Succeeded(id)
  /\ Record(Current, FALSE)
  /\ UNCHANGED <<machine, opts, phase, agent, plan, exit, reached, faults>>

\* A login may end in another account than the first one did.
Run(who) ==
  /\ Ready
  /\ Current.kind \in {"hub_login", "terminal", "captured"}
  /\ machine' = After(Current.id, who, machine)
  /\ Costs(who # "me")
  /\ Record(Current, TRUE)
  /\ UNCHANGED <<opts, phase, agent, plan, exit, reached>>

CompareAccounts ==
  /\ Ready
  /\ Current.kind = "same_account"
  /\ Record(Current, machine.hub = machine.gh)
  /\ UNCHANGED <<machine, opts, phase, agent, plan, exit, reached, faults>>

\* The images go to the runtime that answers now, which need not be the one
\* the plan saw; the first that cannot be had ends the step.
Pull(got) ==
  /\ Ready
  /\ Current.kind = "pull"
  /\ got \subseteq Current.images
  /\ Runtime(machine) = "none" => got = {}
  /\ Costs(Runtime(machine) # "none" /\ got # Current.images)
  /\ machine' = [machine EXCEPT !.images = @ \union {<<Runtime(machine), k>> : k \in got}]
  /\ Record(Current, got = Current.images)
  /\ UNCHANGED <<opts, phase, agent, plan, exit, reached>>

\* A failed step never stops the others.  The comparison fails also where gh,
\* asked again, does not answer.
StepFails ==
  /\ Ready
  /\ Current.kind \in {"hub_login", "terminal", "captured", "same_account"}
  /\ Fault
  /\ Record(Current, FALSE)
  /\ UNCHANGED <<machine, opts, phase, agent, plan, exit, reached>>

\* Ctrl-C goes through every step to the command line.
Interrupt ==
  /\ phase = "planned" \/ More
  /\ Fault
  /\ Ends(130)
  /\ UNCHANGED <<machine, opts, agent, plan, at, succeeded, reached>>

\* The checks once more, of the agent that was set up.
Finish(r) ==
  /\ phase = "running" /\ ~More
  /\ Costs(r # {"hub", "gh"})
  /\ reached' = reached \intersect r
  /\ Ends(ExitCode(machine, IF agent # "none" THEN agent ELSE opts.operator, r))
  /\ UNCHANGED <<machine, opts, agent, plan, at, succeeded>>

Listed == {s.id : s \in {x \in ToSet(plan.steps) : opts.yes /\ ~opts.interactive
                                                   /\ x.kind \in NeedsTerminal}}
PersonDoes(todo) ==
  /\ phase = "idle" /\ exit # 130
  /\ todo \in plan.yours \union plan.afterwards \union Listed
  /\ todo = "gh-login" => machine.gh # "missing"
  /\ todo = "agent-login" => agent \in machine.agents
  /\ \E m \in AfterPerson(todo, machine) : m # machine /\ machine' = m
  /\ UNCHANGED <<opts, phase, agent, plan, at, succeeded, exit, reached, faults>>

Todos == {"rosetta.install", "desktop.open", "podman.init", "podman.fix", "podman.slow",
          "runtime.get", "colima.recreate", "docker.install", "docker.start", "docker.group",
          "gh.get", "one.account", "hub-login", "gh-login", "agent-login"}
Person == \E todo \in Todos : PersonDoes(todo)
Answers == SUBSET {"hub", "gh"}

Setup ==
  \/ \E r \in Answers, a \in Agents \union {"none"} : Launch(r, a)
  \/ NotCovered \/ FinishUnrun \/ Begin \/ PassBy \/ Skip \/ CompareAccounts
  \/ \E who \in Accounts : Run(who)
  \/ \E got \in SUBSET Images : Pull(got)
  \/ \E r \in Answers : Finish(r)

Next == Setup \/ StepFails \/ Interrupt \/ Person

\* The person runs setup again until it has nothing left to say, and in the
\* end does what it keeps printing.
Fairness == WF_vars(Setup) /\ SF_vars(Person)
Spec == Init /\ [][Next]_vars /\ Fairness

\* --------------------------- what must hold -----------------------------
\* The two logins publish compares are of one account.
OneAccount == machine.hub = machine.gh

\* A run whose every planned step succeeded, and that left nothing blocking
\* to the person, leaves a machine that is ready for all it was asked for:
\* the plan misses nothing the checks fail on (setup/plan.py build_plan,
\* diagnostics.py run_checks).
CleanRunIsReady ==
  (/\ phase = "idle" /\ exit \notin {2, 130} /\ machine.os # "other" /\ reached = {"hub", "gh"}
   /\ plan.yours \subseteq {"ufw.allow"}
   /\ \A s \in ToSet(plan.steps) : Succeeded(s.id))
  => exit = 0 /\ ("publish" \in Scope => OneAccount)

\* Failures, interrupts and wrong accounts only delay: run again and again,
\* setup ends in a machine ready for its scope, with one account
\* (docs/setup.md:66-67, "It picks up where it left off").  It does not
\* hold of the machines that RuntimeAnswers tells of.
SetupConverges ==
  (machine.os # "other" /\ (opts.interactive \/ opts.yes))
    => <>[](exit = 0 /\ ("publish" \in Scope => OneAccount))

\* "What gets a container runtime answering on this Mac" (setup/macos.py:179):
\* whoever wants a runtime on a Mac has one in the end.  It does not hold of a
\* Mac that has Colima and not the docker command: Colima is started each time,
\* and the command comes only with an installation of Colima.
RuntimeAnswers ==
  (/\ machine.os = "mac" /\ Wanted("container_runtime")
   /\ opts.interactive \/ opts.yes)
    => <>(Runtime(machine) # "none")

\* Doing what the Podman advice says, then running setup again, ends with
\* docker answering (setup/macos.py PODMAN_SLOW).  It does not hold: see the
\* README.
AdviceIsHeeded ==
  /\ phase = "idle" /\ exit = 0 /\ plan = NoPlan
  /\ {"colima", "podman"} \subseteq machine.installed
  => Runtime(machine) = "docker"
=============================================================================

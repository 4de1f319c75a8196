------------------------------ MODULE MCSetup ------------------------------
EXTENDS Setup

\* A new Mac with Homebrew, logged in to nothing.
Mac == [os |-> "mac", brew |-> TRUE, rosetta |-> "present", installed |-> {}, running |-> {},
        context |-> "default", colimaVm |-> FALSE, qemu |-> FALSE, podmanMachine |-> FALSE,
        desktopCli |-> FALSE, denied |-> FALSE, ufw |-> FALSE, images |-> {}, gh |-> "missing",
        hub |-> "none", agents |-> {}, logins |-> {}, curl |-> FALSE]
Linux == [Mac EXCEPT !.os = "linux", !.brew = FALSE, !.rosetta = "not needed"]
With(m, there, context) == [m EXCEPT !.installed = there, !.context = context]

Logins(m) == {[m EXCEPT !.gh = g, !.hub = h] :
                g \in {"missing", "unauthed", "me"}, h \in {"none", "other"}}

Fresh == {Mac, [Mac EXCEPT !.rosetta = "missing"], [Mac EXCEPT !.brew = FALSE], Linux,
          [Linux EXCEPT !.ufw = TRUE]}
Stopped == {With(Mac, {"desktop"}, "default"),
            [With(Mac, {"desktop", "docker"}, "desktop") EXCEPT !.desktopCli = TRUE],
            With(Mac, {"orbstack", "docker"}, "orbstack"),
            [With(Mac, {"colima", "docker"}, "colima") EXCEPT !.colimaVm = TRUE, !.qemu = TRUE],
            With(Mac, {"podman"}, "default"),
            With(Linux, {"docker"}, "default"), With(Linux, {"podman"}, "default")}
Answering == {[With(Mac, {"podman"}, "default") EXCEPT !.podmanMachine = TRUE,
                                                       !.running = {"podman"}],
              [With(Linux, {"docker"}, "default") EXCEPT !.running = {"dockerd"},
                                                         !.denied = TRUE]}
LoggedIn == {[m EXCEPT !.agents = {"codex"}, !.logins = {"codex"}] : m \in Fresh}

AllMachines == UNION {Logins(m) : m \in {Mac, Linux}} \union Fresh \union Stopped \union Answering
               \union LoggedIn \union {[Mac EXCEPT !.os = "other"]}

\* Colima by itself: the docker command is a package of its own.
WithoutDocker == {With(Mac, {"colima"}, "default")}

How(scope, operator, yes, interactive) ==
  [scope |-> scope, operator |-> operator, yes |-> yes, interactive |-> interactive]
AllOptions == {How("all", "none", FALSE, TRUE), How("all", "codex", TRUE, FALSE),
               How("eval", "none", TRUE, FALSE), How("publish", "none", FALSE, TRUE),
               How("evolve", "claude", FALSE, FALSE)}
=============================================================================

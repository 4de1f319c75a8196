-------------------------------- MODULE Mutator --------------------------------
(***************************************************************************)
(* One iteration's mutator of every evolve run on a machine: the launch     *)
(* that names the run (harness.launch.prepare_evolve, runlog.run_id), the   *)
(* provider login and its refresh (harness.auth_inject), the credential     *)
(* brokers (harness.cred_broker), the `docker run` client and its container *)
(* (harness.container_operator) and the stream that meters it               *)
(* (harness.operator.run_operator).                                         *)
(*                                                                         *)
(* Three threads of a run touch the same processes: the run's own, which    *)
(* reads the client's output; run_operator's watcher, which kills the       *)
(* client; and ContainerOperator's watcher, which kills the container.      *)
(* The container runtime is a fourth party: a client asks for a container   *)
(* and the runtime brings it up some time later.                            *)
(***************************************************************************)
EXTENDS Naturals, FiniteSets

CONSTANTS
    Runs,         \* the runs of the machine
    MaxBrokers,   \* bound: brokers of one run (providers of opencode2)
    MaxFaults     \* bound: failed starts, lost answers and failed saves

ASSUME MutatorAssumption ==
    /\ MaxBrokers \in Nat \ {0} /\ MaxFaults \in Nat
    /\ IsFiniteSet(Runs)

VARIABLES
    dirs,       \* the run directories on disk, by run id
    id,         \* id[r]: the id run r has chosen, NoId before
    pc,         \* pc[r]: where the run's own thread is
    serving,    \* serving[r]: the brokers that serve
    stop,       \* stop[r]: the run's stop event
    killed,     \* killed[r]: run_operator's watcher has killed the client
    watcher,    \* watcher[r]: ContainerOperator's watcher thread
    client,     \* client[r]: the `docker run` process
    box,        \* box[r]: the container run r has asked for
    outcome,    \* outcome[r]: what the operator call ended as
    login,      \* the login the provider's CLI keeps on disk
    issued,     \* the last login the provider issued
    stale,      \* the login on disk is near its expiry
    held,       \* held[r]: the login run r got and has not stored yet
    faults

launch == <<dirs, id>>
provider == <<login, issued, stale, held>>
processes == <<client, box>>
vars == <<launch, pc, serving, stop, killed, watcher, processes, outcome, provider, faults>>

NoId == 0
Attached == {"asking", "attached"}      \* the client runs
Up == {"up", "orphan"}                  \* the container runs, with or without it

Init ==
    /\ dirs = {}
    /\ id = [r \in Runs |-> NoId]
    /\ pc = [r \in Runs |-> "new"]
    /\ serving = [r \in Runs |-> 0]
    /\ stop = [r \in Runs |-> FALSE]
    /\ killed = [r \in Runs |-> FALSE]
    /\ watcher = [r \in Runs |-> "off"]
    /\ client = [r \in Runs |-> "none"]
    /\ box = [r \in Runs |-> "none"]
    /\ outcome = [r \in Runs |-> "none"]
    /\ login = 1 /\ issued = 1 /\ stale = FALSE
    /\ held = [r \in Runs |-> 0]
    /\ faults = 0

At(r, here) == pc[r] = here
Goto(r, there) == pc' = [pc EXCEPT ![r] = there]
End(r, how) == outcome' = [outcome EXCEPT ![r] = how]
Fault == faults < MaxFaults /\ faults' = faults + 1

-----------------------------------------------------------------------------
(* The launch.                                                              *)
\* The ids of one second are base, base-1, base-2 ...: here 1, 2, 3 ...  The
\* first that is no directory yet.
FreeId == CHOOSE n \in 1 .. Cardinality(dirs) + 1 :
    n \notin dirs /\ 1 .. n - 1 \subseteq dirs

ChooseId(r) ==
    /\ At(r, "new") /\ Goto(r, "named")
    /\ id' = [id EXCEPT ![r] = FreeId]
    /\ UNCHANGED <<dirs, serving, stop, killed, watcher, processes, outcome,
                   provider, faults>>

\* The images are inspected before the directory exists: a moment, or seconds.
WriteRunDir(r) ==
    /\ At(r, "named") /\ Goto(r, "ready")
    /\ dirs' = dirs \cup {id[r]}
    /\ UNCHANGED <<id, serving, stop, killed, watcher, processes, outcome,
                   provider, faults>>

\* The container's name carries the run id.  The slip is the name the worktree
\* alone would give.
NameOfWorktree(r) == 1
Name(r) == id[r]

RequestStop(r) ==
    /\ pc[r] \notin {"new", "named", "over"} /\ ~stop[r]
    /\ stop' = [stop EXCEPT ![r] = TRUE]
    /\ UNCHANGED <<launch, pc, serving, killed, watcher, processes, outcome, provider,
                   faults>>

\* A run stopped between two iterations starts no other.
Skip(r) ==
    /\ At(r, "ready") /\ stop[r] /\ Goto(r, "over")
    /\ UNCHANGED <<launch, serving, stop, killed, watcher, processes, outcome, provider,
                   faults>>

-----------------------------------------------------------------------------
(* The provider's login and the brokers.                                    *)
\* No broker: the login is mounted.  One, of claude or codex: its login may
\* have to be refreshed.  One for every provider of opencode2: keys, no login.
Begin(r) ==
    /\ At(r, "ready") /\ ~stop[r]
    /\ \E there \in {"launch", "auth", "brokers"} : Goto(r, there)
    /\ UNCHANGED <<launch, serving, stop, killed, watcher, processes, outcome, provider,
                   faults>>

\* Every way out of the call before the client runs: the outer finally.
Abandon(r) == Goto(r, "stopping") /\ End(r, "error")

Credential(r) ==
    /\ At(r, "auth")
    /\ Goto(r, IF stale THEN "exchange" ELSE "broker")
    /\ UNCHANGED <<launch, serving, stop, killed, watcher, processes, outcome, provider,
                   faults>>

\* The slip that hands the new token to the broker and leaves the login alone.
ExchangeUnsaved(r) ==
    /\ At(r, "exchange") /\ login = issued
    /\ issued' = issued + 1
    /\ held' = [held EXCEPT ![r] = issued + 1]
    /\ Goto(r, "broker")
    /\ UNCHANGED <<launch, serving, stop, killed, watcher, processes, outcome, login,
                   stale, faults>>

\* The login is read again and its single-use refresh token exchanged.
Exchange(r) ==
    /\ At(r, "exchange") /\ login = issued
    /\ issued' = issued + 1
    /\ held' = [held EXCEPT ![r] = issued + 1]
    /\ Goto(r, "save")
    /\ UNCHANGED <<launch, serving, stop, killed, watcher, processes, outcome, login,
                   stale, faults>>

ExchangeRefused(r) ==
    /\ At(r, "exchange") /\ login /= issued
    /\ Abandon(r)
    /\ UNCHANGED <<launch, serving, stop, killed, watcher, processes, provider, faults>>

\* The provider cannot be reached, or its answer is lost after the exchange.
ExchangeFails(r) ==
    /\ At(r, "exchange") /\ Fault /\ Abandon(r)
    /\ issued' \in {issued} \cup (IF login = issued THEN {issued + 1} ELSE {})
    /\ UNCHANGED <<launch, serving, stop, killed, watcher, processes, login, stale, held>>

Save(r) ==
    /\ At(r, "save") /\ Goto(r, "broker")
    /\ login' = held[r] /\ stale' = FALSE
    /\ held' = [held EXCEPT ![r] = 0]
    /\ UNCHANGED <<launch, serving, stop, killed, watcher, processes, outcome, issued,
                   faults>>

SaveFails(r) ==
    /\ At(r, "save") /\ Fault /\ Abandon(r)
    /\ held' = [held EXCEPT ![r] = 0]
    /\ UNCHANGED <<launch, serving, stop, killed, watcher, processes, login, issued, stale>>

Lapse ==
    /\ ~stale /\ stale' = TRUE
    /\ UNCHANGED <<launch, pc, serving, stop, killed, watcher, processes, outcome, login,
                   issued, held, faults>>

Wanted(r) == IF At(r, "broker") THEN {1} ELSE IF At(r, "brokers") THEN 1 .. MaxBrokers ELSE {}

\* A busy port is passed over, and the range exhausted falls back to any port.
StartBrokers(r) ==
    /\ \E n \in Wanted(r) : serving' = [serving EXCEPT ![r] = n]
    /\ Goto(r, "launch")
    /\ UNCHANGED <<launch, stop, killed, watcher, processes, outcome, provider, faults>>

\* One of them does not start: those before it do serve.
BrokerFails(r) ==
    /\ \E n \in Wanted(r) : serving' = [serving EXCEPT ![r] = n - 1]
    /\ Fault /\ Abandon(r)
    /\ UNCHANGED <<launch, stop, killed, watcher, processes, provider>>

-----------------------------------------------------------------------------
(* The run's own thread, from the first watcher to the outer finally.       *)
\* The first watcher starts, then the client (run_operator) and its watcher.
\* In between run_operator writes the brief to the client's stdin: the client
\* is taken to read it, as docker does before it has a container to give it to.
Launch(r) ==
    /\ At(r, "launch") /\ Goto(r, "reading")
    /\ watcher' = [watcher EXCEPT ![r] = "polling"]
    /\ client' = [client EXCEPT ![r] = "asking"]
    /\ UNCHANGED <<launch, serving, stop, killed, box, outcome, provider, faults>>

\* The runtime's command is not there.
LaunchFails(r) ==
    /\ At(r, "launch") /\ Fault /\ Goto(r, "joining") /\ End(r, "error")
    /\ watcher' = [watcher EXCEPT ![r] = "polling"]
    /\ UNCHANGED <<launch, serving, stop, killed, processes, provider>>

\* The client's output has ended and its status is collected: run_operator is
\* over, and what was its own is gone.
Reap(r) ==
    /\ At(r, "reading") /\ client[r] \notin Attached
    /\ End(r, IF killed[r] THEN "killed"
              ELSE IF client[r] = "done" THEN "completed" ELSE "error")
    /\ Goto(r, "joining")
    /\ client' = [client EXCEPT ![r] = "reaped"]
    /\ killed' = [killed EXCEPT ![r] = FALSE]
    /\ UNCHANGED <<launch, serving, stop, watcher, box, provider, faults>>

\* docker kill: what the runtime has not brought up yet it does not find.
DockerKill(name) ==
    LET hit == {s \in Runs : Name(s) = name /\ box[s] \in Up}
    IN /\ box' = [s \in Runs |-> IF s \in hit THEN "killed" ELSE box[s]]
       /\ client' = [s \in Runs |-> IF s \in hit /\ client[s] = "attached"
                                    THEN "failed" ELSE client[s]]

Release(r) ==
    /\ Goto(r, "stopping")
    /\ watcher' = [watcher EXCEPT ![r] = "gone"]
    /\ UNCHANGED <<launch, serving, stop, killed, outcome, provider, faults>>

\* The slip of leaving the container to the watchers.
JoinOnly(r) ==
    /\ At(r, "joining") /\ Release(r) /\ UNCHANGED processes

\* The watcher is joined for two seconds, and the container killed once more
\* if the run is stopped; that docker kill has no time limit, and is taken to
\* return.
Join(r) ==
    /\ At(r, "joining") /\ Release(r)
    /\ IF stop[r] THEN DockerKill(Name(r)) ELSE UNCHANGED processes

\* The slip of the days of one broker a run.
StopOneBroker(r) ==
    /\ At(r, "stopping") /\ Goto(r, "over")
    /\ serving' = [serving EXCEPT ![r] = IF @ = 0 THEN 0 ELSE @ - 1]
    /\ UNCHANGED <<launch, stop, killed, watcher, processes, outcome, provider, faults>>

StopBrokers(r) ==
    /\ At(r, "stopping") /\ Goto(r, "over")
    /\ serving' = [serving EXCEPT ![r] = 0]
    /\ UNCHANGED <<launch, stop, killed, watcher, processes, outcome, provider, faults>>

-----------------------------------------------------------------------------
(* The two watchers, each polling the same stop every tenth of a second.    *)
\* The slip of a stop that is only noted.
OperatorNotes(r) ==
    /\ At(r, "reading") /\ stop[r] /\ ~killed[r] /\ client[r] \in Attached
    /\ killed' = [killed EXCEPT ![r] = TRUE]
    /\ UNCHANGED <<launch, pc, serving, stop, watcher, processes, outcome, provider, faults>>

OperatorWatches(r) ==
    /\ At(r, "reading") /\ stop[r] /\ client[r] \in Attached
    /\ killed' = [killed EXCEPT ![r] = TRUE]
    /\ client' = [client EXCEPT ![r] = "shot"]
    /\ UNCHANGED <<launch, pc, serving, stop, watcher, box, outcome, provider, faults>>

ContainerWatches(r) ==
    /\ watcher[r] = "polling" /\ stop[r]
    /\ DockerKill(Name(r))
    /\ watcher' = [watcher EXCEPT ![r] = "gone"]
    /\ UNCHANGED <<launch, pc, serving, stop, killed, outcome, provider, faults>>

-----------------------------------------------------------------------------
(* The container runtime.                                                   *)
Conflict(r) == \E s \in Runs \ {r} : Name(s) = Name(r) /\ box[s] \in Up \cup {"starting"}

Create(r) ==
    /\ client[r] = "asking"
    /\ client' = [client EXCEPT ![r] = IF Conflict(r) THEN "failed" ELSE "attached"]
    /\ box' = [box EXCEPT ![r] = IF Conflict(r) THEN @ ELSE "starting"]
    /\ UNCHANGED <<launch, pc, serving, stop, killed, watcher, outcome, provider, faults>>

\* A container that comes up after its client is gone is an orphan: nobody
\* will look for it again, and the timeout it was given ends it.
Start(r) ==
    /\ box[r] = "starting"
    /\ box' = [box EXCEPT ![r] = IF client[r] = "attached" THEN "up" ELSE "orphan"]
    /\ UNCHANGED <<launch, pc, serving, stop, killed, watcher, client, outcome, provider,
                   faults>>

AgentExits(r) ==
    /\ box[r] \in Up
    /\ box' = [box EXCEPT ![r] = "exited"]
    /\ \E status \in {"done", "failed"} :
        client' = [client EXCEPT ![r] = IF @ = "attached" THEN status ELSE @]
    /\ UNCHANGED <<launch, pc, serving, stop, killed, watcher, outcome, provider, faults>>

-----------------------------------------------------------------------------
Thread(r) ==
    \/ WriteRunDir(r) \/ Skip(r) \/ Begin(r)
    \/ Credential(r) \/ Exchange(r) \/ ExchangeRefused(r) \/ ExchangeFails(r)
    \/ Save(r) \/ SaveFails(r) \/ StartBrokers(r) \/ BrokerFails(r)
    \/ Launch(r) \/ LaunchFails(r) \/ Reap(r) \/ Join(r) \/ StopBrokers(r)

Runtime(r) == Create(r) \/ Start(r) \/ AgentExits(r)

Next ==
    \/ Lapse
    \/ \E r \in Runs :
        \/ ChooseId(r) \/ RequestStop(r)
        \/ Thread(r) \/ Runtime(r)
        \/ OperatorWatches(r) \/ ContainerWatches(r)

\* The interpreter runs its threads and the runtime's commands return (docker
\* kill has no time limit, nor has the write of the brief); nothing makes an
\* agent exit.
Fairness ==
    \A r \in Runs : /\ WF_vars(Thread(r))
                    /\ WF_vars(OperatorWatches(r))

Spec == Init /\ [][Next]_vars /\ Fairness

\* Headless, the run has no stop: Ctrl-C interrupts the thread that reads.  The
\* client, in a session of its own, is waited for 30 seconds and left.
Interrupt(r) ==
    /\ At(r, "reading") /\ client[r] \in Attached /\ ~stop[r]
    /\ Goto(r, "joining") /\ End(r, "interrupted")
    /\ UNCHANGED <<launch, serving, stop, killed, watcher, processes, provider, faults>>

SpecHeadless == Init /\ [][Next \/ \E r \in Runs : Interrupt(r)]_vars

-----------------------------------------------------------------------------
(* Properties                                                               *)
\* Types of the state.
TypeOK ==
    /\ \A r \in Runs :
        /\ id[r] \in 0 .. Cardinality(Runs)
        /\ serving[r] \in 0 .. MaxBrokers
        /\ watcher[r] \in {"off", "polling", "gone"}
        /\ client[r] \in Attached \cup {"none", "done", "failed", "shot", "reaped"}
        /\ box[r] \in Up \cup {"none", "starting", "killed", "exited"}
    /\ issued \in 1 .. Cardinality(Runs) + 1 /\ login \in 1 .. issued

\* Whatever a run was doing when it was stopped, once its operator call is
\* over no broker of it serves and the container it had brought up is gone
\* (ContainerOperator.run's two finally clauses).
NothingIsLeftUp ==
    \A r \in Runs : At(r, "over") => serving[r] = 0 /\ box[r] /= "up"

\* A broker is stopped only after the container it serves: "every broker
\* outlives the container for its ENTIRE lifetime" (ContainerOperator.run).
BrokersOutliveTheContainer ==
    [][\A r \in Runs : serving'[r] < serving[r] => box[r] /= "up"]_vars

\* A container is killed for its own run's stop and for no other run's, as
\* long as the runs' ids differ (_mutator_container_name).
AStopIsItsOwnRuns ==
    [][\A r \in Runs :
         /\ box[r] \in Up /\ box'[r] = "killed"
         /\ \A s \in Runs \ {r} : id[s] /= id[r]
         => stop[r]]_vars

\* Without a fault the login on disk is the one the provider will exchange, or
\* a run is about to store that one: runs that refresh it at once do not lock
\* the user out (_claude_refresh, _codex_refresh).
ProviderLoginIsNeverLost ==
    faults = 0 => \/ login = issued
                  \/ \E r \in Runs : At(r, "save") /\ held[r] = issued

\* A stopped run's operator call returns, whatever the container does: a stop
\* that comes before the container does not hang the run on it (run_operator,
\* whose watcher shoots the client; as long as the client took its brief).
AStopEndsTheCall == \A r \in Runs : stop[r] ~> At(r, "over")

\* "if `stop` is set by the caller, the group is killed and `stopped_reason`
\* is "killed"" (run_operator): a stop of a running agent is no failure of it.
\* It does not hold: see the README.
AStopIsReportedAsKilled ==
    \A r \in Runs : outcome[r] = "error" => box[r] /= "killed"

\* Two runs never use one container name (_mutator_container_name's comment).
\* It does not hold: see the README.
NoTwoRunsShareAName ==
    \A r, s \in Runs : r /= s /\ id[r] /= NoId => Name(r) /= Name(s)
=============================================================================

# Verification of nethackers

`nethackers` evolves NetHack bots. A participant's machine runs an *evolve loop*
that mutates bots in a container, evaluates them in an *arena* and publishes the
winners; a *hub* stores self-reported scores and derives its boards from them;
*worker nodes* re-evaluate every registered program on hidden seeds for the
*verified tier*. This directory holds TLA+ models of the parts where state,
concurrency and failure meet, the TLC runs over them and TLAPS proofs about them.

    tlc -workers 2 -config archive.cfg MCArchiveSpec.tla     # one run
    tlapm HarnessProofs.tla                                  # the proofs,
    tlapm HubStoreProofs.tla                                 # module by module:
    tlapm EvolveLoopProofs.tla                               # also HubTokensProofs,
    tlapm VerifiedTierProofs.tla                             # MutatorProofs, PublishProofs,
                                                             # SetupProofs

`PROJECT.json` lists the runs, the mutants that show each property can be
broken, the source lines each definition models, the hazards and the findings.

## Inventory

Paths are under `src/nethackers/` of the repository.

| Component | State | Operations | What is hard | What makes it correct |
|---|---|---|---|---|
| Cell archive `harness/archive.py` | an elite per identity, one union elite | `insert` | ties move occupants, evidence covers some identities only | each cell holds the best offered; no elite is dominated; ties alone move nothing |
| Evolve loop `harness/loop.py` (with `gate`, `select`) | archive, breaker counter, attempts window, wins, results, stop event, local `reference` | cold start, pick, operate, gate, evaluate, publish, register, insert, stop | every step can raise; publish and register are best effort; replies are lost; stop at any moment | breaker and records agree with what happened; every cell can be picked; it ends |
| Score aggregation `harness/aggregate.py` | none | means, regressions, causes | partial coverage | union mean monotone, means over the right slice |
| Hub schema `hub/store.py init_schema` | sqlite tables, each in an old or new shape | three migrations, at boot of each uvicorn worker | concurrent boots, kills between commits | no row lost, no one serves the old shape, all end up serving |
| Registration `hub/validate.py`, `hub/views/attainment.py`, `Store.genesis` | solutions, lineage, atoms, attainment, holders, archive tables | `register` (four or more commits), `genesis` | requests interleave at every commit, are retried, killed, overtaken | first is earliest, milestones are earned, no score lost |
| Verified tier, hub `hub/verify.py`, `arena_version.py` | verified_atoms, verified_attempts, secret, arena major | candidates, submit, report an attempt, floor | secret rotations and major bumps while nodes work; no leases | rows of one board comparable; every program settled |
| Verified tier, worker `worker/` | config, candidates, program in hand, `done` | poll, pull, evaluate, submit, report | hub outages, lost replies, stale image, restart | reports are true; nodes come to rest |
| Read views `hub/views/*` | none (functions of the tables) | boards, elites, recognition, brief, verified overview | ties, partial coverage, dates written anew, rows read while a request commits | being surpassed costs no credit |
| HTTP surface `hub/api.py`, `auth`, `poll`, `negotiate` | none beyond the store; poll votes | routes | threads, last vote wins | thin over the parts above |
| Hub client `hubclient/client.py`, `auth.py`, `credentials.py` | credentials file, token in memory | authed calls, 401-refresh-retry, login | single-use refresh token shared by parallel runs; abandoned calls; a file written in place | the login survives, every run comes to register |
| Publish `hubclient/publish.py` | the GitHub repository: branches, default branch, description | ensure the repository, dress it, clone, commit, push | concurrent pushes; each command can fail; an empty repository's first branch | what is returned stays fetchable; the landing page stays; a half-dressed repository is finished |
| Arena `arena/`, `eval/runner.py` | episode pool, worker and bot processes, pipes | run a batch, play an episode, stream results, size the box | wall-clock limits, bounded pipes, a bot nobody vouches for, any process killed | evidence is the batch; every evaluation ends; no orphan processes |
| Mutator `harness/container_operator.py`, `operator.py`, `cred_broker.py`, `auth_inject.py` | run id, brokers, client, container, two watcher threads, provider login | launch, refresh, serve, run, stop | stop before the container exists, rotating tokens, three threads on one process | a finished call leaves nothing up; brokers go last; a stop ends its own run |
| Tree store `harness/store.py` | shared content-addressed directory | save, save_as | concurrent runs, kill in a copy | a present tree is whole |
| Image preflight `harness/sandbox_preflight.py` | in-flight table, events | `ensure_image` | leader fails, followers retry | one pull at a time, nobody waits forever |
| AutoAscend adapter `roots/autoascend/arena_adapter.py` | two one-slot queues, bot thread | act, close | inversion of control | no deadlock, no lost observation |
| Setup `setup/`, `diagnostics.py`, `containers.py` | none of its own; the machine | check, plan, run the steps, check again | steps fail, are skipped or interrupted; the person does the rest between runs | a clean run leaves a ready machine; repeated runs get there |
| TUI `tui/run.py` | cells and union of the last cold-start report, a result and step times per iteration | `apply_state`, `apply_iteration`, `incumbent`, `best_overall` | knows the loop by its reports only; errors end an iteration at any step | it shows the archive's scores and claims no step that was not reached |
| CLI | none | | I/O | not modelled |

Interactions. The loop is the only writer of the archive. It pulls champions
from the hub at cold start (`select.py`), publishes a child to GitHub and
registers it with the hub over HTTP, one call each, both best effort. The hub
writes the self-reported tables in `register`. Workers read `GET
/verify/config` and `/verify/candidates`, then write `POST /verify` and
`/verify/attempts`; hub and workers share nothing else. All hub processes share
one sqlite file, which every one of them migrates at boot.

## Modules

| Module | Models |
|---|---|
| `CellArchive` | the archive's cells and `insert` |
| `ArchiveSpec` | the archive under its most general client: any program, any evidence, any order. The abstract specification of what the loop does to it |
| `EvolveLoop` | `run_loop`, over `CellArchive`; implements `ArchiveSpec` |
| `Monitor` | what `tui/run.py` keeps of the loop's reports, over `EvolveLoop` |
| `EvolveLoopProofs` | theorems about `EvolveLoop` and `Monitor` |
| `HubMigration` | `Store.init_schema` in several processes |
| `HubRegister` | `register`, `update_attainment`, `genesis` |
| `Recognition` | the replay of `hub/views/recognition.py` over the tables of `HubRegister` |
| `HubStoreProofs` | theorems about `HubRegister`, `Recognition` and `HubMigration` |
| `VerifiedTier` | hub and worker side of the verified tier |
| `VerifiedTierProofs` | theorems about `VerifiedTier` |
| `HubTokens` | the hub login of one machine and the register call of its runs |
| `HubTokensProofs` | theorems about `HubTokens` |
| `Publish` | `ensure_repo`, `_dress`, `publish_solution` by several publishers |
| `PublishProofs` | theorems about `Publish` |
| `Episode` | one episode: driver, pool worker, bot, and the pipe between them |
| `EvalBatch` | `eval_batch` on the host and `arena/run.py` in the arena, over `Episode` |
| `HarnessProofs` | theorems about `ArchiveSpec` and `EvalBatch`, its implementation of `Episode` included |
| `Mutator` | launch, provider login, brokers, `docker run` client, container and stop |
| `MutatorProofs` | theorems about `Mutator` |
| `Setup` | the checks, the plan and the run of `nethackers setup`, and the person |
| `SetupProofs` | theorems about `Setup` |
| `MC*` | values of the constants for TLC |

**CellArchive, ArchiveSpec.** Evidence is a function from the identities it
covers to their means; a score is an integer, as only its order is used.
`UnionMean` is a constant operator of which only strict monotonicity is assumed
(`UnionMeanAssumption`): a program better on one identity and worse on none has
the larger mean. `insert(digest, ev)` is the method whole: the strict
improvements, the union cell, then the ties taken if anything improved. Because
the evidence of a cold-start slice covers some identities only, a tie can be
taken by a program whose coverage differs from its incumbent's.

**EvolveLoop.** One action per step of `run_loop` that can end differently.
`phase` is the program counter, `elites` what the hub offers at cold start,
`parent_digest`, `worktree`, `dev_ev` the locals of an iteration, and
`reference_bound` whether the local `reference` was ever assigned, since Python
keeps it from one iteration to the next. Digests are trees, except that a
program pulled from the hub is archived under its hub id, with `HubTree` giving
the tree: this is where content digest and archive key part. `children` and
`offered` are history variables. The operator, the gate's smoke episode and the
evaluations are external, and choose any outcome the code distinguishes;
`GatePasses` applies the one comparison the code itself makes.

**Monitor.** The loop's thread waits until the TUI has applied a report
(`call_from_thread`), so a step of the loop and its report are one step:
`NextMonitored` conjoins each action of `EvolveLoop` with the report it makes, or
with none. The code computes the incumbents for each frame from the last
cold-start report and the results; the model keeps them and changes them by the
same rules. Both runs of the loop check it under this next-state relation, which
adds nothing to what the loop does.

**HubMigration.** sqlite3 in Python commits every DDL statement outside an
explicit transaction, so each statement of the `objective_digest` and
`program_id` migrations is an action, and each table of the `arena_major`
migration, which runs under `BEGIN IMMEDIATE`, is one. A worker that raises or is
killed goes `down`, losing its open transaction, and is restarted. Workers that
already serve write rows. A table is a set of rows, `rows[t]`, with `legacy`
naming the tables in the old shape; a rename moves its rows to `stranded[t]` and
puts `t` in `leftover` until `<t>_old` is dropped. A row keeps the rowid it was
found under, which is all that `ORDER BY rowid` needs: `InsertOrIgnore` takes the
earliest row of each key that no row of the table has. The database found at
first boot is one of `Databases`: legacy tables with duplicates, with an
unclassified row, or no file.

**HubRegister.** A request is a record that steps through the commits of
`register`; any request can stop after any commit (`Fail`: killed, timed out, or
a foreign key broken by `genesis`). Its timestamp is taken when it is accepted
and used when it commits. Milestones are levels of the one progress scale.

**Recognition.** `Gains` is what `read_recognition` would answer at any instant:
the mean of a batch is a constant operator with values in the integers (the checked
instance takes the total), and digests have an order because the replay breaks
ties by it. It has no variables of its own; its
property is about the steps of `HubRegister`.

**VerifiedTier.** A node is a record that steps through one pass of the daemon,
or, once, through a run with `--baseline` that computes AutoAscend's floor.
It fetches secret and candidates once per pass, then pulls, evaluates and
submits identity by identity. The environment can lose a call before or after
the hub acted on it, fail a pull, crash an evaluation or kill a node; operators
rotate the secret, bump the major and upgrade nodes. A successful pull
or evaluation is one step with the submission that follows, since it touches
nothing shared; a failed one is a step of its own.
`rows` and `floor` carry, as history, the scope each row was really played under.

**HubTokens.** A token set is the number GitHub issued it under. A run's register
call is split where another run can step in: at the exchange, between the
exchange and the save, and between truncating and filling the credentials file.
`Lapse` makes the current set expire on the machine's clock, at the hub, or
both. Faults are lost answers (before or after GitHub rotated the token), failed
posts and kills; a killed run is launched again from the file.

**Publish.** GitHub is a set of branches over a list of commits; a commit holds
a program and perhaps a README. Each publisher goes through `ensure_repo`,
`_dress` and `publish_solution` one command at a time. Fast-forward pushes and a
default branch that is the first one pushed are git's and GitHub's, modelled
from what the code relies on.

**Episode, EvalBatch.** `Episode` is one pool worker with its bot, in every
step of `run_trajectory`, `AgentClient` and `_agent_process`, together with the
deaths that `die_with_parent` guards against. `EvalBatch` extends it: the host's
writer thread and reader, the two bounded pipes, the pool and the rest of the
batch as the pool sees it. A step of the followed episode is a step of `Episode`
under the pool's conditions. The wall-clock limit around the arena is the death
of the driver.

**Mutator.** Three threads of a run act on two processes. The run's own thread
is `pc`; the watcher of `run_operator` kills the client, the watcher of
`ContainerOperator` kills the container by name; the container comes up some
time after its client asked. The provider's login is a number, as in
`HubTokens`; a refresh is the exchange and then the save. The agent, and the limit inside
its container, end it at any time or never (`AgentExits`). `SpecHeadless` adds
the Ctrl-C of a run without a TUI.

**Setup.** A machine is a record of what the probes see. `Passing` is
`run_checks`, `BuildPlan` is `build_plan`, the recipes of both systems are
functions of the machine, and `After` and `AfterPerson` say what a recipe does
to it, which belongs to other programs and is modelled from what setup counts
on. `at` is the place in the plan a run has come to and `succeeded` the ids of
the steps that did, as `results` of `_run_steps`; without a terminal the logins
are passed by (`PassBy`) and listed. Between two runs the person does something
that was printed.

## Runs

| Run | Instance | Shows |
|---|---|---|
| `archive` | 3 identities, 3 scores, 3 digests, 3 insertions | the best is held, no elite dominated |
| `evolve` | 1 identity, 4 iterations, breaker and window of 2 | breaker, what the monitor tells of each iteration, termination |
| `evolve_archive` | 2 identities, 2 iterations, a hub champion | cold start, accounting of elites and hub programs, the scores on the monitor, refinement of `ArchiveSpec` |
| `hub_migrate` | 2 workers, 4 tables, 1 kill, 3 databases | migration keeps rows, refuses the unclassified, ends in serving |
| `hub_migrate_killed` (violated) | same, one database | a kill strands self-reported rows |
| `register` | 3 requests, 2 solutions, 2 identities, evaluations that differ on a seed, 2 genesis runs, 2 instants, one floor | the write path, and recognition read from it, under every interleaving |
| `verified` | 2 nodes, 2 programs, 2 identities, 2 operator acts (rotation, bump, upgrade, floor run), 1 failure | comparability of rows and floor, truthful reports, settlement, rest |
| `tokens` | 2 runs, 4 token sets, 1 fault | the login survives; every run comes to register |
| `publish` | 2 publishers, 2 branches, 2 programs, 3 commits, 1 fault | fetchable, landing page, dressed in the end |
| `evaluate` | 3 episodes (one in full, 1 step), pipes of 1, 2 chunks, 2 warnings, 3 machines | evidence is the batch, the box fits, it ends, no orphans |
| `mutator` | 2 runs, 2 brokers, 1 fault | nothing left up, brokers last, a stop is its own run's and ends its call, the login survives |
| `setup` | 30 machines, 5 ways of calling, 1 fault | a clean run is ready; repeated runs converge |

The properties, with their natural-language statement, stand at the end of each
module.

*Bounds, and why they are enough.* Three identities and three scores let one
insertion win, tie and lose at once, and three programs let the incumbent of a
tie, the program that takes it and a third occupant differ; every conclusion of
the archive is moreover proved for all values. In the loop a breaker of 2 in 4
iterations lets a streak be interrupted, restarted and completed; the
two-identity run covers coverage by champion,
by seed and by both. In the migration two workers meet at every pair of
statements, and one kill separates any two of them; a third worker repeats the
role of one of them. In registration the conflicts are pairwise (two requests of one
solution, or of two solutions on one cell); the third request is there for a
repeat meeting both. Two evaluations of one solution that differ on one seed are
enough for a level that is reported and not stored, in either order. In the verified tier one rotation and one bump, or a
bump and an upgrade, can each fall into the pass of one node while the other is ahead or
behind, together with one lost call, kill or host failure.
Four token sets let the login lapse three times, so that two runs race, one
loses and races again. Two publishers are enough for every race on a branch, and
three commits for a README, one publish and a second on top of it. A pipe of one
line with two chunks and two warnings fills both pipes at once; the followed
episode is in the middle of the batch, so that one starts before it and one
after. In `mutator` two runs are needed for shared names and the shared login,
two brokers for one that fails after another started. In `setup` one fault is any one
failed step, interrupt, refusal, silent service or login to a wrong account, in
any run of it.

*Fairness.* `EvolveLoop`: weak fairness of cold start and of iterations, for
every operator run, episode and HTTP call has a wall-clock limit; none of the
user's stop. The `gh` and `git` commands of a publish run without one
(`hubclient/publish.py:45,161,265`): that an external command returns or fails
is an assumption on the environment, here and in `Publish`. `HubMigration`: weak fairness of a worker's boot, restart included,
as uvicorn's supervisor and `restart: unless-stopped` (`deploy/compose.yaml:4`)
give. A kill is never fair. `VerifiedTier`: weak fairness of each node's own
steps, as the daemon loops forever; none of failures, rotations or upgrades, which
are finite in a behaviour by their bounds. Its liveness is conditional on some node
ending up at the hub's major, as no code makes an operator upgrade a node.
`ArchiveSpec` and `HubRegister` claim no liveness.
`HubTokens`: weak fairness of a run's steps and of its next call, as HTTP calls
have deadlines and a run has further wins to register; `EveryRunRegisters`
speaks of behaviours without a fault. `Publish`: weak fairness of a publisher,
next publish included; without that no one retries and nothing is promised.
`Episode` and `EvalBatch`: weak fairness of each process and thread, and of the
timeouts, as the kernel schedules them and `poll` has a limit; nothing is
assumed of the bot once its code runs, nor of the arena's warnings.
`Mutator`: weak fairness of a run's own thread and of `run_operator`'s watcher;
none of the container runtime, none of the agent and none of
`ContainerOperator`'s watcher, so `AStopEndsTheCall` does not rest on them.
Two things it does rest on have no time limit in the code: the last `docker kill`
returns (`harness/container_operator.py:473,629`), and the client reads its brief,
which is written to its stdin before `run_operator`'s watcher starts
(`harness/operator.py:127-132`). `Launch` is therefore one step, and a client that
never read would be out of reach of a stop.
`Setup`: weak fairness of setup, run again and again, and strong fairness of the
person, who in the end does what every run prints: `SetupConverges` says what
setup is good for with such a person, and no more. It holds of the machines of
`AllMachines`; the one kind known not to get there is left out of them (`RuntimeAnswers`
below).

*Deadlock.* Switched off where the system stops: the archive at its bound, a
finished run, answered requests, `hub_migrate`, whose workers end up
serving with nothing left to write, an evaluation that has returned, a finished
mutator call, and a machine setup has nothing to say about and nobody runs it on. It stays on
in the other runs.

## Disagreements met while modelling

Places where the code does not do what its text says of it. The first is checked
as a violated run; the others are stated in the modules as properties that do
not hold, and no run keeps them: TLC finds each when it is put in the cfg of its
module (`FloorIsWhole` takes 4 operator acts and 2 floor runs, `RuntimeAnswers`
the machine `WithoutDocker` of `MCSetup`).

- *The `objective_digest` migration is not atomic* (`AtomsAreCarriedOver`, run
  `hub_migrate_killed`): `executescript` commits the rename before the rows are
  copied, so a kill in between strands the self-reported rows.
- *Lit cells* (`LitCellsHaveAnAtom`, `hub/views/attainment.py:5-6`,
  `hub/validate.py:265`): attainment is updated from the submitted atoms, ignored
  ones included, so a second evaluation of a solution that differs from the first
  lights milestones no stored atom reached. What does hold, of any evaluations, is
  `MilestonesAreEarned`: the solution reported that level in a request of that
  date, and the episode's atom is stored.
- *Colima without docker* (`RuntimeAnswers`, `setup/macos.py:179,186`): on a Mac
  that has Colima, setup only starts it; the docker command comes with
  `COLIMA_INSTALL`, planned where no runtime is installed at all (`194`). The start
  succeeds, no runtime answers, the pull fails, each time.
- *A concurrent first boot raises* (`BootNeverRaises`, `hub/store.py:324-331`):
  two workers both see no `program_id` and the second `ALTER TABLE` raises. The
  next boot repairs it (`EventuallyServing`).
- *The earliest atom need not stay* (`EarliestAtomsStay`, `hub/store.py:273-275`,
  "this collapses any duplicate row to the EARLIEST"): of two workers that boot
  at once, the one that renamed `atoms` away has yet to copy it back when the
  other, which finds the table in the new shape, serves; a row registered then
  takes the key of a legacy row, which the copy ignores.
- *Ties* (`TieTakesOnlyTheDominated`, `harness/archive.py:47-49`): the docstring
  says a program that takes a tied cell dominates the incumbent; it only improved
  some cell of some elite. The purpose, no dominated elite, is proved below.
- *Unchanged children* (`IdenticalChildNeverScored`, `docs/harness.md:129`,
  `harness/gate.py:33`): the gate compares a content digest with the hub id of a
  pulled parent, so an unchanged copy of a hub champion is scored and published.
- *A win recorded as an error* (`LocalElitesAreReported`,
  `harness/loop.py:490-494`): when `publish` raises, the local `reference` is
  unassigned, or stale from an earlier iteration, when the origin is recorded.
- *A stop reported as a failure* (`AStopIsReportedAsKilled`,
  `harness/operator.py:103-106`): when `ContainerOperator`'s watcher kills the
  container first, the client exits non-zero by itself before
  `run_operator`'s watcher looks, and the call raises instead of returning "killed".
- *Container names* (`NoTwoRunsShareAName`, `harness/container_operator.py:378-381`):
  `run_id` tests for a directory that is made seconds later, so two launches of
  one second share a run id, a directory and their containers' names; the stop
  of one then kills the container of the other.
- *Brokers and a headless Ctrl-C* (`BrokersOutliveTheContainer` under
  `SpecHeadless`, `harness/container_operator.py:475-487`): without a stop event
  nothing kills the container when the reading thread is interrupted, and the
  brokers stop under it.
- *A bot failure that scores* (`BotFailureScoresNothing`,
  `arena/trajectory.py:26-30`): a bot that exits with a request unread resets the
  pipe; `_receive` catches `EOFError` only (`arena/sandbox.py:134-137`), the
  episode becomes an `infrastructure_error` and keeps its progress.
- *Bots on the default branch* (`BotsNeverOnDefault`, `cli.py:1341-1342`): when
  dressing an empty repository fails, the first branch pushed becomes its default.
- *Credit lost by registering again* (`AgainCostsNothing`, `hub/store.py:714`): "being surpassed later costs
  nothing" (`hub/views/recognition.py:13`), yet a program registered again is
  dated anew, even by a registration that fails after its first commit, and its
  credit passes to a program registered in between.
- *A floor in two halves* (`FloorIsWhole`, `worker/verify.py:61`): a run with
  `--baseline` asks the hub anew, identity by identity, what the floor covers in
  the hub's scope of that instant, and submits the rest under its own. A node
  upgraded before its hub, with the hub's bump in between, reports success while
  neither major has a complete floor.
- *Advice that changes nothing* (`AdviceIsHeeded`, `setup/macos.py:115-119`): on a
  Mac whose Podman answers, installing Colima and running setup again, as printed,
  plans nothing, because a runtime answers already.

Two observations that contradict no text: an exchange of a refresh token that
`call_with_deadline` abandons is not saved, and the login is lost
(`LoginIsNeverLost` excuses it as a fault); and a container that comes up after
its stopped client is gone runs on until the timeout it was given
(`NothingIsLeftUp` speaks of the containers that were up).

## Proofs

`HarnessProofs.tla` on `ArchiveSpec`, for every `Identity`, `Digest`, `Score`, `UnionMean` and
`MaxInserts` under the assumptions of `CellArchive` (finite identities, integer
scores, `UnionLabel` not an identity, `NoCell` not an elite, a strictly monotone
union mean):

- `ArchiveTyped`: `OfferSpec => []TypeOK`;
- `ArchiveHoldsTheBest`: `OfferSpec => []HoldsTheBest`;
- `ArchiveHasNoDominatedElite`: `OfferSpec => []NoEliteDominated`;
- `ArchiveMovesOnlyOnAGain`: `OfferSpec => OccupantsMoveOnlyOnAGain`.

`HoldsTheBest` and `NoEliteDominated` need each other's step. The inductive
invariant `ArchiveInv` joins them with `TypeOK` and one small fact, that a union elite
exists only for several identities. That an old elite cannot dominate the newcomer follows from
`HoldsTheBest`: the newcomer strictly beat a cell whose occupant was at least as
good as everything offered, the old elite included. That the newcomer cannot
dominate an elite that stays is the tie rule: on that elite's cell the newcomer
would have won or tied, and taken it; a union elite would have been beaten by
monotonicity. `ElitesAfterInsert` says where each elite of the next state comes
from, `InsertKeepsBest` and `InsertKeepsUndominated` are the two halves of the
step, and `ArchiveInvariance` closes the induction.

`EvolveLoopProofs.tla`, for any identities, programs, scores and budget and any
limit of the breaker, under `LoopAssumption` and the assumptions of
`CellArchive`:

- `TypeCorrect`: `Spec => []TypeOK`;
- `LoopImplementsArchive`: `Spec => ImplementsArchive`;
- `PickFindsAnElite`: `Spec => []EveryCellCanBePicked`;
- `BreakerIsExact`: `Spec => []BreakerTripsExactlyOnAStreak`;
- `ElitesHaveAnAccount`: `Spec => []ElitesAreAccountedFor`;
- `MonitorOnlyWatches`: `SpecMonitored => Spec`;
- `MonitorIsRight`: `SpecMonitored => []MonitorShowsTheArchive`;
- `MonitorTellsTheTruth`: `SpecMonitored => []StoryIsTrue`.

The refinement maps nothing (the archive's variables are the loop's own); what
needs an invariant is `ArchiveSpec`'s bound on insertions, so `Budgeted` counts,
phase by phase, how many were made: one per hub champion, one for the seed, one
for the union champion, one per iteration. With it, what is proved of the archive
under any client holds of the loop. The breaker's counter is not the length of the streak at every step:
an operator that returned resets it several steps before its iteration is
recorded, and that iteration can still fail. `Counting` says where the two agree
and where the counter is ahead; the lemmas on `Streak` say what one more result
does to the maximal failing tail. `Filled` says which cells are filled by when in the cold
start, the case of champions that cover some identities and a seed evaluated on
the rest included. The accounting of elites needs the dates: a result's
iteration is the one it was made in (`Dated`), so a child recorded as
improving can be neither recorded twice nor attributed to an earlier iteration
(`Accounted`). The monitor's scores change with the reports by rules of
their own, which `Shown` ties to the archive step by step, until an iteration
fails with its child archived (the exception the property names); `Told` adds to
`StoryIsTrue` which steps are open at each program counter, so that the error
that ends an iteration anywhere closes the right one.

`HubStoreProofs.tla` on `HubRegister`, for any number of requests, solutions, identities,
seeds, milestones, genesis runs and instants, under `RegisterAssumption`
(evidence covers whole identities, parents are solutions, `NoRow` is no row):

- `TypeCorrect`: `Spec => []TypeOK`;
- `FirstHolderIsEarliest`: `Spec => []FirstIsEarliest`;
- `ScoresAreKept`: `Spec => ScoresAreNeverLost`;
- `AnsweredRequestsAreComplete`: `Spec => []AnsweredIsComplete`;
- `RepeatsAreHarmless`: `Spec => RepeatsChangeNoScore`;
- `MilestonesWereEarned`: `Spec => []MilestonesAreEarned`, whether or not
  evaluations repeat.

`FirstIsEarliest` is inductive relative to `TypeOK`: an attainment update reads
and writes its rows in one transaction, and a time that is not earlier than the
stored `first` is not earlier than any holder. `AnsweredIsComplete` speaks of the
last stage only, so `IInv` says for each stage what the request has committed by
then (`Written`), provided genesis has not run since its acceptance; `Accounted`
adds that a request was never accepted after more genesis runs than there were,
which is what makes the proviso false for every old request once genesis runs. The step splits on who moves:
outside genesis the board only grows (`BoardGrows`), so a request that does not
move keeps what it has (`StillAccounted`), and the one that moves has what it had
and what its step wrote (`MovedIsAccounted`).

`RepeatsChangeNoScore` relates a request to one answered earlier. Beyond `IInv`
it needs the time of what an answered request wrote: while genesis has not run,
the milestones it reached are dated no later than its acceptance (`Timely`), so
a repeat, accepted no earlier, cannot move a first. `MilestonesAreEarned` is about
evaluations that may differ, so a milestone and the stored atom of its episode
can come from different requests. `EarnedInv` keeps the two ends apart:
`StoredIsReported` says that a stored level, live or archived, was reported by
some request of its solution, and `Backed` that a request about to light cells
has its episodes' atoms stored, in the table or in the archive of a genesis that
fell between its two commits. That requests keep what they submitted
(`RequestsStay`) and that no stored level is lost (`LevelsStay`) carries both to
the milestones.

`HubStoreProofs.tla` on `Recognition`, for any mean and any floors, under
`RecognitionAssumption` (finitely many solutions, whose digests have an order):

- `SurpassedKeepTheirCredit`: `Spec => SurpassingCostsNothing`.

It rests on `TypeCorrect` and on `ScoredWhole`: a program that is scored on an
identity has an atom for each of its seeds, and a date. Short of genesis a stored
atom keeps its value (`StoredAtomsStay`), so it stays scored with the same score.
What is replayed before it can then only shrink in a step that neither dates one
of them anew nor scores one, and the best score of a smaller set is no larger
(`LargerMax`, `CreditKept`). That a finite set of scores has a best at all
(`MaxFacts`) is taken from the well-foundedness of strict inclusion, without
an induction.

`HubStoreProofs.tla` on `HubMigration`, for any number of workers, tables, rows,
databases and kills, under `MigrationAssumption` (rowids are unique in a table
and none is that of a live row):

- `MigrationTyped`: `SpecMigration => []MigrationTypeOK`;
- `VerifiedRowsStay`: `SpecMigration => []VerifiedRowsAreNeverLost`;
- `ServingOnlyMigrated`: `SpecMigration => []ServingIsMigrated`;
- `UnclassifiedRefused`: `SpecMigration => []RefusesUnclassified`;
- `UnkilledBootsKeepAtoms`: `SpecMigration => []UnkilledBootsCarryAtomsOver`;
- `RekeyedRowsAreKept`: `SpecMigration => RekeyedRowsStay`, no row leaves a
  re-keyed table, those registered while others still boot included.

`MigrationInv` has a part for each thing a boot relies on. `StepsDone` says what
is done of the schema by the time a worker is at each statement, whoever did it.
`OneOwner` is the heart of the `objective_digest` migration: between a rename
and the drop that follows, exactly one worker is on its way to copy the rows
back, as a second rename raises; the owner exists only while no one was killed,
which is where the finding comes from. `Leftovers` and `KnownRows` say what is
in a table and in its leftover, and `AtomsKept` that a legacy row is in one of
the two unless a live row has its key. That a copy keeps this
(`CopyKeeps`) rests on the rowids: of the rows of a key in the leftover the one
to carry is the earliest, since all of them are legacy rows or live.
`UnclassifiedStay` and `VerifiedRowsAreNeverLost` itself carry the verified
tables, whose re-keying is one transaction (`RekeyFacts`). Every action is first
reduced to one of the ways it can change the tables (`TablesStepFacts`), and the
parts on rows are proved over those.

`VerifiedTierProofs.tla`, for any number of nodes, programs, identities, secrets,
majors and failures:

- `BoardsAreComparable`: `Spec => []RowsAreComparable`, from no assumption;
- `ReportsAreTrue`: `Spec => []ReportsAreOnTheBoard`, under `VerifiedAssumption`;
- `TypeCorrect`: `Spec => []TypeOK`, under `VerifiedAssumption`.

`RowsAreComparable` is inductive as it stands: rows enter the tables in four
actions only (a submission or one whose answer is lost, of a program or of the
floor), each behind `Accepts`, which compares secret and major at the instant of
the insertion (`StoredIsComparable`, `StoredFloorIsComparable`). A report rests
on what its node did earlier, in a scope that may have ended since. `Progress`
says of each node that what it has done of the program in hand is on the board in
the scope the node fetched, as covered then or submitted by itself, and that
rows are never deleted carries this to the report. `BoardInv` joins it with the
shapes a node's record takes in each stage.

What a node has in hand depends on its stage, which `TypeOK` does not say: `Typed`
does (programs in a pass, at least one and at most `Limit`; while it computes the
floor, no more identities than it has asked about) and is inductive relative to
`BoardInv`. The programs come from the hub, which sorts those it wants. That a
sorted sequence of them exists needs no induction: coverage and program id
order programs strictly (`BeforeOrders`), so the number of wanted programs before
one is an injection of them into as many places, hence onto them
(`WantedCanBeSorted`).

`HubTokensProofs.tla`, for any number of runs, tokens and faults:

- `TypeCorrect`: `Spec => []TypeOK`;
- `LoginStays`: `Spec => []LoginIsNeverLost`.

The inductive invariant places the newest token set. Without a fault, a run is
about to write it and is the only one that writes (`Sound`), or the file holds
it; and a run that knows the newest set without writing it has read it from the
file, so only one run at a time can exchange it for a newer one.

`MutatorProofs.tla`, for any number of runs, brokers and faults, of `Spec`, the
runs that have a stop event (of `SpecHeadless` the third is false, see above):

- `TypeCorrect`: `Spec => []TypeOK`;
- `CallsLeaveNothingUp`: `Spec => []NothingIsLeftUp`;
- `BrokersOutlive`: `Spec => BrokersOutliveTheContainer`;
- `StopsAreOwn`: `Spec => AStopIsItsOwnRuns`;
- `ProviderLoginStays`: `Spec => []ProviderLoginIsNeverLost`.

`IInv` says of each place of a run's thread what serves, what the client and the
container may be and who was stopped (`Orderly`), and of the login what
`HubTokens` says of its own (`Kept`). The container of one run is disturbed by the
stop of another only if they share an id, which `Orderly` allows for: all but
`StopsAreOwn` say the same where names collide. `Counted` bounds the ids and the
logins by the runs that have taken one, with the cardinality lemmas of the
library.

`PublishProofs.tla`, for any number of publishers, branches, commits and faults:

- `TypeCorrect`: `Spec => []TypeOK`;
- `ReturnedStaysFetchable`: `Spec => []ReturnedIsFetchable`;
- `TheLandingStays`: `Spec => []LandingStays`.

What is reachable from a tip is stated without recursion (`Past`): a commit is in
the history of another if it is in every set that holds the latter and the parent
of each of its members. The `Past` lemmas (reflexive, transitive, unchanged by new commits) then
make a fast-forward keep everything reachable. `Landed` says that while `Main` is the default branch the commit it is at has the
README; that lasts because every publish goes to a branch of `Refs`, of which
`Main` is none.

`HarnessProofs.tla` on `EvalBatch`, for every batch, pipe size, machine and request:

- `TheBoxIsBudgeted`: `SpecBatch => []BoxIsBudgeted`;
- `EvidenceIsItsBatch`: `SpecBatch => []EvidenceIsTheBatch`;
- `NoArmedOrphan`: `SpecBatch => []OnlyTheUnarmedOutlive`, the safety half of
  `NothingOutlivesItsParent`: a process that outlives its parent has not asked
  yet to die with it;
- `TheFollowedIsAnEpisode`: `SpecBatch => Init /\ [][Next]_vars`, the module
  `Episode`: what the pool does to the followed worker, its end in a broken pool
  included, is a step that `Episode` knows or none.

The evidence rests on `Recorded`: while the driver lives, a recorded result is that
of its own entry, whose episode is over and will not change any more; a broken
pool leaves no episode open; and what the arena has written is complete. A
worker that raises has a made-up result as well, in a pool that goes on.

`SetupProofs.tla`, for every set of machines, every way of calling setup and any
number of faults, under `SetupAssumption` (the constants are machines and
options):

- `SetupTyped`: `Spec => []SetupTypeOK`;
- `CleanRunsAreReady`: `Spec => []CleanRunIsReady`.

`CleanRunIsReady` speaks of the end of a run, so `SetupInv` has to say what the
run knows of the machine its plan was made for, which is no longer there:
`PlannedFor(m)` says that the plan is `BuildPlan` of some machine `m`, that the
ids of its steps are distinct and a step that succeeded had its needs succeed
(`RunSoFar`), and `Progress(m)` what the steps that succeeded have made of `m`
and what the others left as it was, check by check. The lemmas on the plan
(`ConcatFacts`, `WhenFacts`, one `...Part` per part, `StepsPlanned`) say which
steps a plan has and when; `AfterFacts` what each recipe changes. Two orders in
the plan matter (`NotYet`): no login comes after the comparison of the accounts,
and no runtime starts after the pull, or the step that succeeded could be undone. Whoever wants a
runtime wants an image, so that a runtime answers at the end because it did for
`m` or because the pull went to it (`RuntimeReady`); `OperatorReady` and
`AccountsReady` do the same for the agent and the two logins, and
`CleanMeansReady` folds them into the exit code. What was true of a finished run
stays true while the person acts between runs because nothing blocking was left
to the person (`PersonFacts`, `YoursFacts`).

*What the proofs changed in the models.* A table of `HubMigration` is a set of
rows with their rowids where it was a sequence folded over, so that an
insertion is defined without induction; with that came `EarliestAtomsStay`
(above), which the sequences had hidden. `Setup` tells of a run by a position
and the ids that succeeded, where it had the list of steps left and a sequence of
results, and names the machines and options it takes. Three assumptions were too weak:
`Mutator` with no broker at all violates its type invariant, a `NoRow` that is a
set of tables and a `None` that is an outcome confuse an absent value with a
present one. The archive instance of `EvolveLoop` had a bound on insertions that
only fitted the checked instances. `Recognition` takes the mean as a constant and
says that solutions are finitely many, where it summed levels; `VerifiedTier`
says the same of programs, and what the hub answers is chosen among the
sequences of the wanted programs by their order, where a library operator sorted
them. The breaker's property is stated with the
failing tail of `results` instead of a filtered sequence, the history of a
commit without a recursive function, and a node's record is updated field by
field; each says what its former statement said, in a form one can reason about.

*Only model-checked:*

- Liveness under fairness, which is beyond the proof system, as `ENABLED` is:
  `Terminates`, `EventuallyServing`, `EveryProgramIsSettled`, `NodesComeToRest`,
  `EveryRunRegisters`, `EventuallyDressed`, `EvaluationEnds`,
  `NothingOutlivesItsParent`, `AStopEndsTheCall`, `SetupConverges`.

Every other property of a passing run is a theorem.

## Not modelled

- Checks of `register` before its first write (they change nothing), poll votes,
  the manifest columns, and rows no migration rewrites. Two rows of one submission
  with the same episode and different levels, which those checks let pass
  (`hub/validate.py:229-235`): evidence has one level a seed.
- A database that stays locked: a boot or a request it stops ends as any that
  raises (`AddColumn` does not tell it from the duplicate column).
- The display callbacks of the loop: they are taken not to raise. One that
  raised after a record was appended would add a second record for the same
  iteration.
- The attempts window is modelled (`Remember`) but no run asks about it, nor of
  `OccupantsMoveOnlyOnAGain` and of `HubRegister`'s `TypeOK`, which are proved.
- The hub's other read views (boards, coverage, elites, the verified overview):
  functions of the tables with no state of their own. The HTTP surface in front of them: routing.
- The device login, `pull.py`, the broker's proxying of bytes, the image
  preflight and its leader lock, `doctor --pull`, WSL and the distributions other
  than the one `Setup` follows, and what setup says of Docker Desktop's Rosetta
  setting (`setup/macos.py:224-225`), which no check reads.
- Of the TUI, episodes, logs, meters and screens; of the command line, all but
  `setup`: input and output.
- AutoAscend, the root program, is a vendored NetHack bot: what the loop needs of
  it is a score, which every module takes from a small set. Its adapter is the
  arena's agent and is not modelled beyond what `Episode` sees of an agent.

## Plan

In order of weight, what is left:

1. The other views over `HubRegister`'s tables: ranking and coverage against
   reference definitions.
2. `ImageLeader` (`harness/sandbox_preflight.py`), `ArenaAdapter`
   (`roots/autoascend/arena_adapter.py`), `TreeStore` (`harness/store.py`).
3. A composition of loop and hub that tells lineage ids apart.

Runs are kept few: a new module brings one passing run, and a run whose question
a stronger run answers makes room for it.

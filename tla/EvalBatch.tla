------------------------------ MODULE EvalBatch ------------------------------
(***************************************************************************)
(* One evaluation of a program on a batch (nethackers.eval.runner.eval_batch *)
(* and _stream_episodes on the host, nethackers.arena.run in the arena).    *)
(*                                                                         *)
(* The host feeds the batch to the arena's stdin from a thread of its own   *)
(* and drains its stderr; both pipes are bounded.  The arena plays the      *)
(* batch on a pool of workers.  One episode, Followed, is played in every   *)
(* detail by the module Episode, whose worker is one of the pool's; the     *)
(* others are here only as far as the pool sees them.                       *)
(***************************************************************************)
EXTENDS Episode, Sequences, FiniteSets, FiniteSetsExt

CONSTANTS
    N,           \* episodes in the batch
    Followed,    \* the one played by Episode
    Chunks,      \* what the batch amounts to, in writes to a pipe
    PipeSize,    \* writes a pipe holds
    Warnings,    \* bound: lines the arena's imports print before it reads
    Capacities,  \* <<cpus, memory>> of the machine, NoCapacity if unknown
    Requests     \* --max-parallel-evals, 0 if not given

Batch == 1 .. N
NoCapacity == <<0, 0>>
NoResult == <<0, "none">>

ASSUME EvalBatchAssumption ==
    /\ N \in Nat \ {0} /\ Followed \in Batch
    /\ Chunks \in Nat /\ PipeSize \in Nat \ {0} /\ Warnings \in Nat
    /\ Capacities \subseteq Nat \X Nat /\ Requests \subseteq Nat

VARIABLES
    box,       \* the box: [episodes, memory, warning]
    unfed,     \* chunks the writer thread still has to write
    stdin,     \* chunks in the pipe
    got,       \* chunks the arena has read
    stderr,    \* lines in the pipe: 0 for noise, or the episode they report
    noise,     \* lines the imports have still to print
    arena,     \* "starting", "playing", "written" or "exited"
    others,    \* others[i]: "queued", "playing", "played", "raised" or "lost"
    pool,      \* "ok", or "broken" by the death of one of its processes
    results,   \* results[i]: <<whose, "played" or "failed">>, NoResult before
    shown,     \* episodes reported to on_episode
    outcome    \* of eval_batch: "none", "evidence" or "raised"

pipes == <<unfed, stdin, got, stderr, noise>>
batchVars == <<box, pipes, arena, others, pool, results, shown, outcome>>
allVars == <<vars, batchVars>>

-----------------------------------------------------------------------------
(* The size of the box (_size_box), in quarters of an episode's budget.     *)
Budget == 4                \* _EPISODE_MEMORY
DefaultEpisodes == 2       \* DEFAULT_MAX_PARALLEL_EVALS

\* The slip of a default taken from the machine's memory, not from the box's.
SizeBoxOfTheMachine(requested, capacity) ==
    LET episodes == Max({1, Min({capacity[1], capacity[2] \div Budget, N})})
    IN [episodes |-> episodes, memory |-> (capacity[2] * 3) \div 4, warning |-> FALSE]

SizeBox(requested, capacity) ==
    LET memory == (capacity[2] * 3) \div 4
        asked == Max({1, Min({requested, N})})
        fits == Max({1, Min({capacity[1], memory \div Budget, N})})
        fixed == IF requested = 0 THEN Min({DefaultEpisodes, N}) ELSE asked
    IN CASE capacity = NoCapacity ->
              [episodes |-> fixed, memory |-> fixed * Budget, warning |-> FALSE]
         [] capacity # NoCapacity /\ requested = 0 ->
              [episodes |-> fits, memory |-> memory, warning |-> FALSE]
         [] OTHER ->
              [episodes |-> asked, memory |-> memory, warning |-> asked * Budget > memory]

-----------------------------------------------------------------------------
InitBatch ==
    /\ Init
    /\ \E c \in Capacities, r \in Requests : box = SizeBox(r, c)
    /\ unfed = Chunks /\ stdin = 0 /\ got = 0
    /\ stderr = <<>> /\ noise \in 0 .. Warnings
    /\ arena = "starting"
    /\ others = [i \in Batch \ {Followed} |-> "queued"]
    /\ pool = "ok"
    /\ results = [i \in Batch |-> NoResult]
    /\ shown = {}
    /\ outcome = "none"

WriteLine(line) == Len(stderr) < PipeSize /\ stderr' = Append(stderr, line)

(***************************************************************************)
(* The host                                                                 *)
(***************************************************************************)
\* The writer thread, until the arena is gone or everything is written.
Feed ==
    /\ unfed > 0
    /\ IF arena = "exited" THEN unfed' = 0 /\ UNCHANGED stdin
       ELSE stdin < PipeSize /\ unfed' = unfed - 1 /\ stdin' = stdin + 1
    /\ UNCHANGED <<vars, box, got, stderr, noise, arena, others, pool, results, shown, outcome>>

\* The slip of a host that writes the batch before it drains.
DrainWhenFed ==
    /\ outcome = "none" /\ stderr # <<>> /\ unfed = 0
    /\ stderr' = Tail(stderr)
    /\ shown' = shown \cup ({Head(stderr)} \cap Batch)
    /\ UNCHANGED <<vars, box, unfed, stdin, got, noise, arena, others, pool, results, outcome>>

Drain ==
    /\ outcome = "none" /\ stderr # <<>>
    /\ stderr' = Tail(stderr)
    /\ shown' = shown \cup ({Head(stderr)} \cap Batch)
    /\ UNCHANGED <<vars, box, unfed, stdin, got, noise, arena, others, pool, results, outcome>>

\* stderr has ended: wait, join, and read the results unless the arena failed.
Return ==
    /\ outcome = "none" /\ arena = "exited" /\ stderr = <<>> /\ unfed = 0
    /\ outcome' = IF driver = "alive" THEN "evidence" ELSE "raised"
    /\ UNCHANGED <<vars, box, pipes, arena, others, pool, results, shown>>

(***************************************************************************)
(* The arena                                                                *)
(***************************************************************************)
Alive == driver = "alive"

Warn ==
    /\ Alive /\ arena = "starting" /\ noise > 0
    /\ WriteLine(0) /\ noise' = noise - 1
    /\ UNCHANGED <<vars, box, unfed, stdin, got, arena, others, pool, results, shown, outcome>>

Read ==
    /\ Alive /\ arena = "starting" /\ noise = 0 /\ stdin > 0
    /\ stdin' = stdin - 1 /\ got' = got + 1
    /\ UNCHANGED <<vars, box, unfed, stderr, noise, arena, others, pool, results, shown, outcome>>

\* With the whole batch read, a banner and the pool.
StartPool ==
    /\ Alive /\ arena = "starting" /\ noise = 0 /\ got = Chunks
    /\ WriteLine(0)
    /\ arena' = "playing"
    /\ UNCHANGED <<vars, box, unfed, stdin, got, noise, others, pool, results, shown, outcome>>

\* Episode i holds a worker, or is still to have one.
Status(i) ==
    IF i # Followed THEN others[i]
    ELSE CASE worker = "dead" -> "lost"
           [] worker = "done" -> "played"
           [] worker = "armed" /\ client # "idle" -> "playing"
           [] OTHER -> "queued"

\* Episodes start in batch order, as workers are free.
MayStart(i) ==
    /\ Alive /\ arena = "playing" /\ pool = "ok" /\ Status(i) = "queued"
    /\ \A j \in 1 .. i - 1 : Status(j) # "queued"
    /\ Cardinality({j \in Batch : Status(j) = "playing"}) < box.episodes

StartOther(i) ==
    /\ MayStart(i)
    /\ others' = [others EXCEPT ![i] = "playing"]
    /\ UNCHANGED <<vars, box, pipes, arena, pool, results, shown, outcome>>

\* What a worker hands back: the result of its episode, or its own exception.
Answered == {"played", "raised"}

EndOther(i) ==
    /\ others[i] = "playing" /\ pool = "ok" /\ Alive
    /\ \E end \in Answered : others' = [others EXCEPT ![i] = end]
    /\ UNCHANGED <<vars, box, pipes, arena, pool, results, shown, outcome>>

\* A worker dies hard, and the whole pool with it.
LoseOther(i) ==
    /\ others[i] = "playing" /\ pool = "ok" /\ Alive
    /\ others' = [others EXCEPT ![i] = "lost"]
    /\ UNCHANGED <<vars, box, pipes, arena, pool, results, shown, outcome>>

\* The executor gives up on whatever was not answered, and ends what plays.
BreakPool ==
    /\ pool = "ok" /\ Alive /\ arena = "playing"
    /\ \E i \in Batch : Status(i) = "lost"
    /\ pool' = "broken"
    /\ others' = [i \in DOMAIN others |-> IF others[i] \in Answered THEN others[i] ELSE "lost"]
    /\ worker' = IF worker = "done" THEN worker ELSE "dead"
    /\ bot' = IF worker' = "dead" THEN Orphaned(bot) ELSE bot
    /\ UNCHANGED <<driver, pipe, client, steps, credit, result,
                   box, pipes, arena, results, shown, outcome>>

\* The slip of results that are kept in the order they come.
CollectAsCompleted(i) ==
    LET next == Min({j \in Batch : results[j] = NoResult})
    IN [results EXCEPT ![next] = <<i, "played">>]

\* as_completed: the result of i goes to its place in the batch; an episode
\* whose worker raised, or whose pool broke, is an infrastructure_error of no
\* progress.
Collect(i) == [results EXCEPT ![i] = <<i, IF Status(i) = "played" THEN "played" ELSE "failed">>]

Completed(i) ==
    /\ Alive /\ arena = "playing" /\ results[i] = NoResult
    /\ Status(i) \in Answered \/ pool = "broken"
    /\ results' = Collect(i)
    /\ WriteLine(i)
    /\ UNCHANGED <<vars, box, unfed, stdin, got, noise, arena, others, pool, shown, outcome>>

\* results.json is written after the last episode, and the arena exits.
WriteResults ==
    /\ Alive /\ arena = "playing" /\ \A i \in Batch : results[i] # NoResult
    /\ arena' = "written"
    /\ UNCHANGED <<vars, box, pipes, others, pool, results, shown, outcome>>

Exit ==
    /\ arena \in {"written"} \/ (~Alive /\ arena # "exited")
    /\ arena' = "exited"
    /\ UNCHANGED <<vars, box, pipes, others, pool, results, shown, outcome>>

\* A step of the followed episode; the driver dies of the wall-clock bound
\* around the arena, or of memory.
EpisodeStep ==
    /\ Next
    /\ client = "idle" /\ client' # "idle" => MayStart(Followed)
    /\ worker' # worker /\ worker' = "dead" /\ driver' = "alive" => arena = "playing"
    /\ arena \in {"written", "exited"} => driver' = driver
    /\ UNCHANGED batchVars

Host == Feed \/ Return
Pool ==
    \/ Read \/ StartPool \/ BreakPool \/ WriteResults \/ Exit
    \/ \E i \in Batch : Completed(i)
    \/ \E i \in Batch \ {Followed} : StartOther(i) \/ EndOther(i)

NextBatch ==
    \/ Host \/ Drain \/ Pool \/ Warn
    \/ \E i \in Batch \ {Followed} : LoseOther(i)
    \/ EpisodeStep

FairnessBatch ==
    /\ WF_allVars(Host) /\ WF_allVars(Drain)
    /\ WF_allVars(Warn) /\ WF_allVars(Read) /\ WF_allVars(StartPool) /\ WF_allVars(BreakPool)
    /\ WF_allVars(WriteResults) /\ WF_allVars(Exit)
    /\ \A i \in Batch : WF_allVars(Completed(i))
    /\ \A i \in Batch \ {Followed} : WF_allVars(StartOther(i)) /\ WF_allVars(EndOther(i))
    /\ WF_allVars(WorkerArms /\ EpisodeStep) /\ WF_allVars(BotArms /\ EpisodeStep)
    /\ WF_allVars(Worker /\ EpisodeStep) /\ WF_allVars(Timeout /\ EpisodeStep)

SpecBatch == InitBatch /\ [][NextBatch]_allVars /\ FairnessBatch

-----------------------------------------------------------------------------
\* Every evaluation returns or raises: writer, reader and arena never wait for
\* each other, whatever the pipes hold, whatever the bot does and whichever
\* process dies (the writer thread of _stream_episodes, the pool of run_prepared).
EvaluationEnds == <>(outcome # "none")

\* Evidence holds one result per entry of the batch, in the batch's order: the
\* result of that entry, and a made-up one only where its worker raised or the
\* pool broke first (run_prepared, whatever the order of completion).
EvidenceIsTheBatch ==
    outcome = "evidence" =>
        \A i \in Batch :
            /\ results[i] \in {i} \X {"played", "failed"}
            /\ results[i][2] = "failed" <=> Status(i) \in {"raised", "lost"}

\* The episodes side by side fit the box's memory, or the user is told, or there
\* is only one of them (_size_box: "the default can never trip the warning").
BoxIsBudgeted ==
    box.episodes * Budget <= box.memory \/ box.warning \/ box.episodes = 1
==============================================================================

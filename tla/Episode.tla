------------------------------- MODULE Episode -------------------------------
(***************************************************************************)
(* One episode of the arena: a pool worker that plays a NetHack game with   *)
(* the submitted bot, which it keeps in a process of its own                *)
(* (nethackers.arena.trajectory, arena.sandbox, arena.lifetime).            *)
(*                                                                         *)
(* Three processes: the driver that owns the pool, the worker, and the      *)
(* bot.  The worker and the bot talk over a pipe, one request and one       *)
(* answer at a time; each side is killed with its parent, by the kernel,    *)
(* once it has asked for that.  The bot runs code nobody vouches for: it    *)
(* may answer anything, hang, raise, or leave at any moment.                *)
(***************************************************************************)
EXTENDS Naturals

CONSTANTS MaxSteps     \* Objective.max_steps

ASSUME EpisodeAssumption == MaxSteps \in Nat \ {0}

VARIABLES
    driver,     \* "alive" or "dead"
    worker,     \* "spawned", "armed" (die_with_parent ran), "done" or "dead"
    bot,        \* "none", "spawned", "armed", "busy", "hung" or "dead"
    request,    \* in the pipe to the bot: "none", "reset", "act" or "close"
    answer,     \* in the pipe to the worker: "none", "ready", "reset",
                \* "action", "invalid", "error" or "closed"
    client,     \* what run_trajectory is doing
    steps,      \* steps played
    credit,     \* the progress the environment has recorded
    status,     \* the result's status, "none" before there is one
    scored,     \* the progress of the result
    blame       \* what ended the episode: "none", "game", "bot" or "host"

processes == <<driver, worker, bot>>
pipe == <<request, answer>>
result == <<status, scored, blame>>
vars == <<processes, pipe, client, steps, credit, result>>

BotFailures == {"invalid_action", "bot_timeout", "bot_error"}
Statuses == {"none", "completed", "infrastructure_error"} \cup BotFailures
Gone == {"none", "dead"}

Init ==
    /\ driver = "alive" /\ worker = "spawned" /\ bot = "none"
    /\ request = "none" /\ answer = "none"
    /\ client = "idle" /\ steps = 0 /\ credit = 0
    /\ status = "none" /\ scored = 0 /\ blame = "none"

(***************************************************************************)
(* Processes                                                                *)
(***************************************************************************)
\* The slip of an arming that does not look back for its parent.
ArmedUnlooking(parent) == "armed"

\* die_with_parent: from now on the kernel kills this process with its parent;
\* one whose parent is gone already leaves by itself.
Armed(parent) == IF parent \in Gone \cup {"done"} THEN "dead" ELSE "armed"

\* What is left of a child when its parent dies: an armed one dies with it.
Orphaned(child) == IF child \in {"spawned"} \cup Gone THEN child ELSE "dead"

WorkerArms ==
    /\ worker = "spawned"
    /\ worker' = Armed(driver)
    /\ UNCHANGED <<driver, bot, pipe, client, steps, credit, result>>

BotArms ==
    /\ bot = "spawned"
    /\ bot' = Armed(worker)
    /\ UNCHANGED <<driver, worker, pipe, client, steps, credit, result>>

\* The driver is killed: SIGKILL, out of memory, a segfault.
DriverDies ==
    /\ driver = "alive"
    /\ driver' = "dead"
    /\ worker' = IF worker = "done" THEN "dead" ELSE Orphaned(worker)
    /\ bot' = IF worker' = "dead" THEN Orphaned(bot) ELSE bot
    /\ UNCHANGED <<pipe, client, steps, credit, result>>

WorkerDies ==
    /\ worker \in {"spawned", "armed"}
    /\ worker' = "dead"
    /\ bot' = Orphaned(bot)
    /\ UNCHANGED <<driver, pipe, client, steps, credit, result>>

(***************************************************************************)
(* The bot (_agent_process)                                                 *)
(***************************************************************************)
Answer(a) == answer' = a

\* It loads, and says so.
BotReady ==
    /\ bot = "armed" /\ client = "startup" /\ answer = "none"
    /\ bot' = "busy" /\ Answer("ready")
    /\ UNCHANGED <<driver, worker, request, client, steps, credit, result>>

\* It takes a request and answers it: an action of the game's, or another
\* thing.
BotAnswers ==
    /\ bot = "busy" /\ request # "none"
    /\ request' = "none"
    /\ \/ request = "reset" /\ Answer("reset") /\ UNCHANGED bot
       \/ request = "act" /\ \E a \in {"action", "invalid"} : Answer(a) /\ UNCHANGED bot
       \/ request = "close" /\ Answer("closed") /\ bot' = "dead"
    /\ UNCHANGED <<driver, worker, client, steps, credit, result>>

\* What it runs raises: the traceback is its last answer.
BotRaises ==
    /\ bot \in {"armed", "busy"} /\ answer = "none"
    /\ bot = "busy" => request # "none"
    /\ request' = "none" /\ Answer("error")
    /\ bot' = "dead"
    /\ UNCHANGED <<driver, worker, client, steps, credit, result>>

\* It never comes back from what it runs, not even for a SIGTERM.
BotHangs ==
    /\ bot \in {"armed", "busy"}
    /\ bot' = "hung" /\ request' = "none"
    /\ UNCHANGED <<driver, worker, answer, client, steps, credit, result>>

\* It leaves without a word, before or after it took the request.
BotLeaves ==
    /\ bot \in {"spawned", "armed", "busy"}
    /\ bot' = "dead"
    /\ request' \in {request, "none"}
    /\ UNCHANGED <<driver, worker, answer, client, steps, credit, result>>

(***************************************************************************)
(* The worker (run_trajectory and AgentClient)                              *)
(***************************************************************************)
Playing == worker = "armed"

\* The episode is over: a failure of the bot's scores nothing.
Ends(s, by, progress) ==
    /\ status' = s /\ blame' = by
    /\ scored' = IF s \in BotFailures THEN 0 ELSE progress
    /\ client' = "closing"

Fails(s, by) == Ends(s, by, credit) /\ UNCHANGED <<request, steps, credit>>

\* A bot that is gone by now breaks the pipe.
Send(r) ==
    IF bot = "dead" THEN Ends("bot_error", "bot", credit') /\ UNCHANGED request
    ELSE request' = r /\ client' = r /\ UNCHANGED result

Start ==
    /\ Playing /\ client = "idle"
    /\ bot' = "spawned" /\ client' = "startup"
    /\ UNCHANGED <<driver, worker, pipe, steps, credit, result>>

\* The bot is up: the game begins, and what it shows may be worth something
\* already.
Reset ==
    /\ Playing /\ client = "startup" /\ answer = "ready"
    /\ Answer("none")
    /\ credit' \in {0, 1}
    /\ Send("reset")
    /\ UNCHANGED <<processes, steps>>

FirstAct ==
    /\ Playing /\ client = "reset" /\ answer = "reset"
    /\ Answer("none")
    /\ UNCHANGED <<processes, steps, credit>>
    /\ Send("act")

\* The action is played; the game goes on, ends, or reaches the step bound.
Play ==
    /\ Playing /\ client = "act" /\ answer = "action"
    /\ Answer("none")
    /\ steps' = steps + 1
    /\ credit' \in credit .. 1
    /\ \/ steps' < MaxSteps /\ Send("act")
       \/ Ends("completed", "game", credit') /\ UNCHANGED request
    /\ UNCHANGED processes

InvalidAction ==
    /\ Playing /\ answer = "invalid"
    /\ Fails("invalid_action", "bot") /\ Answer("none")
    /\ UNCHANGED processes

BotError ==
    /\ Playing /\ client # "closing" /\ answer = "error"
    /\ Fails("bot_error", "bot") /\ Answer("none")
    /\ UNCHANGED processes

Waiting == Playing /\ client \in {"startup", "reset", "act"} /\ answer = "none"

\* The pipe of a bot that left reads as its end.
BotExited ==
    /\ Waiting /\ bot = "dead" /\ request = "none"
    /\ Fails("bot_error", "bot")
    /\ UNCHANGED <<processes, answer>>

\* The pipe of a bot that left a request unread is reset instead, which recv
\* does not report as its end.
ConnectionReset ==
    /\ Waiting /\ bot = "dead" /\ request # "none"
    /\ Fails("infrastructure_error", "bot")
    /\ UNCHANGED <<processes, answer>>

\* poll gives up, on a bot that hangs or one that is slow, and the bot goes.
Timeout ==
    /\ Waiting /\ bot # "dead"
    /\ Fails("bot_timeout", "bot")
    /\ bot' = "dead"
    /\ UNCHANGED <<driver, worker, answer>>

\* The game itself raises, when it is made, reset or stepped.
GameFails ==
    /\ Playing /\ \/ client = "idle"
                  \/ client = "startup" /\ answer = "ready"
                  \/ client = "act" /\ answer = "action"
    /\ Fails("infrastructure_error", "host") /\ Answer("none")
    /\ UNCHANGED processes

\* finally: the bot is asked to close, told to, and killed.
Close ==
    /\ Playing /\ client = "closing"
    /\ bot' = IF bot = "none" THEN "none" ELSE "dead"
    /\ client' = "closed" /\ worker' = "done"
    /\ UNCHANGED <<driver, pipe, steps, credit, result>>

-----------------------------------------------------------------------------
Worker ==
    \/ Start \/ Reset \/ FirstAct \/ Play \/ InvalidAction \/ BotError
    \/ BotExited \/ ConnectionReset \/ Close

Bot == BotReady \/ BotAnswers \/ BotRaises \/ BotHangs \/ BotLeaves

Next ==
    \/ WorkerArms \/ BotArms \/ DriverDies \/ WorkerDies
    \/ Worker \/ Timeout \/ GameFails \/ Bot

\* Processes that are scheduled get to run and clocks tick; nothing is owed by
\* the bot once its code runs.
Fairness ==
    /\ WF_vars(WorkerArms) /\ WF_vars(BotArms)
    /\ WF_vars(Worker) /\ WF_vars(Timeout)

Spec == Init /\ [][Next]_vars /\ Fairness

-----------------------------------------------------------------------------
\* No process of an episode outlives its parent for good, killed at whatever
\* moment of the child's start (die_with_parent: the signal, and the look back
\* for a parent that died before it was asked for).
NothingOutlivesItsParent ==
    /\ driver = "dead" ~> worker = "dead"
    /\ worker = "dead" ~> bot \in Gone

\* A failure of the bot's scores nothing (trajectory._result: "a bot-
\* attributable failure always scores zero progress").  It does not hold, and no
\* run checks it: see ConnectionReset and the README.
BotFailureScoresNothing == blame = "bot" => scored = 0
==============================================================================

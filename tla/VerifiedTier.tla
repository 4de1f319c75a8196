---------------------------- MODULE VerifiedTier ----------------------------
(***************************************************************************)
(* The verified tier: worker nodes (worker/server.py, worker/verify.py) poll*)
(* the hub for programs without full coverage on the hidden seeds, evaluate *)
(* each on every identity and submit identity by identity; the hub checks   *)
(* and stores the rows (hub/verify.py).  There is no queue and no lease:    *)
(* nodes take the same programs, and each restarts a program from its first *)
(* identity.  An operator also has a node compute AutoAscend's floor, once,  *)
(* before it goes on as a node.                                             *)
(*                                                                          *)
(* Rows count for a scope: the hidden secret and the arena major they were  *)
(* played under.  Operators rotate the secret, bump the hub's major and     *)
(* upgrade nodes while programs are being evaluated.  The hidden seeds of a *)
(* secret are fixed, and an identity is submitted with all of them.         *)
(***************************************************************************)
EXTENDS Integers, Sequences, FiniteSets, SequencesExt

CONSTANTS
  Node,          \* the verifier nodes
  Program,       \* the registered programs
  Rank,          \* the order of their program ids
  Identities,    \* IDENTITIES, a sequence
  Breaks,        \* the identities whose evaluation always crashes, by program
  Limit,         \* --limit: programs a node takes in one pass
  None,          \* Python's None
  MaxSecret,     \* bound: secrets the operators rotate through
  MaxMajor,      \* bound: arena majors they bump through
  MaxChanges,    \* bound: what the operators do in one behaviour
  MaxFloorRuns,  \* bound: runs of a node with --baseline
  MaxBlips       \* bound: failures of the environment

Identity == ToSet(Identities)
Secret == 1..MaxSecret
Major == 1..MaxMajor

ASSUME VerifiedAssumption ==
  /\ Identities \in Seq(Identity) /\ Identities # <<>> /\ IsInjective(Identities)
  /\ IsFiniteSet(Program)
  /\ Rank \in [Program -> Nat] /\ IsInjective(Rank)
  /\ Breaks \in [Program -> SUBSET Identity]
  /\ Limit \in Nat \ {0}
  /\ MaxSecret \in Nat \ {0} /\ MaxMajor \in Nat \ {0}
  /\ MaxChanges \in Nat /\ MaxFloorRuns \in Nat /\ MaxBlips \in Nat
  /\ None \notin {"build_failed", "crashed", "infra_error"}

VARIABLES
  secret,      \* NETHACKERS_HIDDEN_SECRET of the hub
  major,       \* ARENA_MAJOR of the hub's release
  rows,        \* verified_atoms, one row standing for an identity's seeds
  floor,       \* verified_baseline_atoms, likewise
  attempts,    \* verified_attempts: the latest of each program and scope, or None
  node,        \* each node's state
  floor_runs,
  blips

hub == <<secret, major, rows, floor, attempts>>
vars == <<hub, node, floor_runs, blips>>

Failures == {"build_failed", "crashed", "infra_error"}

\* A node between two passes; image is the major of its release's arena pin.
Fresh(image) ==
  [stage |-> "config", image |-> image, secret |-> None, queue |-> <<>>, done |-> 0,
   failure |-> None]

Init ==
  /\ secret = 1 /\ major = 1
  /\ rows = {}
  /\ floor = {}
  /\ attempts = [p \in Program |-> [s \in Secret |-> [m \in Major |-> None]]]
  /\ node = [n \in Node |-> Fresh(1)]
  /\ floor_runs = 0
  /\ blips = 0

NewPass(n) == node' = [node EXCEPT ![n] = Fresh(node[n].image)]

\* One failure of the environment: a network, a host or a container runtime.
Blip == blips < MaxBlips /\ blips' = blips + 1

\* What the operators do is bounded.
Upgraded == {n \in Node : node[n].image > 1}

MayChange ==
  (secret - 1) + (major - 1) + Cardinality(Upgraded) + floor_runs < MaxChanges

-----------------------------------------------------------------------------
(* GET /verify/candidates *)

CoveredIn(p, s, m) ==
  {r.identity : r \in {x \in rows : x.program = p /\ x.secret = s /\ x.major = m}}

Covered(p) == CoveredIn(p, secret, major)

\* Slip: every failed attempt ends a program's candidacy.
DroppedByAnyFailure(p) ==
  LET latest == attempts[p][secret][major]
  IN  latest # None /\ latest.failure # None

\* Slip: a crash is taken to be worth another try.
DroppedByBuildOnly(p) ==
  LET latest == attempts[p][secret][major]
  IN  latest # None /\ latest.failure = "build_failed"

\* The program's latest attempt in the hub's scope failed deterministically.
Dropped(p) ==
  LET latest == attempts[p][secret][major]
  IN  latest # None /\ latest.failure \in {"build_failed", "crashed"}

\* The least covered first, ties by program id.
Before(p, q) ==
  LET a == Cardinality(Covered(p))
      b == Cardinality(Covered(q))
  IN  a < b \/ (a = b /\ Rank[p] < Rank[q])

Wanted == {p \in Program : ~Dropped(p) /\ Covered(p) # Identity}

\* verify_candidates; its reads of the tables are taken at one instant.
Candidates ==
  LET out == CHOOSE q \in SetToSeqs(Wanted) :
               \A i, j \in DOMAIN q : i < j => Before(q[i], q[j])
  IN  SubSeq(out, 1, IF Len(out) > Limit THEN Limit ELSE Len(out))

-----------------------------------------------------------------------------
(* POST /verify and POST /verify/attempts *)

\* Slip: any classified image is admitted.
AcceptsAnyMajor(s, image) == s = secret /\ image <= major

\* _check_hidden_evidence, for evidence of the right batch: its image has the
\* hub's major, and its secret is the hub's.
Accepts(s, image) == s = secret /\ image = major

\* INSERT OR IGNORE under the hub's major; `played` is what it was played under.
RowsWith(p, identity, s, image) ==
  IF identity \in CoveredIn(p, s, major) THEN rows
  ELSE rows \cup {[program |-> p, identity |-> identity, secret |-> s, major |-> major,
                   played |-> <<s, image>>]}

\* record_attempt files an attempt under the major of its image, and refuses an
\* image it cannot classify: one of a later major than its own.
Classifies(image) == image <= major

AttemptsWith(p, s, image, attempt) ==
  [attempts EXCEPT ![p][s][image] = attempt]

-----------------------------------------------------------------------------
(* A pass of a node: worker/server.py main *)

GetConfig(n) ==
  /\ node[n].stage = "config"
  /\ node' = [node EXCEPT ![n].stage = "candidates", ![n].secret = secret]
  /\ UNCHANGED <<hub, blips>>

GetCandidates(n) ==
  /\ node[n].stage = "candidates"
  /\ LET programs == Candidates
     IN  IF programs = <<>> THEN NewPass(n)
         ELSE node' = [node EXCEPT ![n].stage = "evaluate", ![n].queue = programs]
  /\ UNCHANGED <<hub, blips>>

\* Either call raises: the node backs off and starts the pass again.
HubUnreachable(n) ==
  /\ node[n].stage \in {"config", "candidates"}
  /\ Blip
  /\ NewPass(n)
  /\ UNCHANGED hub

\* What the loop does when verify_program returns or raises.
NextProgram(n) ==
  LET rest == Tail(node[n].queue)
  IN  IF rest = <<>> THEN NewPass(n)
      ELSE node' = [node EXCEPT ![n].stage = "evaluate", ![n].queue = rest,
                                ![n].done = 0, ![n].failure = None]

-----------------------------------------------------------------------------
(* worker/verify.py verify_program *)

\* fail: the attempt is to be reported with this failure.
Fails(n, failure) ==
  node' = [node EXCEPT ![n].stage = "report", ![n].failure = failure]

\* A pull that succeeds touches nothing shared, and is one step with the
\* first evaluation.
PullFails(n) ==
  /\ node[n].stage = "evaluate"
  /\ node[n].done = 0
  /\ Blip
  /\ Fails(n, "build_failed")
  /\ UNCHANGED hub

This(n) == Head(node[n].queue)
Current(n) == Identities[node[n].done + 1]

\* The arena run succeeds, and the rows it made are submitted.  It touches
\* nothing shared, so it is one step with the submission.
Posts(n) == node[n].stage = "evaluate" /\ Current(n) \notin Breaks[This(n)]

\* The arena run fails, through the program or through the host.
EvaluationFails(n) ==
  /\ node[n].stage = "evaluate"
  /\ \/ Current(n) \in Breaks[This(n)] /\ UNCHANGED blips
     \/ Current(n) \notin Breaks[This(n)] /\ Blip
  /\ Fails(n, "crashed")
  /\ UNCHANGED hub

\* The identity counts as done, and the next one follows.
Advance(n) ==
  LET done == node[n].done + 1
  IN  node' = [node EXCEPT ![n].done = done,
                 ![n].stage = IF done = Len(Identities) THEN "report" ELSE "evaluate"]

Store(n) ==
  rows' = RowsWith(This(n), Current(n), node[n].secret, node[n].image)

Post(n) ==
  /\ Posts(n)
  /\ Accepts(node[n].secret, node[n].image)
  /\ Store(n)
  /\ Advance(n)
  /\ UNCHANGED <<secret, major, floor, attempts, blips>>

\* Slip: a refused submission is logged, and the node goes on.
PostRefusedGoesOn(n) ==
  /\ Posts(n)
  /\ ~Accepts(node[n].secret, node[n].image)
  /\ Advance(n)
  /\ UNCHANGED <<hub, blips>>

PostRefused(n) ==
  /\ Posts(n)
  /\ ~Accepts(node[n].secret, node[n].image)
  /\ Fails(n, "infra_error")
  /\ UNCHANGED <<hub, blips>>

\* The call times out, before or after the hub stored the rows.
PostLost(n) ==
  /\ Posts(n)
  /\ Blip
  /\ \/ Accepts(node[n].secret, node[n].image) /\ Store(n)
     \/ UNCHANGED rows
  /\ Fails(n, "infra_error")
  /\ UNCHANGED <<secret, major, floor, attempts>>

Report(n) ==
  /\ node[n].stage = "report"
  /\ Classifies(node[n].image)
  /\ attempts' = AttemptsWith(This(n), node[n].secret, node[n].image,
                              [failure |-> node[n].failure, done |-> node[n].done])
  /\ NextProgram(n)
  /\ UNCHANGED <<secret, major, rows, floor, blips>>

\* The report raises out of verify_program, and the loop goes on.
ReportRefused(n) ==
  /\ node[n].stage = "report"
  /\ ~Classifies(node[n].image)
  /\ NextProgram(n)
  /\ UNCHANGED <<hub, blips>>

ReportLost(n) ==
  /\ node[n].stage = "report"
  /\ Blip
  /\ NextProgram(n)
  /\ UNCHANGED hub

-----------------------------------------------------------------------------
(* worker/verify.py compute_hidden_baseline, run by main with --baseline *)

FloorCovered(s, m) == {r.identity : r \in {x \in floor : x.secret = s /\ x.major = m}}

\* The process is started with --baseline and fetches the configuration.
StartFloor(n) ==
  /\ node[n].stage = "config"
  /\ MayChange /\ floor_runs < MaxFloorRuns
  /\ floor_runs' = floor_runs + 1
  /\ node' = [node EXCEPT ![n].stage = "todo", ![n].secret = secret]
  /\ UNCHANGED <<hub, blips>>

\* One identity of the comprehension, each of which asks the hub anew for what
\* its floor covers; queue collects `todo`.
AddTodo(n, wanted) ==
  LET done == node[n].done + 1
  IN  node' = [node EXCEPT ![n].done = done,
                 ![n].queue = IF wanted THEN Append(@, Current(n)) ELSE @,
                 ![n].stage = IF done = Len(Identities) THEN "floor" ELSE "todo"]

CheckCovered(n) ==
  /\ node[n].stage = "todo"
  /\ AddTodo(n, Current(n) \notin FloorCovered(secret, major))
  /\ UNCHANGED <<hub, blips>>

\* _covered_identities takes an error of the hub for a floor that covers nothing.
CheckCoveredLost(n) ==
  /\ node[n].stage = "todo"
  /\ Blip
  /\ AddTodo(n, TRUE)
  /\ UNCHANGED hub

FloorDue(n) == node[n].stage = "floor" /\ node[n].queue # <<>>

\* register_verified_baseline: INSERT OR IGNORE under the hub's major.
StoreFloor(n) ==
  LET identity == Head(node[n].queue)
      s        == node[n].secret
  IN  floor' = IF identity \in FloorCovered(s, major) THEN floor
               ELSE floor \cup {[identity |-> identity, secret |-> s, major |-> major,
                                 played |-> <<s, node[n].image>>]}

PostFloor(n) ==
  /\ FloorDue(n)
  /\ Accepts(node[n].secret, node[n].image)
  /\ StoreFloor(n)
  /\ node' = [node EXCEPT ![n].queue = Tail(@)]
  /\ UNCHANGED <<secret, major, rows, attempts, blips>>

\* "failed", and the process exits.
PostFloorRefused(n) ==
  /\ FloorDue(n)
  /\ ~Accepts(node[n].secret, node[n].image)
  /\ NewPass(n)
  /\ UNCHANGED <<hub, blips>>

\* So it does when the evaluation fails or the answer of the hub is lost.
FloorFails(n) ==
  /\ FloorDue(n)
  /\ Blip
  /\ \/ Accepts(node[n].secret, node[n].image) /\ StoreFloor(n)
     \/ UNCHANGED floor
  /\ NewPass(n)
  /\ UNCHANGED <<secret, major, rows, attempts>>

\* "succeeded".
FloorSucceeds(n) ==
  /\ node[n].stage = "floor" /\ node[n].queue = <<>>
  /\ NewPass(n)
  /\ UNCHANGED <<hub, blips>>

-----------------------------------------------------------------------------
(* Operators *)

\* The hub restarts with another secret, or as a release of a later major.
RotateSecret ==
  /\ MayChange /\ secret < MaxSecret
  /\ secret' = secret + 1
  /\ UNCHANGED <<major, rows, floor, attempts, node, floor_runs, blips>>

BumpMajor ==
  /\ MayChange /\ major < MaxMajor
  /\ major' = major + 1
  /\ UNCHANGED <<secret, rows, floor, attempts, node, floor_runs, blips>>

\* A node is restarted as a later release.
Upgrade(n) ==
  /\ MayChange /\ node[n].image < MaxMajor
  /\ node' = [node EXCEPT ![n] = Fresh(node[n].image + 1)]
  /\ UNCHANGED <<hub, blips>>

\* A node is killed, and started again.
Kill(n) ==
  /\ Blip
  /\ NewPass(n)
  /\ UNCHANGED hub

-----------------------------------------------------------------------------
Work(n) ==
  /\ UNCHANGED floor_runs
  /\ \/ GetConfig(n)
     \/ GetCandidates(n)
     \/ EvaluationFails(n)
     \/ Post(n)
     \/ PostRefused(n)
     \/ Report(n)
     \/ ReportRefused(n)
     \/ CheckCovered(n)
     \/ PostFloor(n)
     \/ PostFloorRefused(n)
     \/ FloorSucceeds(n)

Environment(n) ==
  /\ UNCHANGED floor_runs
  /\ \/ HubUnreachable(n)
     \/ PullFails(n)
     \/ PostLost(n)
     \/ ReportLost(n)
     \/ CheckCoveredLost(n)
     \/ FloorFails(n)
     \/ Upgrade(n)
     \/ Kill(n)

Next ==
  \/ RotateSecret
  \/ BumpMajor
  \/ \E n \in Node :
       \/ StartFloor(n)
       \/ Work(n)
       \/ Environment(n)

\* The daemon never stops, and each of its calls has a time limit.
Fairness == \A n \in Node : WF_vars(Work(n))

Spec == Init /\ [][Next]_vars /\ Fairness

-----------------------------------------------------------------------------
Stages == {"config", "candidates", "evaluate", "report", "todo", "floor"}

Attempt == [failure : Failures \cup {None}, done : 0..Len(Identities)]

TypeOK ==
  /\ secret \in Secret /\ major \in Major
  /\ rows \subseteq [program : Program, identity : Identity, secret : Secret,
                     major : Major, played : Secret \X Major]
  /\ attempts \in [Program -> [Secret -> [Major -> Attempt \cup {None}]]]
  /\ \A n \in Node :
       /\ node[n].stage \in Stages
       /\ node[n].image \in Major
       /\ node[n].secret \in Secret \cup {None}
       /\ \/ node[n].queue \in Seq(Program) /\ Len(node[n].queue) <= Limit
          \/ node[n].queue \in Seq(Identity) /\ Len(node[n].queue) <= Len(Identities)
       /\ node[n].done \in 0..Len(Identities)
       /\ node[n].failure \in Failures \cup {None}
  /\ floor \subseteq [identity : Identity, secret : Secret, major : Major,
                      played : Secret \X Major]
  /\ floor_runs \in 0..MaxFloorRuns
  /\ blips \in 0..MaxBlips

(* A board ranks only scores of one scope, against a floor of that scope: every
   row was played under the very secret and arena major it is filed under, though nodes hold the secret of an
   earlier rotation and run the image of an earlier or a later release
   (hub/verify.py:142-180). *)
RowsAreComparable == \A r \in rows \cup floor : r.played = <<r.secret, r.major>>

(* What a node reports is on the board: in the scope it is filed under, a
   program whose latest attempt succeeded is covered on every identity, and any
   attempt found at least as many covered as it says are done, whatever other
   nodes, rotations and lost replies did to the run (worker/verify.py:100-143). *)
ReportsAreOnTheBoard ==
  \A p \in Program, s \in Secret, m \in Major :
    LET attempt == attempts[p][s][m]
    IN  attempt # None =>
          /\ attempt.done <= Cardinality(CoveredIn(p, s, m))
          /\ attempt.failure = None => CoveredIn(p, s, m) = Identity

(* A run with --baseline that reports success leaves a floor that is complete in
   some scope: it skips identities "the hub already holds a complete batch for
   (every hidden seed covered, this epoch)" and submits the others
   (worker/verify.py:46-48).  It does not hold: each identity is asked about at
   another instant, and none in the scope the run submits to (see the README). *)
FloorIsWhole ==
  \A n \in Node : node[n].stage = "floor" /\ node[n].queue = <<>> =>
    \E s \in Secret, m \in Major : FloorCovered(s, m) = Identity

\* The latest attempt in the hub's scope reports a failure of the program.
FoundFailing(p) ==
  LET latest == attempts[p][secret][major]
  IN  latest # None /\ latest.failure \in {"build_failed", "crashed"}

HasCurrentNode == \E n \in Node : node[n].image = major

(* As long as some node runs the hub's arena major, every program ends up either
   covered on every identity or marked as failing deterministically: neither
   rotations, nor outages, nor nodes of another release leave one behind
   (hub/verify.py:378-415). *)
EveryProgramIsSettled ==
  <>[]HasCurrentNode => <>[](\A p \in Program : Covered(p) = Identity \/ FoundFailing(p))

(* And no node keeps evaluating: a program that fails deterministically is not
   handed back "to a verifier node forever" (hub/verify.py:370-375). *)
NodesComeToRest ==
  <>[]HasCurrentNode => <>[](\A n \in Node : node[n].stage \in {"config", "candidates"})

=============================================================================

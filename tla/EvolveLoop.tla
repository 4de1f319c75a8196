----------------------------- MODULE EvolveLoop -----------------------------
(***************************************************************************)
(* harness/loop.py run_loop: cold-start every cell of the archive, then     *)
(* pick a cell, mutate its elite with the operator, gate, evaluate,         *)
(* register with the hub, and insert the child where it improves.           *)
(*                                                                          *)
(* A program is archived under a digest.  The seed and the run's own        *)
(* children are archived under their content digest, so here a content      *)
(* digest is the tree itself; a program pulled from the hub is archived     *)
(* under its hub id, and HubTree gives the tree behind it (select.py).      *)
(***************************************************************************)
EXTENDS CellArchive, Sequences

CONSTANTS
  HubId,                  \* program ids the hub can serve
  HubTree,                \* the tree behind each hub id
  Seed,                   \* the tree of --seed
  Iterations,             \* bound: --iterations
  MaxConsecutiveErrors,   \* max_consecutive_errors (3 in the code)
  AttemptRefsCap,         \* _ATTEMPT_REFS_CAP (3 in the code)
  None                    \* Python's None

Tree == Digest \ HubId

ASSUME LoopAssumption ==
  /\ HubId \subseteq Digest
  /\ HubTree \in [HubId -> Tree]
  /\ Seed \in Tree
  /\ Identity # {}
  /\ Iterations \in Nat
  /\ MaxConsecutiveErrors \in Nat \ {0}
  /\ AttemptRefsCap \in Nat \ {0}
  /\ None \notin Digest

Content(d) == IF d \in HubId THEN HubTree[d] ELSE d

VARIABLES
  phase,                \* where run_loop is
  from_seed,            \* the --from-seed flag
  elites,               \* per_identity_elites: each identity's hub champion
  unscored,             \* champions the cold start has yet to evaluate
  k,                    \* iterations begun
  parent_digest,        \* digest of the cell the iteration mutates
  worktree,             \* what the operator left in the worktree
  dev_ev,               \* the child's dev evidence
  reference_bound,      \* a publish call has returned: the local is assigned
  hub_ok,               \* no hub_reason: the child was registered
  consecutive_errors,   \* the operator circuit breaker
  attempts,             \* iterations shown to the mutator under /refs/attempts
  wins,
  results,              \* the IterationResults returned, in order
  stop,                 \* the stop event
  hub_rows,             \* iterations whose child the hub holds
  children,             \* history: the child each iteration archived, if it did
  offered               \* history: the programs inserted, with their evidence

coldVars == <<from_seed, elites, unscored>>
childVars == <<parent_digest, worktree, dev_ev, reference_bound, hub_ok>>
tallyVars == <<consecutive_errors, attempts, wins, results, children>>
vars == <<archiveVars, phase, coldVars, k, childVars, tallyVars, stop, hub_rows,
          offered>>

Phases == {"champions", "seed", "union", "top", "operator", "gate", "dev",
           "publish", "register", "insert", "done", "aborted", "crashed"}

Champions(e) == {e[i] : i \in Identity} \ {None}

Init ==
  /\ ArchiveInit
  /\ phase = "champions"
  /\ from_seed \in BOOLEAN
  /\ elites \in [Identity -> IF from_seed THEN {None} ELSE HubId \cup {None}]
  /\ unscored = Champions(elites)
  /\ k = 0
  /\ parent_digest = None /\ worktree = None /\ dev_ev = None
  /\ reference_bound = FALSE /\ hub_ok = FALSE
  /\ consecutive_errors = 0
  /\ attempts = <<>> /\ wins = 0 /\ results = <<>>
  /\ children = [i \in 1..Iterations |-> None]
  /\ stop = FALSE
  /\ hub_rows = {}
  /\ offered = {}

\* Slip: the program is written to every cell its evidence covers.
EnterEveryCoveredCell(d, ev) ==
  LET elite == [digest |-> d, dev_evidence |-> ev]
  IN  /\ cells' = [i \in Identity |-> IF Covers(ev, i) THEN elite ELSE cells[i]]
      /\ union' = union
      /\ offered' = offered \cup {elite}

\* The loop inserts a program with the evidence just evaluated.
Enter(d, ev) ==
  /\ insert(d, ev)
  /\ offered' = offered \cup {[digest |-> d, dev_evidence |-> ev]}

-----------------------------------------------------------------------------
(* Cold start *)

\* Each champion is scored once, on the identities it is the elite of.
ScoreChampion(d) ==
  /\ phase = "champions"
  /\ d \in unscored
  /\ \E ev \in [{i \in Identity : elites[i] = d} -> Score] : Enter(d, ev)
  /\ unscored' = unscored \ {d}
  /\ UNCHANGED <<phase, from_seed, elites, k, childVars, tallyVars, stop, hub_rows>>

ChampionsScored ==
  /\ phase = "champions"
  /\ unscored = {}
  /\ phase' = "seed"
  /\ UNCHANGED <<archiveVars, coldVars, k, childVars, tallyVars, stop, hub_rows,
                 offered>>

\* Slip: the seed is scored only when the hub has no champion at all.
SeedIdentitiesOfAnEmptyHub == IF Champions(elites) = {} THEN Identity ELSE {}

SeedIdentities == {i \in Identity : elites[i] = None}

\* The seed is scored on the identities no champion covers.
ScoreSeed ==
  /\ phase = "seed"
  /\ \/ /\ SeedIdentities # {}
        /\ \E ev \in [SeedIdentities -> Score] : Enter(Seed, ev)
     \/ /\ SeedIdentities = {}
        /\ UNCHANGED <<archiveVars, offered>>
  /\ phase' = "union"
  /\ UNCHANGED <<coldVars, k, childVars, tallyVars, stop, hub_rows>>

\* The union cell is seeded from the board's first row, if there is one and it
\* resolves; then the baseline iteration is reported.
ScoreUnionChampion ==
  /\ phase = "union"
  /\ \/ /\ ~from_seed /\ Cardinality(Identity) > 1
        /\ \E d \in HubId, ev \in FullEvidence : Enter(d, ev)
     \/ UNCHANGED <<archiveVars, offered>>
  /\ phase' = "top"
  /\ UNCHANGED <<coldVars, k, childVars, tallyVars, stop, hub_rows>>

\* A cold-start evaluation that raises is not caught: the run ends.
ColdStartRaises ==
  /\ \/ phase = "champions" /\ unscored # {}
     \/ phase = "seed" /\ SeedIdentities # {}
     \/ phase = "union" /\ ~from_seed /\ Cardinality(Identity) > 1
  /\ phase' = "crashed"
  /\ UNCHANGED <<archiveVars, coldVars, k, childVars, tallyVars, stop, hub_rows,
                 offered>>

-----------------------------------------------------------------------------
(* One iteration *)

\* An IterationResult; hub_ok says it carries no hub_reason though evaluated.
Record(op, outcome) ==
  results' = Append(results, [iteration |-> k', op |-> op, outcome |-> outcome,
                              hub_ok |-> outcome \in {"registered", "no-cell-improved"}
                                         /\ hub_ok])

\* Slip: a stop keeps the next iteration from starting but not the loop going.
FinishOnBudget ==
  /\ phase = "top"
  /\ k = Iterations
  /\ phase' = "done"
  /\ UNCHANGED <<archiveVars, coldVars, k, childVars, tallyVars, stop, hub_rows,
                 offered>>

\* The stop event is read only between iterations.
Finish ==
  /\ phase = "top"
  /\ stop \/ k = Iterations
  /\ phase' = "done"
  /\ UNCHANGED <<archiveVars, coldVars, k, childVars, tallyVars, stop, hub_rows,
                 offered>>

BeginIteration ==
  /\ phase = "top"
  /\ ~stop
  /\ k < Iterations
  /\ k' = k + 1

Labels == IF union = NoCell THEN Identity ELSE Identity \cup {UnionLabel}

CellOf(label) == IF label = UnionLabel THEN union ELSE cells[label]

\* Draw a cell and copy its elite's tree into the worktree.
PickCell(label) ==
  /\ BeginIteration
  /\ label \in Labels
  /\ CellOf(label) # NoCell
  /\ parent_digest' = CellOf(label).digest
  /\ worktree' = Content(CellOf(label).digest)
  /\ phase' = "operator"
  /\ UNCHANGED <<archiveVars, coldVars, dev_ev, reference_bound, hub_ok, tallyVars,
                 stop, hub_rows, offered>>

\* Copying the tree or assembling /refs/ raises, before the operator runs.
PrepareRaises ==
  /\ BeginIteration
  /\ Record("none", "error")
  /\ UNCHANGED <<archiveVars, phase, coldVars, childVars, consecutive_errors,
                 attempts, wins, children, stop, hub_rows, offered>>

\* Slip: an operator that returns does not clear the breaker.
OperatorReturnsUncounted(tree) ==
  /\ phase = "operator"
  /\ worktree' = tree
  /\ phase' = "gate"
  /\ UNCHANGED <<archiveVars, coldVars, k, parent_digest, dev_ev, reference_bound,
                 hub_ok, tallyVars, stop, hub_rows, offered>>

\* The operator returns; a stop kills it, and it still returns with whatever
\* is in the worktree.
OperatorReturns(tree) ==
  /\ phase = "operator"
  /\ worktree' = tree
  /\ consecutive_errors' = 0
  /\ phase' = "gate"
  /\ UNCHANGED <<archiveVars, coldVars, k, parent_digest, dev_ev, reference_bound, hub_ok,
                 attempts, wins, results, children, stop, hub_rows, offered>>

\* The operator raises; a refused request counts as the last strike.
OperatorRaises(refused) ==
  /\ phase = "operator"
  /\ consecutive_errors' =
       IF refused THEN MaxConsecutiveErrors ELSE consecutive_errors + 1
  /\ phase' = IF consecutive_errors' >= MaxConsecutiveErrors THEN "aborted" ELSE "top"
  /\ UNCHANGED k
  /\ Record(IF refused THEN "refused" ELSE "failed", "operator-error")
  /\ UNCHANGED <<archiveVars, coldVars, childVars, attempts, wins, children, stop,
                 hub_rows, offered>>

\* passes_gate compares the worktree's content digest with the digest the
\* parent is archived under.
GatePasses ==
  /\ phase = "gate"
  /\ worktree # parent_digest
  /\ phase' = "dev"
  /\ UNCHANGED <<archiveVars, coldVars, k, childVars, tallyVars, stop, hub_rows,
                 offered>>

\* A gate that rejects (a missing file, a smoke episode that does not complete,
\* a child identical to its parent), or an exception from here on before the
\* child is saved, ends the iteration.
IterationFails(outcome) ==
  /\ \/ phase = "gate" /\ outcome \in {"gate", "error"}
     \/ phase = "dev" /\ outcome = "error"
  /\ phase' = "top"
  /\ UNCHANGED k
  /\ Record("ok", outcome)
  /\ UNCHANGED <<archiveVars, coldVars, childVars, consecutive_errors, attempts,
                 wins, children, stop, hub_rows, offered>>

DevEval ==
  /\ phase = "dev"
  /\ dev_ev' \in FullEvidence
  /\ phase' = "publish"
  /\ UNCHANGED <<archiveVars, coldVars, k, parent_digest, worktree, reference_bound, hub_ok,
                 tallyVars, stop, hub_rows, offered>>

\* publish returned the pushed repo@commit.
Publish ==
  /\ phase = "publish"
  /\ reference_bound' = TRUE
  /\ phase' = "register"
  /\ UNCHANGED <<archiveVars, coldVars, k, parent_digest, worktree, dev_ev, hub_ok,
                 tallyVars, stop, hub_rows, offered>>

\* No publisher, or publish returned None, or it raised; only the first two
\* assign the local `reference`.  The child stays local.
NotPublished(raised) ==
  /\ phase = "publish"
  /\ reference_bound' = (reference_bound \/ ~raised)
  /\ hub_ok' = FALSE
  /\ phase' = "insert"
  /\ UNCHANGED <<archiveVars, coldVars, k, parent_digest, worktree, dev_ev, tallyVars,
                 stop, hub_rows, offered>>

\* register_win: the hub stores the child or not, and the call returns or
\* raises; it cannot return without the hub having stored it, but a reply can
\* be lost after the hub stored it.
Register(stored, returns) ==
  /\ phase = "register"
  /\ returns => stored
  /\ hub_rows' = IF stored THEN hub_rows \cup {k} ELSE hub_rows
  /\ hub_ok' = returns
  /\ phase' = "insert"
  /\ UNCHANGED <<archiveVars, coldVars, k, parent_digest, worktree, dev_ev,
                 reference_bound, tallyVars, stop, offered>>

\* The last AttemptRefsCap evaluated children, most recent last.
Remember(i) ==
  LET all == Append(attempts, i)
      n   == Len(all)
  IN  IF n > AttemptRefsCap THEN SubSeq(all, n - AttemptRefsCap + 1, n) ELSE all

Archived ==
  /\ phase = "insert"
  /\ Enter(worktree, dev_ev)
  /\ attempts' = Remember(k)
  /\ children' = [children EXCEPT ![k] = worktree]
  /\ phase' = "top"
  /\ UNCHANGED <<coldVars, k, childVars, consecutive_errors, stop, hub_rows>>

\* Slip: only identity cells count as improved, so a union-only gain is lost.
InsertChildByIdentity ==
  /\ Archived
  /\ LET won == \E i \in Identity : Improves(dev_ev, i)
     IN  /\ won => reference_bound
         /\ wins' = IF won THEN wins + 1 ELSE wins
         /\ Record("ok", IF won THEN "registered" ELSE "no-cell-improved")

\* Archive the child, remember the attempt, and record the iteration.
InsertChild ==
  /\ Archived
  /\ LET won == Improved(dev_ev) # {}
     IN  /\ won => reference_bound
         /\ wins' = IF won THEN wins + 1 ELSE wins
         /\ Record("ok", IF won THEN "registered" ELSE "no-cell-improved")

\* The origin of a winning child reads `reference`; unassigned, that raises
\* with the child already archived, and the iteration is recorded as an error.
ReferenceUnbound ==
  /\ Archived
  /\ Improved(dev_ev) # {}
  /\ ~reference_bound
  /\ Record("ok", "unbound")
  /\ UNCHANGED wins

\* The user stops the run, at any moment.
RequestStop ==
  /\ ~stop
  /\ stop' = TRUE
  /\ UNCHANGED <<archiveVars, phase, coldVars, k, childVars, tallyVars, hub_rows,
                 offered>>

ColdStart ==
  \/ \E d \in HubId : ScoreChampion(d)
  \/ ChampionsScored
  \/ ScoreSeed
  \/ ScoreUnionChampion
  \/ ColdStartRaises

Iterate ==
  \/ \E label \in Identity \cup {UnionLabel} : PickCell(label)
  \/ PrepareRaises
  \/ \E tree \in Tree : OperatorReturns(tree)
  \/ \E refused \in BOOLEAN : OperatorRaises(refused)
  \/ GatePasses
  \/ \E outcome \in {"gate", "error"} : IterationFails(outcome)
  \/ DevEval
  \/ Publish
  \/ \E raised \in BOOLEAN : NotPublished(raised)
  \/ \E stored, returns \in BOOLEAN : Register(stored, returns)
  \/ InsertChild
  \/ ReferenceUnbound
  \/ Finish

Next == ColdStart \/ Iterate \/ RequestStop

\* The run makes progress: the operator's container, every evaluation and every
\* HTTP call have a wall-clock limit.  The gh and git commands of Publish run
\* without one (publish.py:45, 161, 265): that an external command returns or
\* fails is assumed of the environment.  Nothing makes the user stop a run.
Fairness == WF_vars(ColdStart) /\ WF_vars(Iterate)

Spec == Init /\ [][Next]_vars /\ Fairness

-----------------------------------------------------------------------------
Outcomes == {"operator-error", "gate", "error", "registered", "no-cell-improved",
             "unbound"}

Result == [iteration : 1..Iterations,
           op : {"none", "ok", "failed", "refused"},
           outcome : Outcomes,
           hub_ok : BOOLEAN]

TypeOK ==
  /\ ArchiveTypeOK
  /\ phase \in Phases
  /\ from_seed \in BOOLEAN
  /\ elites \in [Identity -> HubId \cup {None}]
  /\ unscored \subseteq HubId
  /\ k \in 0..Iterations
  /\ parent_digest \in Digest \cup {None}
  /\ worktree \in Tree \cup {None}
  /\ dev_ev \in FullEvidence \cup {None}
  /\ reference_bound \in BOOLEAN /\ hub_ok \in BOOLEAN
  /\ consecutive_errors \in 0..MaxConsecutiveErrors
  /\ attempts \in Seq(1..Iterations)
  /\ wins \in 0..Iterations
  /\ results \in Seq(Result)
  /\ children \in [1..Iterations -> Tree \cup {None}]
  /\ stop \in BOOLEAN
  /\ hub_rows \subseteq 1..Iterations
  /\ offered \subseteq Elite

ResultSet == {results[n] : n \in DOMAIN results}

EvaluatedOutcomes == {"registered", "no-cell-improved", "unbound"}

(* Once the cold start is over every identity's cell is filled, whatever mix of
   champions and seed filled them, so the parent draw of every iteration finds
   an elite: _pick_cell runs outside the loop's try (loop.py:303-346, 389). *)
EveryCellCanBePicked ==
  phase \notin {"champions", "seed", "union", "crashed"} =>
    \A i \in Identity : cells[i] # NoCell

\* The results of the operator runs that failed since the last that did not.
Streak ==
  {n \in DOMAIN results :
     /\ results[n].op = "failed"
     /\ \A m \in n..Len(results) : results[m].op \in {"failed", "none"}}

\* The last operator run was refused.
LastRefused ==
  \E n \in DOMAIN results :
    /\ results[n].op = "refused"
    /\ \A m \in (n + 1)..Len(results) : results[m].op = "none"

(* The run aborts exactly when its last operator run was refused, or its last
   MaxConsecutiveErrors operator runs all failed: iterations that fail for
   another reason in between neither reset nor feed the breaker
   (loop.py:437-462, 555-559). *)
BreakerTripsExactlyOnAStreak ==
  (phase = "aborted") <=> LastRefused \/ Cardinality(Streak) >= MaxConsecutiveErrors

Reports(outcomes, d) ==
  \E r \in ResultSet : r.outcome \in outcomes /\ children[r.iteration] = d

(* Every elite of the archive is accounted for: it came from the hub or is the
   seed, or an iteration that evaluated and archived it reported a gain; and
   wins counts the reported gains.  An iteration that reports no gain put
   nothing into the archive, and the hub holds the child of every iteration
   that gives no hub_reason, and of none that evaluated nothing
   (loop.py:470-554). *)
ElitesAreAccountedFor ==
  /\ \A e \in ({cells[i] : i \in Identity} \cup {union}) \ {NoCell} :
       e.digest \in HubId \cup {Seed} \/ Reports({"registered", "unbound"}, e.digest)
  /\ wins = Cardinality({n \in DOMAIN results : results[n].outcome = "registered"})
  /\ \A r \in ResultSet :
       /\ r.outcome \notin EvaluatedOutcomes => r.iteration \notin hub_rows
       /\ r.hub_ok => r.iteration \in hub_rows

\* The loop is a client of the archive: cold start, children and all.
Archive == INSTANCE ArchiveSpec
             WITH MaxInserts <- Iterations + Cardinality(Identity) + 2

(* Every archive change the loop makes is an insertion of a program with the
   evidence just evaluated for it, so what is proved of the archive under any
   client holds of the run (loop.py:335, 344, 363, 516). *)
ImplementsArchive == Archive!OfferSpec

(* A run ends: every iteration ends in one of the recorded ways, the budget and
   the breaker bound them, and a stop ends it early (loop.py:385-460, 560). *)
Terminates == <>(phase \in {"done", "aborted", "crashed"})

(* loop.py:490-494: publishing is best-effort, "the child still enters the
   archive below even if the hub is unreachable; `hub_reason` records WHY it
   stayed local-only", so every child in the archive is reported as a gain. It does
   not hold: see the README. *)
LocalElitesAreReported ==
  \A e \in ({cells[i] : i \in Identity} \cup {union}) \ {NoCell} :
    e.digest \in HubId \cup {Seed} \/ Reports({"registered"}, e.digest)

(* docs/harness.md:129: the smoke gate fails a mutant "identical to its
   parent", so no child is scored with its parent's own tree. It does
   not hold: see the README. *)
IdenticalChildNeverScored ==
  phase \in {"dev", "publish", "register", "insert"} =>
    worktree # Content(parent_digest)

=============================================================================

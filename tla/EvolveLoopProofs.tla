-------------------------- MODULE EvolveLoopProofs --------------------------
(***************************************************************************)
(* Proofs about the evolve loop and the monitor that watches it, for any    *)
(* set of identities, programs and scores, any budget of iterations and any *)
(* limit of the breaker.                                                    *)
(***************************************************************************)
EXTENDS Monitor, FiniteSetTheorems, TLAPS

-----------------------------------------------------------------------------
(* THE ARCHIVE, AS THE LOOP USES IT *)

LEMMA FullIsEvidence ==
  /\ FullEvidence \subseteq Evidence
  /\ \A ev \in FullEvidence : DOMAIN ev = Identity /\ \A i \in Identity : ev[i] \in Int
  /\ None \notin HubId
<1>1. Identity \in (SUBSET Identity) \ {{}}
  BY LoopAssumption
<1>2. QED
  BY <1>1, ConstantsAssumption, LoopAssumption DEF FullEvidence, Evidence

LEMMA SliceIsEvidence ==
  ASSUME NEW D, D \subseteq Identity, D # {}, NEW ev \in [D -> Score]
  PROVE  ev \in Evidence
BY DEF Evidence

LEMMA EvidenceFacts ==
  ASSUME NEW ev \in Evidence
  PROVE  /\ DOMAIN ev \subseteq Identity
         /\ \A i \in DOMAIN ev : ev[i] \in Int
         /\ Identity \subseteq DOMAIN ev => ev \in FullEvidence
<1>1. PICK D \in (SUBSET Identity) \ {{}} : ev \in [D -> Score]
  BY DEF Evidence
<1>2. QED
  BY <1>1, ConstantsAssumption DEF FullEvidence

(* insert keeps the types of the archive and the history of what it was given. *)
LEMMA EnterTyped ==
  ASSUME ArchiveTypeOK, offered \subseteq Elite,
         NEW d \in Digest, NEW ev \in Evidence, Enter(d, ev)
  PROVE  /\ ArchiveTypeOK'
         /\ offered' \subseteq Elite
<1> DEFINE elite == [digest |-> d, dev_evidence |-> ev]
<1>1. elite \in Elite /\ elite # NoCell
  BY NoCellAssumption DEF Elite
<1>2. /\ cells' = [i \in Identity |-> IF i \in Takes(d, ev) THEN elite ELSE cells[i]]
      /\ union' = IF ImprovesUnion(ev) THEN elite ELSE union
      /\ offered' = offered \cup {elite}
  BY DEF Enter, insert
<1>3. cells' \in [Identity -> Elite \cup {NoCell}]
  BY <1>1, <1>2 DEF ArchiveTypeOK
<1>4. \A i \in Takes(d, ev) : i \in DOMAIN ev
  BY DEF Takes, Improves, Ties, Covers
<1>5. ASSUME NEW i \in Identity, cells'[i] # NoCell
      PROVE  i \in DOMAIN cells'[i].dev_evidence
  BY <1>2, <1>4, <1>5 DEF ArchiveTypeOK
<1>6. ImprovesUnion(ev) => ev \in FullEvidence
  BY EvidenceFacts DEF ImprovesUnion
<1>7. union' \in [digest : Digest, dev_evidence : FullEvidence] \cup {NoCell}
  BY <1>2, <1>6 DEF ArchiveTypeOK
<1>8. QED
  BY <1>1, <1>2, <1>3, <1>5, <1>7 DEF ArchiveTypeOK

(* insert empties no cell and fills those the evidence covers. *)
LEMMA EnterFills ==
  ASSUME NEW d \in Digest, NEW ev \in Evidence, Enter(d, ev), NEW i \in Identity
  PROVE  cells[i] # NoCell \/ Covers(ev, i) => cells'[i] # NoCell
<1> DEFINE elite == [digest |-> d, dev_evidence |-> ev]
<1>1. elite # NoCell
  BY NoCellAssumption DEF Elite
<1>2. cells'[i] = IF i \in Takes(d, ev) THEN elite ELSE cells[i]
  BY DEF Enter, insert
<1>3. Covers(ev, i) /\ cells[i] = NoCell => i \in Takes(d, ev)
  BY DEF Takes, Improves
<1>4. QED
  BY <1>1, <1>2, <1>3

(* Whatever enters the archive was there before or is the program inserted,
   which then improved something. *)
LEMMA EnterBrings ==
  ASSUME NEW d, NEW ev, Enter(d, ev),
         NEW e \in {cells'[i] : i \in Identity} \cup {union'}
  PROVE  \/ e \in {cells[i] : i \in Identity} \cup {union}
         \/ e = [digest |-> d, dev_evidence |-> ev] /\ Improved(ev) # {}
<1> DEFINE elite == [digest |-> d, dev_evidence |-> ev]
<1>1. /\ cells' = [i \in Identity |-> IF i \in Takes(d, ev) THEN elite ELSE cells[i]]
      /\ union' = IF ImprovesUnion(ev) THEN elite ELSE union
  BY DEF Enter, insert
<1>2. Takes(d, ev) # {} \/ ImprovesUnion(ev) => Improved(ev) # {}
  BY DEF Takes, Improved
<1>3. QED
  BY <1>1, <1>2

-----------------------------------------------------------------------------
(* TYPE CORRECTNESS *)

\* What the types rest on: a champion is the elite of some identity, an
\* iteration under way has its parent and its
\* worktree, a child past its dev evaluation has evidence, at most one win was
\* counted per iteration begun, and a run goes on only below the breaker.
Typed ==
  /\ TypeOK
  /\ unscored \subseteq Champions(elites)
  /\ phase \in Working => k >= 1 /\ parent_digest \in Digest /\ worktree \in Tree
  /\ phase \in {"publish", "register", "insert"} => dev_ev \in FullEvidence
  /\ wins <= k /\ (phase \in Working => wins < k)
  /\ phase # "aborted" => consecutive_errors < MaxConsecutiveErrors

LEMMA ContentIsATree == \A d \in Digest : Content(d) \in Tree
BY LoopAssumption DEF Content, Tree

LEMMA RecordTyped ==
  ASSUME results \in Seq(Result), hub_ok \in BOOLEAN, k' \in 1..Iterations,
         NEW op \in {"none", "ok", "failed", "refused"}, NEW outcome \in Outcomes,
         Record(op, outcome)
  PROVE  results' \in Seq(Result)
<1> DEFINE r == [iteration |-> k', op |-> op, outcome |-> outcome,
                 hub_ok |-> outcome \in {"registered", "no-cell-improved"} /\ hub_ok]
<1>1. r \in Result
  BY DEF Result
<1>2. results' = Append(results, r)
  BY DEF Record
<1>3. QED
  BY <1>1, <1>2

LEMMA RememberTyped ==
  ASSUME attempts \in Seq(1..Iterations), NEW i \in 1..Iterations
  PROVE  Remember(i) \in Seq(1..Iterations)
<1> DEFINE all == Append(attempts, i)
           n == Len(all)
<1>1. all \in Seq(1..Iterations) /\ n \in Nat
  OBVIOUS
<1>2. n > AttemptRefsCap =>
        SubSeq(all, n - AttemptRefsCap + 1, n) \in Seq(1..Iterations)
  BY <1>1, LoopAssumption
<1>3. QED
  BY <1>1, <1>2 DEF Remember

LEMMA InitTyped == Init => Typed
<1> SUFFICES ASSUME Init
             PROVE  Typed
  OBVIOUS
<1>1. elites \in [Identity -> HubId \cup {None}]
  BY DEF Init
<1>2. unscored = Champions(elites) /\ unscored \subseteq HubId
  BY <1>1 DEF Init, Champions
<1>3. ArchiveTypeOK
  BY DEF Init, ArchiveInit, ArchiveTypeOK
<1>4. results \in Seq(Result) /\ attempts \in Seq(1..Iterations)
  BY DEF Init
<1>5. children \in [1..Iterations -> Tree \cup {None}]
  BY DEF Init
<1>6. from_seed \in BOOLEAN /\ reference_bound \in BOOLEAN /\ hub_ok \in BOOLEAN
      /\ stop \in BOOLEAN
  BY Zenon DEF Init
<1>7. /\ phase \in Phases /\ k \in 0..Iterations /\ wins \in 0..Iterations
      /\ consecutive_errors \in 0..MaxConsecutiveErrors
  BY LoopAssumption DEF Init, Phases
<1>8. TypeOK
  BY <1>1, <1>2, <1>3, <1>4, <1>5, <1>6, <1>7 DEF Init, TypeOK
<1>9. QED
  BY <1>2, <1>8, LoopAssumption DEF Init, Typed, Working

(* An insertion of the cold start leaves the rest of the state of its type. *)
LEMMA ColdStartTyped ==
  ASSUME Typed, ColdStart
  PROVE  Typed'
<1> USE LoopAssumption DEF Typed, TypeOK, Phases, Working
<1>1. ASSUME NEW d \in HubId, ScoreChampion(d)
      PROVE  Typed'
  <2> DEFINE own == {i \in Identity : elites[i] = d}
  <2>1. PICK ev \in [own -> Score] : Enter(d, ev)
    BY <1>1 DEF ScoreChampion
  <2>2. own # {}
    BY <1>1 DEF ScoreChampion, Champions
  <2>3. ev \in Evidence
    BY <2>2, SliceIsEvidence
  <2>4. ArchiveTypeOK' /\ offered' \subseteq Elite
    BY <2>1, <2>3, EnterTyped
  <2>5. QED
    BY <1>1, <2>4 DEF ScoreChampion, childVars, tallyVars
<1>2. CASE ChampionsScored
  BY <1>2 DEF ChampionsScored, archiveVars, ArchiveTypeOK, coldVars, childVars, tallyVars
<1>3. CASE ScoreSeed
  <2>1. ArchiveTypeOK' /\ offered' \subseteq Elite
    <3>1. CASE SeedIdentities # {}
      <4>1. PICK ev \in [SeedIdentities -> Score] : Enter(Seed, ev)
        BY <1>3, <3>1 DEF ScoreSeed
      <4>2. ev \in Evidence /\ Seed \in Digest
        BY <3>1, SliceIsEvidence DEF SeedIdentities, Tree
      <4>3. QED
        BY <4>1, <4>2, EnterTyped
    <3>2. CASE SeedIdentities = {}
      BY <1>3, <3>2 DEF ScoreSeed, archiveVars, ArchiveTypeOK
    <3>3. QED
      BY <3>1, <3>2
  <2>2. QED
    BY <1>3, <2>1 DEF ScoreSeed, coldVars, childVars, tallyVars
<1>4. CASE ScoreUnionChampion
  <2>1. ArchiveTypeOK' /\ offered' \subseteq Elite
    <3>1. ASSUME NEW d \in HubId, NEW ev \in FullEvidence, Enter(d, ev)
          PROVE  ArchiveTypeOK' /\ offered' \subseteq Elite
      BY <3>1, FullIsEvidence, EnterTyped
    <3>2. CASE UNCHANGED <<archiveVars, offered>>
      BY <3>2 DEF archiveVars, ArchiveTypeOK
    <3>3. QED
      BY <1>4, <3>1, <3>2 DEF ScoreUnionChampion
  <2>2. QED
    BY <1>4, <2>1 DEF ScoreUnionChampion, coldVars, childVars, tallyVars
<1>5. CASE ColdStartRaises
  BY <1>5 DEF ColdStartRaises, archiveVars, ArchiveTypeOK, coldVars, childVars, tallyVars
<1>6. QED
  BY <1>1, <1>2, <1>3, <1>4, <1>5 DEF ColdStart

(* Where an action leaves the archive alone, its types stay. *)
LEMMA ArchiveUntouched ==
  ASSUME ArchiveTypeOK, UNCHANGED archiveVars
  PROVE  ArchiveTypeOK'
BY DEF archiveVars, ArchiveTypeOK

LEMMA IterateTyped ==
  ASSUME Typed, Iterate
  PROVE  Typed'
<1> USE LoopAssumption DEF Typed, TypeOK, Phases, Working
<1>1. ASSUME NEW label \in Identity \cup {UnionLabel}, PickCell(label)
      PROVE  Typed'
  <2>1. CellOf(label).digest \in Digest
    <3>1. CASE label = UnionLabel
      BY <1>1, <3>1, FullIsEvidence DEF PickCell, CellOf, ArchiveTypeOK
    <3>2. CASE label # UnionLabel
      BY <1>1, <3>2 DEF PickCell, CellOf, ArchiveTypeOK, Elite
    <3>3. QED
      BY <3>1, <3>2
  <2>2. parent_digest' \in Digest /\ worktree' \in Tree
    BY <1>1, <2>1, ContentIsATree DEF PickCell
  <2>3. ArchiveTypeOK'
    BY <1>1, ArchiveUntouched DEF PickCell
  <2>4. QED
    BY <1>1, <2>2, <2>3 DEF PickCell, BeginIteration, coldVars, tallyVars
<1>2. CASE PrepareRaises
  <2>1. k' \in 1..Iterations
    BY <1>2 DEF PrepareRaises, BeginIteration
  <2>2. results' \in Seq(Result)
    BY <1>2, <2>1, RecordTyped DEF PrepareRaises, Outcomes
  <2>3. ArchiveTypeOK'
    BY <1>2, ArchiveUntouched DEF PrepareRaises
  <2>4. QED
    BY <1>2, <2>2, <2>3 DEF PrepareRaises, BeginIteration, coldVars, childVars
<1>3. ASSUME NEW tree \in Tree, OperatorReturns(tree)
      PROVE  Typed'
  <2>1. ArchiveTypeOK'
    BY <1>3, ArchiveUntouched DEF OperatorReturns
  <2>2. QED
    BY <1>3, <2>1 DEF OperatorReturns, coldVars
<1>4. ASSUME NEW refused \in BOOLEAN, OperatorRaises(refused)
      PROVE  Typed'
  <2>1. k' \in 1..Iterations
    BY <1>4 DEF OperatorRaises
  <2>2. results' \in Seq(Result)
    BY <1>4, <2>1, RecordTyped DEF OperatorRaises, Outcomes
  <2>3. ArchiveTypeOK'
    BY <1>4, ArchiveUntouched DEF OperatorRaises
  <2>4. consecutive_errors' \in 0..MaxConsecutiveErrors
    BY <1>4 DEF OperatorRaises
  <2>5. phase' \in {"aborted", "top"}
        /\ (phase' # "aborted" => consecutive_errors' < MaxConsecutiveErrors)
    BY <1>4, <2>4 DEF OperatorRaises
  <2>6. QED
    BY <1>4, <2>2, <2>3, <2>4, <2>5 DEF OperatorRaises, coldVars, childVars
<1>5. CASE GatePasses
  BY <1>5, ArchiveUntouched DEF GatePasses, coldVars, childVars, tallyVars
<1>6. ASSUME NEW outcome \in {"gate", "error"}, IterationFails(outcome)
      PROVE  Typed'
  <2>1. k' \in 1..Iterations
    BY <1>6 DEF IterationFails
  <2>2. results' \in Seq(Result)
    BY <1>6, <2>1, RecordTyped DEF IterationFails, Outcomes
  <2>3. ArchiveTypeOK'
    BY <1>6, ArchiveUntouched DEF IterationFails
  <2>4. QED
    BY <1>6, <2>2, <2>3 DEF IterationFails, coldVars, childVars
<1>7. CASE DevEval
  BY <1>7, ArchiveUntouched DEF DevEval, coldVars, tallyVars
<1>8. CASE Publish
  BY <1>8, ArchiveUntouched DEF Publish, coldVars, tallyVars
<1>9. ASSUME NEW raised \in BOOLEAN, NotPublished(raised)
      PROVE  Typed'
  <2>1. ArchiveTypeOK'
    BY <1>9, ArchiveUntouched DEF NotPublished
  <2>2. QED
    BY <1>9, <2>1 DEF NotPublished, coldVars, tallyVars
<1>10. ASSUME NEW stored \in BOOLEAN, NEW returns \in BOOLEAN, Register(stored, returns)
       PROVE  Typed'
  <2>1. ArchiveTypeOK'
    BY <1>10, ArchiveUntouched DEF Register
  <2>2. QED
    BY <1>10, <2>1 DEF Register, coldVars, tallyVars
<1>11. ASSUME Archived, NEW outcome \in {"registered", "no-cell-improved", "unbound"},
              Record("ok", outcome), wins' \in {wins, wins + 1}
       PROVE  Typed'
  <2>1. k' = k /\ k \in 1..Iterations
    BY <1>11 DEF Archived
  <2>2. results' \in Seq(Result)
    BY <1>11, <2>1, RecordTyped DEF Outcomes
  <2>3. ArchiveTypeOK' /\ offered' \subseteq Elite
    <3>1. worktree \in Digest /\ dev_ev \in Evidence
      BY <1>11, FullIsEvidence DEF Archived, Tree
    <3>2. QED
      BY <1>11, <3>1, EnterTyped DEF Archived
  <2>4. attempts' \in Seq(1..Iterations)
    BY <1>11, <2>1, RememberTyped DEF Archived
  <2>5. children' \in [1..Iterations -> Tree \cup {None}]
    BY <1>11 DEF Archived
  <2>6. QED
    BY <1>11, <2>1, <2>2, <2>3, <2>4, <2>5 DEF Archived, coldVars, childVars
<1>12. InsertChild \/ ReferenceUnbound => Typed'
  BY <1>11 DEF InsertChild, ReferenceUnbound
<1>13. CASE Finish
  BY <1>13, ArchiveUntouched DEF Finish, coldVars, childVars, tallyVars
<1>14. QED
  BY <1>1, <1>2, <1>3, <1>4, <1>5, <1>6, <1>7, <1>8, <1>9, <1>10, <1>12, <1>13
     DEF Iterate

LEMMA StepTyped == Typed /\ [Next]_vars => Typed'
<1> SUFFICES ASSUME Typed, [Next]_vars
             PROVE  Typed'
  OBVIOUS
<1>1. CASE RequestStop
  BY <1>1, ArchiveUntouched
     DEF RequestStop, Typed, TypeOK, coldVars, childVars, tallyVars
<1>2. CASE UNCHANGED vars
  BY <1>2, ArchiveUntouched
     DEF vars, Typed, TypeOK, coldVars, childVars, tallyVars
<1>3. QED
  BY <1>1, <1>2, ColdStartTyped, IterateTyped DEF Next

LEMMA AlwaysTyped == Spec => []Typed
BY InitTyped, StepTyped, PTL DEF Spec

(* The state of the loop stays of its type through every cold start, iteration,
   failure and stop (harness/loop.py run_loop). *)
THEOREM TypeCorrect == Spec => []TypeOK
<1>1. Typed => TypeOK
  BY DEF Typed
<1>2. QED
  BY <1>1, AlwaysTyped, PTL

-----------------------------------------------------------------------------
(* EVERY CELL CAN BE PICKED *)

\* The cells the cold start has filled by each of its phases: those of the
\* champions already scored, then of every champion, then all.
Filled ==
  /\ phase = "champions" =>
       \A i \in Identity :
         elites[i] # None /\ elites[i] \notin unscored => cells[i] # NoCell
  /\ phase = "seed" =>
       \A i \in Identity : elites[i] # None => cells[i] # NoCell
  /\ phase \notin {"champions", "seed", "crashed"} =>
       \A i \in Identity : cells[i] # NoCell

LEMMA InitFilled == Init => Filled
BY DEF Init, Filled, Champions

(* Outside the cold start every step finds all cells filled or never looks. *)
LEMMA LaterFilled ==
  ASSUME Filled, phase \notin {"champions", "seed", "crashed"},
         phase' \notin {"champions", "seed"},
         \A i \in Identity : cells[i] # NoCell => cells'[i] # NoCell
  PROVE  Filled'
BY DEF Filled

LEMMA ColdStartFills ==
  ASSUME Typed, Filled, ColdStart
  PROVE  Filled'
<1> USE DEF Filled
<1>1. ASSUME NEW d \in HubId, ScoreChampion(d)
      PROVE  Filled'
  <2> DEFINE own == {i \in Identity : elites[i] = d}
  <2>1. PICK ev \in [own -> Score] : Enter(d, ev)
    BY <1>1 DEF ScoreChampion
  <2>2. d \in unscored /\ own # {}
    BY <1>1 DEF ScoreChampion, Typed, Champions
  <2>3. ev \in Evidence /\ d \in Digest
    BY <2>2, SliceIsEvidence, LoopAssumption
  <2>4. \A i \in Identity : cells[i] # NoCell \/ elites[i] = d => cells'[i] # NoCell
    BY <2>1, <2>3, EnterFills DEF Covers
  <2>5. QED
    BY <1>1, <2>4 DEF ScoreChampion
<1>2. CASE ChampionsScored
  BY <1>2 DEF ChampionsScored, coldVars, archiveVars
<1>3. CASE ScoreSeed
  <2>1. phase = "seed" /\ phase' = "union" /\ UNCHANGED elites
    BY <1>3 DEF ScoreSeed, coldVars
  <2>2. \A i \in Identity : cells'[i] # NoCell
    <3>1. CASE SeedIdentities # {}
      <4>1. PICK ev \in [SeedIdentities -> Score] : Enter(Seed, ev)
        BY <1>3, <3>1 DEF ScoreSeed
      <4>2. ev \in Evidence /\ Seed \in Digest
        BY <3>1, SliceIsEvidence, LoopAssumption DEF SeedIdentities, Tree
      <4>3. QED
        BY <2>1, <4>1, <4>2, EnterFills DEF SeedIdentities, Covers
    <3>2. CASE SeedIdentities = {}
      BY <1>3, <2>1, <3>2 DEF ScoreSeed, SeedIdentities, archiveVars
    <3>3. QED
      BY <3>1, <3>2
  <2>3. QED
    BY <2>1, <2>2
<1>4. CASE ScoreUnionChampion
  <2>1. \A i \in Identity : cells[i] # NoCell => cells'[i] # NoCell
    <3>1. ASSUME NEW d \in HubId, NEW ev \in FullEvidence, Enter(d, ev)
          PROVE  \A i \in Identity : cells[i] # NoCell => cells'[i] # NoCell
      BY <3>1, FullIsEvidence, EnterFills, LoopAssumption
    <3>2. QED
      BY <1>4, <3>1 DEF ScoreUnionChampion, archiveVars
  <2>2. phase = "union" /\ phase' = "top"
    BY <1>4 DEF ScoreUnionChampion
  <2>3. QED
    BY <2>1, <2>2, LaterFilled
<1>5. CASE ColdStartRaises
  BY <1>5 DEF ColdStartRaises
<1>6. QED
  BY <1>1, <1>2, <1>3, <1>4, <1>5 DEF ColdStart

LEMMA StepFilled == Typed /\ Filled /\ [Next]_vars => Filled'
<1> SUFFICES ASSUME Typed, Filled, [Next]_vars
             PROVE  Filled'
  OBVIOUS
<1>1. CASE Archived
  <2>1. worktree \in Digest /\ dev_ev \in Evidence
    BY <1>1, FullIsEvidence DEF Archived, Typed, Working, Tree
  <2>2. \A i \in Identity : cells[i] # NoCell => cells'[i] # NoCell
    BY <1>1, <2>1, EnterFills DEF Archived
  <2>3. QED
    BY <1>1, <2>2, LaterFilled DEF Archived
<1>2. CASE /\ UNCHANGED cells
           /\ phase \notin {"champions", "seed", "crashed"}
           /\ phase' \notin {"champions", "seed"}
  BY <1>2, LaterFilled
<1>3. CASE UNCHANGED <<phase, elites, unscored, cells>>
  BY <1>3 DEF Filled
<1>4. Iterate => \/ Archived
                 \/ /\ UNCHANGED cells
                    /\ phase \notin {"champions", "seed", "crashed"}
                    /\ phase' \notin {"champions", "seed"}
  BY DEF Iterate, PickCell, PrepareRaises, OperatorReturns, OperatorRaises,
         GatePasses, IterationFails, DevEval, Publish, NotPublished, Register,
         InsertChild, ReferenceUnbound, Finish, BeginIteration, archiveVars
<1>5. RequestStop \/ UNCHANGED vars => UNCHANGED <<phase, elites, unscored, cells>>
  BY DEF RequestStop, vars, archiveVars, coldVars
<1>6. QED
  BY <1>1, <1>2, <1>3, <1>4, <1>5, ColdStartFills DEF Next

(* Once the cold start is over every identity's cell is filled, whatever mix of
   champions and seed filled them, so the parent draw of every iteration finds
   an elite (loop.py:303-346, 389). *)
THEOREM PickFindsAnElite == Spec => []EveryCellCanBePicked
<1>1. Filled => EveryCellCanBePicked
  BY DEF Filled, EveryCellCanBePicked
<1>2. QED
  BY <1>1, InitFilled, StepFilled, AlwaysTyped, PTL DEF Spec

-----------------------------------------------------------------------------
(* THE BREAKER *)

\* While the run goes on nobody refused the operator, and the counter is the
\* length of the streak, until an operator that returned has reset it and its
\* iteration is not recorded yet.
Pending == {"gate", "dev", "publish", "register", "insert"}

Counting ==
  /\ phase # "aborted" =>
       /\ \A n \in DOMAIN results : results[n].op # "refused"
       /\ Cardinality(Streak) < MaxConsecutiveErrors
  /\ phase \in Pending => consecutive_errors = 0
  /\ phase \notin Pending \cup {"aborted"} => consecutive_errors = Cardinality(Streak)
  /\ phase = "aborted" => LastRefused \/ Cardinality(Streak) >= MaxConsecutiveErrors

LEMMA StreakIsFinite ==
  ASSUME results \in Seq(Result)
  PROVE  /\ IsFiniteSet(Streak)
         /\ Len(results) + 1 \notin Streak
         /\ Cardinality(Streak) \in Nat
<1>1. Streak \subseteq 1..Len(results) /\ Len(results) \in Nat
  BY DEF Streak
<1>2. IsFiniteSet(1..Len(results))
  BY FS_Interval
<1>3. IsFiniteSet(Streak)
  BY <1>1, <1>2, FS_Subset
<1>4. QED
  BY <1>1, <1>3, FS_CardinalityType

(* What a recorded iteration does to the streak. *)
LEMMA StreakAfter ==
  ASSUME results \in Seq(Result), NEW r \in Result, results' = Append(results, r)
  PROVE  /\ r.op = "none" => Streak' = Streak
         /\ r.op = "failed" => Streak' = Streak \cup {Len(results) + 1}
         /\ r.op \in {"ok", "refused"} => Streak' = {}
         /\ r.op = "refused" => LastRefused'
<1> DEFINE n == Len(results)
<1>1. /\ n \in Nat /\ Len(results') = n + 1
      /\ DOMAIN results = 1..n /\ DOMAIN results' = 1..(n + 1)
      /\ results'[n + 1] = r
      /\ \A m \in 1..n : results'[m] = results[m]
  OBVIOUS
<1>2. CASE r.op = "none"
  BY <1>1, <1>2 DEF Streak
<1>3. CASE r.op = "failed"
  <2>1. n + 1 \in Streak'
    BY <1>1, <1>3 DEF Streak
  <2>2. \A m \in 1..n : m \in Streak' <=> m \in Streak
    BY <1>1, <1>3 DEF Streak
  <2>3. Streak \subseteq 1..n /\ Streak' \subseteq 1..(n + 1)
    BY <1>1 DEF Streak
  <2>4. QED
    BY <1>1, <1>3, <2>1, <2>2, <2>3
<1>4. CASE r.op \in {"ok", "refused"}
  <2>1. Streak' = {}
    BY <1>1, <1>4 DEF Streak
  <2>2. r.op = "refused" => LastRefused'
    BY <1>1 DEF LastRefused
  <2>3. QED
    BY <1>4, <2>1, <2>2
<1>5. QED
  BY <1>2, <1>3, <1>4 DEF Result

LEMMA InitCounting == Init => Counting
<1> SUFFICES ASSUME Init
             PROVE  Counting
  OBVIOUS
<1>1. Streak = {}
  BY DEF Init, Streak
<1>2. QED
  BY <1>1, FS_EmptySet, LoopAssumption DEF Init, Counting, Pending

(* A step that records nothing. *)
LEMMA UnrecordedCounts ==
  ASSUME Typed, Counting, UNCHANGED results,
         \/ UNCHANGED <<phase, consecutive_errors>>
         \/ /\ phase \notin Pending \cup {"aborted"}
            /\ phase' \notin Pending \cup {"aborted"}
            /\ UNCHANGED consecutive_errors
         \/ phase # "aborted" /\ phase' \in Pending /\ consecutive_errors' = 0
  PROVE  Counting'
<1>1. Streak' = Streak /\ LastRefused' = LastRefused
  BY DEF Streak, LastRefused
<1>2. QED
  BY <1>1 DEF Counting, Pending

(* An iteration that ends below the breaker's limit. *)
LEMMA RecordedCounts ==
  ASSUME Typed, Counting, NEW op \in {"none", "ok"}, NEW outcome \in Outcomes,
         k' \in 1..Iterations, Record(op, outcome), UNCHANGED consecutive_errors,
         phase' = "top",
         \/ op = "none" /\ phase = "top"
         \/ op = "ok" /\ phase \in Pending
  PROVE  Counting'
<1> DEFINE r == [iteration |-> k', op |-> op, outcome |-> outcome,
                 hub_ok |-> outcome \in {"registered", "no-cell-improved"} /\ hub_ok]
<1>1. r \in Result
  BY DEF Result, Typed, TypeOK
<1>2. results' = Append(results, r) /\ results \in Seq(Result)
  BY DEF Record, Typed, TypeOK
<1>3. \A n \in DOMAIN results' : results'[n].op # "refused"
  BY <1>1, <1>2 DEF Counting, Pending
<1>4. CASE op = "none"
  BY <1>1, <1>2, <1>3, <1>4, StreakAfter DEF Counting, Pending
<1>5. CASE op = "ok"
  <2>1. Streak' = {}
    BY <1>1, <1>2, <1>5, StreakAfter
  <2>2. QED
    BY <1>3, <1>5, <2>1, FS_EmptySet, LoopAssumption DEF Counting, Pending
<1>6. QED
  BY <1>4, <1>5

LEMMA OperatorRaisesCounts ==
  ASSUME Typed, Counting, NEW refused \in BOOLEAN, OperatorRaises(refused)
  PROVE  Counting'
<1> DEFINE op == IF refused THEN "refused" ELSE "failed"
           r == [iteration |-> k', op |-> op, outcome |-> "operator-error",
                 hub_ok |-> "operator-error" \in {"registered", "no-cell-improved"}
                            /\ hub_ok]
<1>1. r \in Result
  BY DEF Result, Typed, TypeOK, OperatorRaises, Working, Outcomes
<1>2. results' = Append(results, r) /\ results \in Seq(Result)
  BY DEF OperatorRaises, Record, Typed, TypeOK
<1>3. /\ consecutive_errors = Cardinality(Streak)
      /\ \A n \in DOMAIN results : results[n].op # "refused"
  BY DEF Counting, OperatorRaises, Pending
<1>4. CASE refused
  <2>1. phase' = "aborted"
    BY <1>4, LoopAssumption DEF OperatorRaises
  <2>2. LastRefused'
    BY <1>1, <1>2, <1>4, StreakAfter
  <2>3. QED
    BY <2>1, <2>2 DEF Counting, Pending
<1>5. CASE ~refused
  <2>1. Streak' = Streak \cup {Len(results) + 1}
    BY <1>1, <1>2, <1>5, StreakAfter
  <2>2. Cardinality(Streak') = Cardinality(Streak) + 1
    BY <1>2, <2>1, StreakIsFinite, FS_AddElement
  <2>3. consecutive_errors' = Cardinality(Streak')
    BY <1>3, <1>5, <2>2 DEF OperatorRaises
  <2>4. /\ phase' \in {"aborted", "top"}
        /\ phase' = "aborted" <=> Cardinality(Streak') >= MaxConsecutiveErrors
    BY <2>3 DEF OperatorRaises
  <2>5. \A n \in DOMAIN results' : results'[n].op # "refused"
    BY <1>1, <1>2, <1>3, <1>5
  <2>6. Cardinality(Streak') \in Nat
    BY <1>2, <2>2, StreakIsFinite
  <2>7. QED
    BY <2>3, <2>4, <2>5, <2>6, LoopAssumption DEF Counting, Pending
<1>6. QED
  BY <1>4, <1>5

LEMMA StepCounting == Typed /\ Typed' /\ Counting /\ [Next]_vars => Counting'
<1> SUFFICES ASSUME Typed, Typed', Counting, [Next]_vars
             PROVE  Counting'
  OBVIOUS
<1> USE DEF Pending
<1>1. CASE ColdStart
  BY <1>1, UnrecordedCounts
     DEF ColdStart, ScoreChampion, ChampionsScored, ScoreSeed, ScoreUnionChampion,
         ColdStartRaises, tallyVars
<1>2. ASSUME NEW label \in Identity \cup {UnionLabel}, PickCell(label)
      PROVE  Counting'
  BY <1>2, UnrecordedCounts DEF PickCell, BeginIteration, tallyVars
<1>3. CASE PrepareRaises
  <2>1. k' \in 1..Iterations
    BY <1>3, LoopAssumption DEF PrepareRaises, BeginIteration, Typed, TypeOK
  <2>2. QED
    BY <1>3, <2>1, RecordedCounts DEF PrepareRaises, BeginIteration, Outcomes
<1>4. ASSUME NEW tree \in Tree, OperatorReturns(tree)
      PROVE  Counting'
  BY <1>4, UnrecordedCounts DEF OperatorReturns
<1>5. ASSUME NEW refused \in BOOLEAN, OperatorRaises(refused)
      PROVE  Counting'
  BY <1>5, OperatorRaisesCounts
<1>6. CASE \/ GatePasses \/ DevEval \/ Publish
           \/ \E raised \in BOOLEAN : NotPublished(raised)
           \/ \E stored, returns \in BOOLEAN : Register(stored, returns)
  <2>1. /\ phase \in Pending /\ phase' \in Pending
        /\ UNCHANGED <<results, consecutive_errors>>
    BY <1>6 DEF GatePasses, DevEval, Publish, NotPublished, Register, tallyVars
  <2>2. consecutive_errors = 0
    BY <2>1 DEF Counting
  <2>3. QED
    BY <2>1, <2>2, UnrecordedCounts
<1>7. ASSUME NEW outcome \in {"gate", "error"}, IterationFails(outcome)
      PROVE  Counting'
  <2>1. k' \in 1..Iterations
    BY <1>7 DEF IterationFails, Typed, TypeOK, Working
  <2>2. QED
    BY <1>7, <2>1, RecordedCounts DEF IterationFails, Outcomes
<1>8. ASSUME Archived, NEW outcome \in Outcomes, Record("ok", outcome)
      PROVE  Counting'
  <2>1. k' \in 1..Iterations
    BY <1>8 DEF Archived, Typed, TypeOK, Working
  <2>2. QED
    BY <1>8, <2>1, RecordedCounts DEF Archived
<1>9. InsertChild \/ ReferenceUnbound => Counting'
  BY <1>8 DEF InsertChild, ReferenceUnbound, Outcomes
<1>10. CASE Finish
  BY <1>10, UnrecordedCounts DEF Finish, tallyVars
<1>11. CASE RequestStop \/ UNCHANGED vars
  BY <1>11, UnrecordedCounts DEF RequestStop, vars, tallyVars
<1>12. QED
  BY <1>1, <1>2, <1>3, <1>4, <1>5, <1>6, <1>7, <1>9, <1>10, <1>11
     DEF Next, Iterate

(* The operator's circuit breaker aborts the run exactly when the last operator
   run was refused or the last MaxConsecutiveErrors all failed: iterations that
   fail for another reason neither feed nor reset it (loop.py:437-462, 555). *)
THEOREM BreakerIsExact == Spec => []BreakerTripsExactlyOnAStreak
<1>1. Typed /\ Counting => BreakerTripsExactlyOnAStreak
  <2> SUFFICES ASSUME Typed, Counting
               PROVE  BreakerTripsExactlyOnAStreak
    OBVIOUS
  <2>1. Cardinality(Streak) \in Nat
    BY StreakIsFinite DEF Typed, TypeOK
  <2>2. QED
    BY <2>1, LoopAssumption DEF Counting, LastRefused, BreakerTripsExactlyOnAStreak
<1>2. QED
  BY <1>1, InitCounting, StepCounting, AlwaysTyped, PTL DEF Spec

-----------------------------------------------------------------------------
(* EVERY ELITE IS ACCOUNTED FOR *)

Registered == {n \in DOMAIN results : results[n].outcome = "registered"}
Held == ({cells[i] : i \in Identity} \cup {union}) \ {NoCell}
Gained == {"registered", "unbound"}

\* A result is of an iteration begun, and of an earlier one while one is under
\* way; the hub holds the child of no later iteration, of the one under way
\* only once it was registered, and surely if the loop was told so.
Dated ==
  /\ \A n \in DOMAIN results :
       results[n].iteration <= k /\ (phase \in Working => results[n].iteration < k)
  /\ \A h \in hub_rows :
       h <= k /\ (phase \in Working \ {"insert"} => h < k)
  /\ phase = "insert" /\ hub_ok => k \in hub_rows

Accounted ==
  /\ \A e \in Held : e.digest \in HubId \cup {Seed} \/ Reports(Gained, e.digest)
  /\ wins = Cardinality(Registered)
  /\ \A n \in DOMAIN results :
       /\ results[n].outcome \notin EvaluatedOutcomes => results[n].iteration \notin hub_rows
       /\ results[n].hub_ok => results[n].iteration \in hub_rows

LEMMA InitAccounted == Init => Dated /\ Accounted
<1> SUFFICES ASSUME Init
             PROVE  Dated /\ Accounted
  OBVIOUS
<1>1. Dated
  BY DEF Init, Dated
<1>2. Registered = {} /\ Held = {}
  BY DEF Init, ArchiveInit, Registered, Held
<1>3. QED
  BY <1>1, <1>2, FS_EmptySet DEF Init, Accounted

(* A program of the hub or the seed enters the archive during the cold start. *)
LEMMA ColdStartAccounts ==
  ASSUME Accounted, Dated, ColdStart
  PROVE  Accounted' /\ Dated'
<1>1. UNCHANGED <<k, hub_rows, results, wins, children, hub_ok>>
      /\ phase \notin Working /\ phase' \notin Working
  BY DEF ColdStart, ScoreChampion, ChampionsScored, ScoreSeed, ScoreUnionChampion,
         ColdStartRaises, childVars, tallyVars, Working
<1>2. Dated'
  BY <1>1 DEF Dated, Working
<1>3. \/ UNCHANGED archiveVars
      \/ \E d \in HubId \cup {Seed} : \E ev : Enter(d, ev)
  BY DEF ColdStart, ScoreChampion, ChampionsScored, ScoreSeed, ScoreUnionChampion,
         ColdStartRaises
<1>4. \A e \in Held' : e \in Held \/ e.digest \in HubId \cup {Seed}
  <2>1. CASE UNCHANGED archiveVars
    BY <2>1 DEF archiveVars, Held
  <2>2. ASSUME NEW d \in HubId \cup {Seed}, NEW ev, Enter(d, ev), NEW e \in Held'
        PROVE  e \in Held \/ e.digest \in HubId \cup {Seed}
    BY <2>2, EnterBrings DEF Held
  <2>3. QED
    BY <1>3, <2>1, <2>2
<1>5. \A d : Reports(Gained, d)' <=> Reports(Gained, d)
  BY <1>1 DEF Reports, ResultSet
<1>6. Registered' = Registered
  BY <1>1 DEF Registered
<1>7. QED
  BY <1>1, <1>2, <1>4, <1>5, <1>6 DEF Accounted

(* Nothing recorded, nothing archived. *)
LEMMA UnrecordedAccounts ==
  ASSUME Accounted, UNCHANGED <<archiveVars, results, wins, children>>,
         \/ UNCHANGED hub_rows
         \/ hub_rows' \subseteq hub_rows \cup {k} /\ hub_rows \subseteq hub_rows'
            /\ \A n \in DOMAIN results : results[n].iteration # k
  PROVE  Accounted'
<1>1. Held' = Held /\ Registered' = Registered
  BY DEF Held, Registered, archiveVars
<1>2. \A d : Reports(Gained, d)' <=> Reports(Gained, d)
  BY DEF Reports, ResultSet
<1>3. QED
  BY <1>1, <1>2 DEF Accounted

(* The iteration begun last is recorded, and perhaps its child archived. *)
LEMMA RecordedAccounts ==
  ASSUME Typed, Accounted, NEW op, NEW outcome \in Outcomes,
         k' \in 1..Iterations, Record(op, outcome), UNCHANGED hub_rows,
         outcome \notin EvaluatedOutcomes => k' \notin hub_rows,
         outcome \in {"registered", "no-cell-improved"} /\ hub_ok => k' \in hub_rows,
         wins' = IF outcome = "registered" THEN wins + 1 ELSE wins,
         \/ UNCHANGED <<archiveVars, children>>
         \/ /\ \A n \in DOMAIN results : results[n].iteration # k'
            /\ children' = [children EXCEPT ![k'] = worktree]
            /\ \A e \in Held' :
                 e \in Held \/ (e.digest = worktree /\ outcome \in Gained)
  PROVE  Accounted'
<1> DEFINE r == [iteration |-> k', op |-> op, outcome |-> outcome,
                 hub_ok |-> outcome \in {"registered", "no-cell-improved"} /\ hub_ok]
           n == Len(results)
<1>1. /\ n \in Nat /\ DOMAIN results = 1..n /\ DOMAIN results' = 1..(n + 1)
      /\ results'[n + 1] = r
      /\ \A m \in 1..n : results'[m] = results[m]
  BY DEF Record, Typed, TypeOK
<1>2. wins' = Cardinality(Registered')
  <2>1. Registered \subseteq 1..n
    BY <1>1 DEF Registered
  <2>2. IsFiniteSet(Registered)
    <3>1. IsFiniteSet(1..n)
      BY <1>1, FS_Interval
    <3>2. QED
      BY <2>1, <3>1, FS_Subset
  <2>3. CASE outcome = "registered"
    <3>1. Registered' = Registered \cup {n + 1}
      BY <1>1, <2>3 DEF Registered
    <3>2. n + 1 \notin Registered
      BY <1>1, <2>1
    <3>3. Cardinality(Registered') = Cardinality(Registered) + 1
      BY <2>2, <3>1, <3>2, FS_AddElement
    <3>4. QED
      BY <2>3, <3>3 DEF Accounted
  <2>4. CASE outcome # "registered"
    <3>1. Registered' = Registered
      BY <1>1, <2>4 DEF Registered
    <3>2. QED
      BY <2>4, <3>1 DEF Accounted
  <2>5. QED
    BY <2>3, <2>4
<1>3. \A m \in DOMAIN results' :
        /\ results'[m].outcome \notin EvaluatedOutcomes => results'[m].iteration \notin hub_rows
        /\ results'[m].hub_ok => results'[m].iteration \in hub_rows
  <2>1. SUFFICES ASSUME NEW m \in 1..(n + 1)
                 PROVE  /\ results'[m].outcome \notin EvaluatedOutcomes
                             => results'[m].iteration \notin hub_rows
                        /\ results'[m].hub_ok => results'[m].iteration \in hub_rows
    BY <1>1
  <2>2. CASE m \in 1..n
    BY <1>1, <2>2 DEF Accounted
  <2>3. CASE m = n + 1
    <3>1. results'[m].outcome = outcome /\ results'[m].iteration = k'
      BY <1>1, <2>3
    <3>2. r.hub_ok = (outcome \in {"registered", "no-cell-improved"} /\ hub_ok)
      BY Zenon
    <3>3. results'[m].hub_ok => outcome \in {"registered", "no-cell-improved"} /\ hub_ok
      BY <1>1, <2>3, <3>2, Zenon
    <3>4. QED
      BY <3>1, <3>3
  <2>4. QED
    BY <1>1, <2>2, <2>3
<1>4. ASSUME NEW d, Reports(Gained, d)
      PROVE  Reports(Gained, d)'
  <2>1. PICK m \in 1..n : /\ results[m].outcome \in Gained
                          /\ children[results[m].iteration] = d
    BY <1>1, <1>4 DEF Reports, ResultSet
  <2>2. /\ results'[m].outcome \in Gained
        /\ children'[results'[m].iteration] = d
    <3>1. CASE UNCHANGED children
      BY <1>1, <2>1, <3>1
    <3>2. CASE /\ results[m].iteration # k'
               /\ children' = [children EXCEPT ![k'] = worktree]
      BY <1>1, <2>1, <3>2 DEF Typed, TypeOK, Result
    <3>3. QED
      BY <1>1, <3>1, <3>2
  <2>3. m \in DOMAIN results'
    BY <1>1
  <2>4. QED
    BY <2>2, <2>3 DEF Reports, ResultSet
<1>5. ASSUME NEW e \in Held'
      PROVE  e.digest \in HubId \cup {Seed} \/ Reports(Gained, e.digest)'
  <2>1. CASE e \in Held
    BY <1>4, <2>1 DEF Accounted
  <2>2. CASE /\ e.digest = worktree /\ outcome \in Gained
             /\ children' = [children EXCEPT ![k'] = worktree]
    <3>1. /\ results'[n + 1].outcome \in Gained
          /\ children'[results'[n + 1].iteration] = worktree
          /\ n + 1 \in DOMAIN results'
      BY <1>1, <2>2 DEF Typed, TypeOK
    <3>2. QED
      BY <2>2, <3>1 DEF Reports, ResultSet
  <2>3. UNCHANGED archiveVars => Held' = Held
    BY DEF Held, archiveVars
  <2>4. QED
    BY <1>5, <2>1, <2>2, <2>3
<1>6. QED
  BY <1>2, <1>3, <1>5 DEF Accounted

LEMMA NumbersTyped ==
  ASSUME Typed
  PROVE  /\ results \in Seq(Result)
         /\ \A n \in DOMAIN results : /\ results[n].iteration \in 1..Iterations
                                     /\ results[n].iteration \in Nat
         /\ k \in Nat /\ k <= Iterations
         /\ hub_rows \subseteq 1..Iterations /\ hub_rows \subseteq Nat
<1>1. results \in Seq(Result) /\ k \in 0..Iterations /\ hub_rows \subseteq 1..Iterations
  BY DEF Typed, TypeOK
<1>2. \A n \in DOMAIN results : results[n] \in Result
  BY <1>1
<1>3. \A r \in Result : r.iteration \in 1..Iterations
  BY DEF Result
<1>4. 1..Iterations \subseteq Nat
  BY LoopAssumption
<1>5. QED
  BY <1>1, <1>2, <1>3, <1>4, LoopAssumption

LEMMA RecordedDates ==
  ASSUME Typed, Dated, NEW op, NEW outcome, Record(op, outcome), k' \in {k, k + 1},
         phase' \notin Working, UNCHANGED hub_rows
  PROVE  Dated'
<1> DEFINE n == Len(results)
<1>1. /\ n \in Nat /\ DOMAIN results = 1..n /\ DOMAIN results' = 1..(n + 1)
      /\ results'[n + 1].iteration = k'
      /\ \A m \in 1..n : results'[m] = results[m] /\ results[m].iteration \in Nat
  BY NumbersTyped DEF Record
<1>2. k \in Nat /\ hub_rows \subseteq Nat
  BY NumbersTyped
<1>3. \A m \in DOMAIN results' : results'[m].iteration <= k'
  BY <1>1, <1>2 DEF Dated
<1>4. \A h \in hub_rows' : h <= k'
  BY <1>2 DEF Dated
<1>5. phase' # "insert"
  BY DEF Working
<1>6. QED
  BY <1>3, <1>4, <1>5 DEF Dated

\* An iteration under way is the only one of its number.
LEMMA UnderWay ==
  ASSUME Typed, Dated, phase \in Working
  PROVE  /\ k \in 1..Iterations
         /\ \A n \in DOMAIN results : results[n].iteration # k
         /\ phase # "insert" => k \notin hub_rows
<1>1. k \in 1..Iterations
  BY LoopAssumption DEF Typed, TypeOK
<1>2. \A n \in DOMAIN results : results[n].iteration < k
  BY DEF Dated
<1>3. phase # "insert" => \A h \in hub_rows : h < k
  BY DEF Dated
<1>4. QED
  BY <1>1, <1>2, <1>3, NumbersTyped

LEMMA ChildAccounts ==
  ASSUME Typed, Dated, Accounted, Archived,
         NEW outcome \in {"registered", "no-cell-improved", "unbound"},
         Record("ok", outcome),
         outcome \in Gained <=> Improved(dev_ev) # {},
         wins' = IF outcome = "registered" THEN wins + 1 ELSE wins
  PROVE  Accounted' /\ Dated'
<1>1. phase = "insert" /\ phase' = "top" /\ k' = k /\ UNCHANGED hub_rows
  BY DEF Archived
<1>2. /\ k \in 1..Iterations
      /\ \A n \in DOMAIN results : results[n].iteration # k
  BY <1>1, UnderWay DEF Working
<1>3. children' = [children EXCEPT ![k'] = worktree]
  BY <1>1 DEF Archived
<1>4. \A e \in Held' : e \in Held \/ (e.digest = worktree /\ outcome \in Gained)
  BY EnterBrings DEF Archived, Held
<1>5. hub_ok => k \in hub_rows
  BY <1>1 DEF Dated
<1>6. outcome \in EvaluatedOutcomes /\ outcome \in Outcomes
  BY DEF EvaluatedOutcomes, Outcomes
<1>7. Accounted'
  BY <1>1, <1>2, <1>3, <1>4, <1>5, <1>6, RecordedAccounts
<1>8. Dated'
  BY <1>1, RecordedDates DEF Working
<1>9. QED
  BY <1>7, <1>8

LEMMA IterateAccounts ==
  ASSUME Typed, Dated, Accounted, Iterate
  PROVE  Accounted' /\ Dated'
<1>t. k \in Nat /\ hub_rows \subseteq Nat
      /\ \A n \in DOMAIN results : results[n].iteration \in Nat
  BY NumbersTyped
<1>1. ASSUME NEW label \in Identity \cup {UnionLabel}, PickCell(label)
      PROVE  Accounted' /\ Dated'
  <2>1. UNCHANGED <<archiveVars, results, wins, children, hub_rows>>
        /\ k' = k + 1 /\ phase' = "operator"
    BY <1>1 DEF PickCell, BeginIteration, tallyVars
  <2>2. Accounted'
    BY <2>1, UnrecordedAccounts
  <2>3. Dated'
    BY <1>t, <2>1 DEF Dated
  <2>4. QED
    BY <2>2, <2>3
<1>2. CASE PrepareRaises
  <2>1. /\ UNCHANGED <<archiveVars, children, hub_rows, wins>>
        /\ phase' \notin Working /\ k' = k + 1 /\ k' \in 1..Iterations
        /\ Record("none", "error")
    BY <1>2, LoopAssumption DEF PrepareRaises, BeginIteration, Working, Typed, TypeOK
  <2>2. k' \notin hub_rows
    BY <1>t, <2>1 DEF Dated
  <2>3. "error" \in Outcomes
    BY DEF Outcomes
  <2>4. Accounted'
    BY <2>1, <2>2, <2>3, RecordedAccounts
  <2>5. QED
    BY <2>1, <2>4, RecordedDates
<1>3. ASSUME NEW op, NEW outcome \in {"operator-error", "gate", "error"},
             phase \in Working \ {"insert"}, phase' \notin Working, k' = k,
             Record(op, outcome), UNCHANGED <<archiveVars, children, hub_rows, wins>>
      PROVE  Accounted' /\ Dated'
  <2>1. k \in 1..Iterations /\ k \notin hub_rows
    BY <1>3, UnderWay
  <2>2. outcome \in Outcomes
    BY DEF Outcomes
  <2>3. Accounted'
    BY <1>3, <2>1, <2>2, RecordedAccounts
  <2>4. QED
    BY <1>3, <2>3, RecordedDates
<1>4. ASSUME NEW refused \in BOOLEAN, OperatorRaises(refused)
      PROVE  Accounted' /\ Dated'
  <2>1. phase' \notin Working
    BY <1>4 DEF OperatorRaises, Working
  <2>2. QED
    BY <1>3, <1>4, <2>1 DEF OperatorRaises, Working
<1>5. ASSUME NEW outcome \in {"gate", "error"}, IterationFails(outcome)
      PROVE  Accounted' /\ Dated'
  BY <1>3, <1>5 DEF IterationFails, Working
<1>6. CASE \/ \E tree \in Tree : OperatorReturns(tree)
           \/ GatePasses \/ DevEval \/ Publish
           \/ \E raised \in BOOLEAN : NotPublished(raised)
  <2>1. /\ UNCHANGED <<archiveVars, results, wins, children, hub_rows, k>>
        /\ phase \in Working \ {"insert"} /\ phase' \in Working
        /\ phase' = "insert" => ~hub_ok'
    BY <1>6 DEF OperatorReturns, GatePasses, DevEval, Publish, NotPublished,
                childVars, tallyVars, Working
  <2>2. Accounted'
    BY <2>1, UnrecordedAccounts
  <2>3. Dated'
    BY <2>1 DEF Dated
  <2>4. QED
    BY <2>2, <2>3
<1>7. ASSUME NEW stored \in BOOLEAN, NEW returns \in BOOLEAN, Register(stored, returns)
      PROVE  Accounted' /\ Dated'
  <2>1. /\ UNCHANGED <<archiveVars, results, wins, children, k>>
        /\ phase = "register" /\ phase' = "insert" /\ phase \in Working
        /\ hub_rows' = IF stored THEN hub_rows \cup {k} ELSE hub_rows
        /\ hub_ok' => stored
    BY <1>7 DEF Register, tallyVars, Working
  <2>2. \A n \in DOMAIN results : results[n].iteration # k
    BY <2>1, UnderWay
  <2>3. Accounted'
    BY <2>1, <2>2, UnrecordedAccounts
  <2>4. Dated'
    BY <1>t, <2>1 DEF Dated, Working
  <2>5. QED
    BY <2>3, <2>4
<1>8. CASE InsertChild
  <2>1. CASE Improved(dev_ev) # {}
    BY <1>8, <2>1, ChildAccounts DEF InsertChild, Gained
  <2>2. CASE Improved(dev_ev) = {}
    BY <1>8, <2>2, ChildAccounts DEF InsertChild, Gained
  <2>3. QED
    BY <2>1, <2>2
<1>9. CASE ReferenceUnbound
  BY <1>9, ChildAccounts DEF ReferenceUnbound, Gained
<1>10. CASE Finish
  <2>1. /\ UNCHANGED <<archiveVars, results, wins, children, hub_rows, k>>
        /\ phase' \notin Working
    BY <1>10 DEF Finish, tallyVars, Working
  <2>2. Accounted'
    BY <2>1, UnrecordedAccounts
  <2>3. Dated'
    BY <2>1 DEF Dated, Working
  <2>4. QED
    BY <2>2, <2>3
<1>11. QED
  BY <1>1, <1>2, <1>4, <1>5, <1>6, <1>7, <1>8, <1>9, <1>10 DEF Iterate

LEMMA StepAccounted ==
  Typed /\ Dated /\ Accounted /\ [Next]_vars => Dated' /\ Accounted'
<1> SUFFICES ASSUME Typed, Dated, Accounted, [Next]_vars
             PROVE  Dated' /\ Accounted'
  OBVIOUS
<1>1. CASE RequestStop \/ UNCHANGED vars
  <2>1. UNCHANGED <<archiveVars, results, wins, children, hub_rows, k, phase, hub_ok>>
    BY <1>1 DEF RequestStop, vars, childVars, tallyVars
  <2>2. Accounted'
    BY <2>1, UnrecordedAccounts
  <2>3. Dated'
    BY <2>1 DEF Dated
  <2>4. QED
    BY <2>2, <2>3
<1>2. QED
  BY <1>1, ColdStartAccounts, IterateAccounts DEF Next

(* Every elite of the archive came from the hub, is the seed, or is the child of
   an iteration that reported a gain; wins counts the gains reported; and what a
   result says of the hub is so (loop.py:470-554). *)
THEOREM ElitesHaveAnAccount == Spec => []ElitesAreAccountedFor
<1>1. Accounted => ElitesAreAccountedFor
  BY DEF Accounted, ElitesAreAccountedFor, Held, Registered, Gained, ResultSet
<1>2. QED
  BY <1>1, InitAccounted, StepAccounted, AlwaysTyped, PTL DEF Spec

-----------------------------------------------------------------------------
(* THE LOOP IMPLEMENTS THE ARCHIVE *)

\* An instance of a module has operators of its own; these are the same.
LEMMA SameCardinality == \A S : Archive!Cardinality(S) = Cardinality(S)
BY Zenon DEF Archive!Cardinality, Cardinality

LEMMA SameInsert ==
  ASSUME NEW d, NEW ev, insert(d, ev)
  PROVE  Archive!insert(d, ev)
BY SameCardinality, Zenon
   DEF insert, Takes, Improved, Improves, ImprovesUnion, Ties, Covers, ScoreAt,
       Archive!insert, Archive!Takes, Archive!Improved, Archive!Improves,
       Archive!ImprovesUnion, Archive!Ties, Archive!Covers, Archive!ScoreAt

LEMMA SameEvidence == Archive!Evidence = Evidence
BY DEF Archive!Evidence, Evidence

\* What each phase may still insert: the champions not scored yet, the seed, the
\* union champion, and a child per iteration.
Budgeted ==
  /\ IsFiniteSet(offered) /\ IsFiniteSet(unscored)
  /\ phase = "champions" =>
       Cardinality(offered) + Cardinality(unscored) <= Cardinality(Identity)
  /\ phase = "seed" => Cardinality(offered) <= Cardinality(Identity)
  /\ phase = "union" => Cardinality(offered) <= Cardinality(Identity) + 1
  /\ phase = "top" => Cardinality(offered) <= Cardinality(Identity) + 2 + k
  /\ phase \in Working => Cardinality(offered) <= Cardinality(Identity) + 1 + k

LEMMA FewChampions ==
  ASSUME elites \in [Identity -> HubId \cup {None}]
  PROVE  /\ IsFiniteSet(Champions(elites))
         /\ Cardinality(Champions(elites)) <= Cardinality(Identity)
<1> DEFINE named == {elites[i] : i \in Identity}
<1>1. elites \in Surjection(Identity, named)
  BY DEF Surjection
<1>2. IsFiniteSet(named) /\ Cardinality(named) <= Cardinality(Identity)
  BY <1>1, FS_Surjection, ConstantsAssumption
<1>3. Champions(elites) \subseteq named
  BY DEF Champions
<1>4. /\ IsFiniteSet(Champions(elites))
      /\ Cardinality(Champions(elites)) <= Cardinality(named)
  BY <1>2, <1>3, FS_Subset
<1>5. /\ Cardinality(Champions(elites)) \in Nat /\ Cardinality(named) \in Nat
      /\ Cardinality(Identity) \in Nat
  BY <1>2, <1>4, FS_CardinalityType, ConstantsAssumption
<1>6. QED
  BY <1>2, <1>4, <1>5

LEMMA InitBudgeted == Init => Budgeted
<1> SUFFICES ASSUME Init
             PROVE  Budgeted
  OBVIOUS
<1>1. elites \in [Identity -> HubId \cup {None}]
  BY DEF Init
<1>2. /\ IsFiniteSet(unscored) /\ Cardinality(unscored) \in Nat
      /\ Cardinality(unscored) <= Cardinality(Identity)
  BY <1>1, FewChampions, FS_CardinalityType DEF Init
<1>3. IsFiniteSet(offered) /\ Cardinality(offered) = 0
  BY FS_EmptySet DEF Init
<1>4. QED
  BY <1>2, <1>3 DEF Init, Budgeted, Working

(* An insertion costs the budget at most one. *)
LEMMA EnterCosts ==
  ASSUME IsFiniteSet(offered), NEW d, NEW ev, Enter(d, ev)
  PROVE  /\ IsFiniteSet(offered')
         /\ Cardinality(offered) \in Nat
         /\ Cardinality(offered') \in Nat
         /\ Cardinality(offered') <= Cardinality(offered) + 1
<1> DEFINE elite == [digest |-> d, dev_evidence |-> ev]
<1>1. offered' = offered \cup {elite}
  BY DEF Enter
<1> HIDE DEF elite
<1>2. /\ IsFiniteSet(offered')
      /\ Cardinality(offered') =
           IF elite \in offered THEN Cardinality(offered) ELSE Cardinality(offered) + 1
  BY <1>1, FS_AddElement
<1>3. Cardinality(offered) \in Nat /\ Cardinality(offered') \in Nat
  BY <1>2, FS_CardinalityType
<1>4. QED
  BY <1>2, <1>3

Room == Cardinality(offered) < Iterations + Cardinality(Identity) + 2

LEMMA ColdStartBudgeted ==
  ASSUME Typed, Budgeted, ColdStart
  PROVE  /\ Budgeted'
         /\ \/ UNCHANGED <<archiveVars, offered>>
            \/ Room /\ \E d \in Digest, ev \in Evidence : Enter(d, ev)
<1>n. /\ Cardinality(Identity) \in Nat /\ Cardinality(unscored) \in Nat
      /\ Cardinality(offered) \in Nat /\ k \in Nat
  BY FS_CardinalityType, ConstantsAssumption, LoopAssumption DEF Budgeted, Typed, TypeOK
<1> USE LoopAssumption DEF Budgeted, Room, Working
<1>1. ASSUME NEW d \in HubId, ScoreChampion(d)
      PROVE  Budgeted' /\ Room /\ \E c \in Digest, ev \in Evidence : Enter(c, ev)
  <2> DEFINE own == {i \in Identity : elites[i] = d}
  <2>1. PICK ev \in [own -> Score] : Enter(d, ev)
    BY <1>1 DEF ScoreChampion
  <2>2. d \in unscored /\ own # {}
    BY <1>1 DEF ScoreChampion, Typed, Champions
  <2>3. ev \in Evidence /\ d \in Digest
    BY <2>2, SliceIsEvidence
  <2>4. unscored' = unscored \ {d}
    BY <1>1 DEF ScoreChampion
  <2>5. /\ IsFiniteSet(unscored')
        /\ Cardinality(unscored') = Cardinality(unscored) - 1
    BY <2>2, <2>4, FS_RemoveElement
  <2>6. /\ IsFiniteSet(offered') /\ Cardinality(offered') \in Nat
        /\ Cardinality(offered') <= Cardinality(offered) + 1
    BY <2>1, EnterCosts
  <2>7. phase = "champions" /\ phase' = "champions"
    BY <1>1 DEF ScoreChampion
  <2>8. Cardinality(unscored') \in Nat
    BY <2>5, FS_CardinalityType
  <2>9. Room
    BY <1>n, <2>5, <2>7, <2>8
  <2>10. Budgeted'
    BY <1>n, <2>5, <2>6, <2>7, <2>8
  <2>11. QED
    BY <2>1, <2>3, <2>9, <2>10
<1>2. CASE ChampionsScored
  BY <1>n, <1>2, FS_EmptySet DEF ChampionsScored, coldVars, archiveVars
<1>3. CASE ScoreSeed
  <2>1. phase = "seed" /\ phase' = "union" /\ UNCHANGED <<unscored, k>>
    BY <1>3 DEF ScoreSeed, coldVars
  <2>2. CASE SeedIdentities # {}
    <3>1. PICK ev \in [SeedIdentities -> Score] : Enter(Seed, ev)
      BY <1>3, <2>2 DEF ScoreSeed
    <3>2. ev \in Evidence /\ Seed \in Digest
      BY <2>2, SliceIsEvidence DEF SeedIdentities, Tree
    <3>3. /\ IsFiniteSet(offered') /\ Cardinality(offered') \in Nat
          /\ Cardinality(offered') <= Cardinality(offered) + 1
      BY <3>1, EnterCosts
    <3>4. Budgeted' /\ Room
      BY <1>n, <2>1, <3>3
    <3>5. QED
      BY <3>1, <3>2, <3>4
  <2>3. CASE SeedIdentities = {}
    BY <1>n, <1>3, <2>1, <2>3 DEF ScoreSeed
  <2>4. QED
    BY <2>2, <2>3
<1>4. CASE ScoreUnionChampion
  <2>1. phase = "union" /\ phase' = "top" /\ UNCHANGED <<unscored, k>>
    BY <1>4 DEF ScoreUnionChampion, coldVars
  <2>2. ASSUME NEW d \in HubId, NEW ev \in FullEvidence, Enter(d, ev)
        PROVE  Budgeted' /\ Room /\ \E c \in Digest, e \in Evidence : Enter(c, e)
    <3>1. /\ IsFiniteSet(offered') /\ Cardinality(offered') \in Nat
          /\ Cardinality(offered') <= Cardinality(offered) + 1
      BY <2>2, EnterCosts
    <3>2. Budgeted' /\ Room
      BY <1>n, <2>1, <3>1
    <3>3. QED
      BY <2>2, <3>2, FullIsEvidence
  <2>3. CASE UNCHANGED <<archiveVars, offered>>
    BY <1>n, <2>1, <2>3
  <2>4. QED
    BY <1>4, <2>2, <2>3 DEF ScoreUnionChampion
<1>5. CASE ColdStartRaises
  BY <1>5 DEF ColdStartRaises, coldVars
<1>6. QED
  BY <1>1, <1>2, <1>3, <1>4, <1>5 DEF ColdStart

LEMMA IterateBudgeted ==
  ASSUME Typed, Budgeted, Iterate
  PROVE  /\ Budgeted'
         /\ \/ UNCHANGED <<archiveVars, offered>>
            \/ Room /\ \E d \in Digest, ev \in Evidence : Enter(d, ev)
<1>n. /\ Cardinality(Identity) \in Nat /\ Cardinality(offered) \in Nat
      /\ k \in Nat /\ k <= Iterations
  BY FS_CardinalityType, ConstantsAssumption, LoopAssumption DEF Budgeted, Typed, TypeOK
<1>1. CASE Archived
  <2>1. phase = "insert" /\ phase' = "top" /\ UNCHANGED <<unscored, k>>
        /\ Enter(worktree, dev_ev)
    BY <1>1 DEF Archived, coldVars
  <2>2. worktree \in Digest /\ dev_ev \in Evidence
    BY <2>1, FullIsEvidence DEF Typed, Working, Tree
  <2>3. /\ IsFiniteSet(offered') /\ Cardinality(offered') \in Nat
        /\ Cardinality(offered') <= Cardinality(offered) + 1
    BY <2>1, EnterCosts DEF Budgeted
  <2>4. Cardinality(offered) <= Cardinality(Identity) + 1 + k
    BY <2>1 DEF Budgeted, Working
  <2>5. Room
    BY <1>n, <2>4, LoopAssumption DEF Room
  <2>6. Budgeted'
    BY <1>n, <2>1, <2>3, <2>4 DEF Budgeted, Working
  <2>7. QED
    BY <2>1, <2>2, <2>5, <2>6
<1>2. CASE /\ UNCHANGED <<archiveVars, offered, unscored>>
           /\ \/ phase = "top" /\ phase' = "top" /\ k' = k + 1
              \/ phase = "top" /\ phase' = "operator" /\ k' = k + 1
              \/ /\ phase \in Working
                 /\ phase' \in Working \cup {"top", "aborted"}
                 /\ k' = k
              \/ phase = "top" /\ phase' = "done"
  BY <1>n, <1>2 DEF Budgeted, Working
<1>3. PickCell(UnionLabel) \/ (\E label \in Identity : PickCell(label)) \/ PrepareRaises =>
        /\ UNCHANGED <<archiveVars, offered, unscored>>
        /\ phase = "top" /\ phase' \in {"top", "operator"} /\ k' = k + 1
  BY DEF PickCell, PrepareRaises, BeginIteration, coldVars
<1>4. \/ \E tree \in Tree : OperatorReturns(tree)
      \/ \E refused \in BOOLEAN : OperatorRaises(refused)
      \/ GatePasses \/ DevEval \/ Publish
      \/ \E outcome \in {"gate", "error"} : IterationFails(outcome)
      \/ \E raised \in BOOLEAN : NotPublished(raised)
      \/ \E stored, returns \in BOOLEAN : Register(stored, returns)
      =>
      /\ UNCHANGED <<archiveVars, offered, unscored>>
      /\ phase \in Working /\ phase' \in Working \cup {"top", "aborted"} /\ k' = k
  BY DEF OperatorReturns, OperatorRaises, GatePasses, DevEval, Publish,
         IterationFails, NotPublished, Register, Working, coldVars
<1>5. Finish => /\ UNCHANGED <<archiveVars, offered, unscored>>
                /\ phase = "top" /\ phase' = "done"
  BY DEF Finish, coldVars
<1>6. InsertChild \/ ReferenceUnbound => Archived
  BY DEF InsertChild, ReferenceUnbound
<1>7. QED
  BY <1>1, <1>2, <1>3, <1>4, <1>5, <1>6 DEF Iterate

LEMMA StepBudgeted ==
  Typed /\ Budgeted /\ [Next]_vars =>
    /\ Budgeted'
    /\ \/ UNCHANGED <<archiveVars, offered>>
       \/ Room /\ \E d \in Digest, ev \in Evidence : Enter(d, ev)
<1>1. RequestStop \/ UNCHANGED vars =>
        UNCHANGED <<archiveVars, offered, unscored, phase, k>>
  BY DEF RequestStop, vars, coldVars
<1>2. Budgeted /\ UNCHANGED <<archiveVars, offered, unscored, phase, k>> => Budgeted'
  BY DEF Budgeted
<1>3. QED
  BY <1>1, <1>2, ColdStartBudgeted, IterateBudgeted DEF Next

(* A step of the loop is one insertion of the archive's, or none. *)
LEMMA StepImplementsArchive ==
  Typed /\ Budgeted /\ [Next]_vars => [Archive!OfferNext]_(Archive!offerVars)
<1> SUFFICES ASSUME Typed, Budgeted, [Next]_vars
             PROVE  [Archive!OfferNext]_(Archive!offerVars)
  OBVIOUS
<1>1. CASE UNCHANGED <<archiveVars, offered>>
  BY <1>1 DEF archiveVars, Archive!offerVars
<1>2. ASSUME Room, NEW d \in Digest, NEW ev \in Evidence, Enter(d, ev)
      PROVE  Archive!OfferNext
  <2>1. Archive!Insert(d, ev)
    BY <1>2, SameCardinality, SameInsert DEF Room, Enter, Archive!Insert, Archive!Offer
  <2>2. QED
    BY <1>2, <2>1, SameEvidence DEF Archive!OfferNext
<1>3. QED
  BY <1>1, <1>2, StepBudgeted

(* The loop is a client of the archive: everything it does to the cells, from
   cold start to the last child, is an insertion of a program with the evidence
   just evaluated for it, and never more of them than the identities, the seed,
   the union champion and the iterations account for (loop.py:335, 344, 363,
   516).  So every theorem about the archive holds of the run. *)
THEOREM LoopImplementsArchive == Spec => ImplementsArchive
<1>1. Init => Archive!OfferInit
  BY DEF Init, ArchiveInit, Archive!OfferInit, Archive!ArchiveInit
<1>2. QED
  BY <1>1, InitBudgeted, StepBudgeted, StepImplementsArchive, AlwaysTyped, PTL
     DEF Spec, ImplementsArchive, Archive!OfferSpec

-----------------------------------------------------------------------------
(* THE MONITOR *)

LEMMA MonitoredStep == NextMonitored => Next
BY DEF NextMonitored, Reported, Unreported, Next, Iterate

(* A monitored run is a run of the loop: the monitor only watches, so what is
   proved of the loop holds of it (tui/app.py). *)
THEOREM MonitorOnlyWatches == SpecMonitored => Spec
<1>1. InitMonitor => Init
  BY DEF InitMonitor
<1>2. [NextMonitored]_<<vars, monitorVars>> => [Next]_vars
  BY MonitoredStep
<1>3. QED
  BY <1>1, <1>2, PTL DEF SpecMonitored, Spec

\* An iteration has failed with its child archived (ReferenceUnbound).
Unbound == \E n \in DOMAIN results : results[n].outcome = "unbound"

LEMMA RecordedUnbound ==
  ASSUME Typed, NEW op, NEW outcome, Record(op, outcome)
  PROVE  Unbound' <=> Unbound \/ outcome = "unbound"
<1> DEFINE n == Len(results)
<1>1. /\ n \in Nat /\ DOMAIN results = 1..n /\ DOMAIN results' = 1..(n + 1)
      /\ results'[n + 1].outcome = outcome
      /\ \A m \in 1..n : results'[m] = results[m]
  BY NumbersTyped DEF Record
<1>2. QED
  BY <1>1 DEF Unbound

Shown ==
  Unbound \/ /\ \A i \in Identity :
                  incumbent[i] = IF cells[i] = NoCell THEN None ELSE ScoreAt(i)
             /\ \/ best_overall = UnionFloor
                   /\ union # NoCell => UnionMean(union.dev_evidence) <= UnionFloor
                \/ union # NoCell /\ best_overall = UnionMean(union.dev_evidence)

LEMMA InitShown == InitMonitor => Shown
BY DEF InitMonitor, Init, ArchiveInit, Shown

LEMMA ColdStartShown ==
  ASSUME ShowColdStart
  PROVE  Shown'
BY DEF ShowColdStart, Shown, ScoreAt

LEMMA UnchangedShown ==
  ASSUME Shown, UNCHANGED <<archiveVars, shownVars>>, Unbound => Unbound'
  PROVE  Shown'
BY DEF Shown, archiveVars, shownVars, ScoreAt

(* The monitor raises its incumbents by rules of its own, to the scores the
   archive's insertion leaves. *)
LEMMA ChildShown ==
  ASSUME Typed, Filled, Shown, ~Unbound, InsertChild, ShowChild
  PROVE  Shown'
<1> DEFINE elite == [digest |-> worktree, dev_evidence |-> dev_ev]
<1>1. phase = "insert" /\ dev_ev \in FullEvidence /\ worktree \in Digest
  BY DEF InsertChild, Archived, Typed, Working, Tree
<1>2. DOMAIN dev_ev = Identity /\ \A i \in Identity : dev_ev[i] \in Int
  BY <1>1, FullIsEvidence
<1>3. /\ cells' = [i \in Identity |-> IF i \in Takes(worktree, dev_ev)
                                      THEN elite ELSE cells[i]]
      /\ union' = IF ImprovesUnion(dev_ev) THEN elite ELSE union
  BY DEF InsertChild, Archived, Enter, insert
<1>4. elite # NoCell
  BY <1>1, FullIsEvidence, NoCellAssumption DEF Elite
<1>5. ASSUME NEW i \in Identity
      PROVE  incumbent'[i] = (IF cells[i] = NoCell THEN None ELSE ScoreAt(i))'
  <2>1. cells[i] # NoCell /\ incumbent[i] = ScoreAt(i)
    BY <1>1 DEF Filled, Shown
  <2>2. cells[i].dev_evidence \in Evidence /\ i \in DOMAIN cells[i].dev_evidence
    BY <2>1 DEF Typed, TypeOK, ArchiveTypeOK, Elite
  <2>3. ScoreAt(i) \in Int
    BY <2>2, EvidenceFacts DEF ScoreAt
  <2>4. incumbent'[i] = IF dev_ev[i] > ScoreAt(i) THEN dev_ev[i] ELSE ScoreAt(i)
    BY <2>1 DEF ShowChild
  <2>5. CASE i \in Takes(worktree, dev_ev)
    <3>1. dev_ev[i] >= ScoreAt(i)
      BY <1>2, <2>1, <2>3, <2>5 DEF Takes, Improves, Ties
    <3>2. cells'[i] = elite /\ ScoreAt(i)' = dev_ev[i]
      BY <1>3, <2>5 DEF ScoreAt
    <3>3. QED
      BY <1>2, <1>4, <2>3, <2>4, <3>1, <3>2
  <2>6. CASE i \notin Takes(worktree, dev_ev)
    <3>1. ~(dev_ev[i] > ScoreAt(i))
      BY <1>2, <2>6 DEF Takes, Improves, Covers
    <3>2. cells'[i] = cells[i]
      BY <1>3, <2>6
    <3>3. QED
      BY <2>1, <2>4, <3>1, <3>2 DEF ScoreAt
  <2>7. QED
    BY <2>5, <2>6
<1>6. (\/ best_overall = UnionFloor
          /\ union # NoCell => UnionMean(union.dev_evidence) <= UnionFloor
       \/ union # NoCell /\ best_overall = UnionMean(union.dev_evidence))'
  <2>1. UnionLabel \in Improved(dev_ev) <=> ImprovesUnion(dev_ev)
    BY ConstantsAssumption DEF Improved
  <2>2. UnionMean(dev_ev) \in Int /\ UnionFloor \in Int
    BY <1>1, UnionMeanAssumption, MonitorAssumption
  <2>3. union # NoCell => UnionMean(union.dev_evidence) \in Int
    BY UnionMeanAssumption DEF Typed, TypeOK, ArchiveTypeOK
  <2>4. \/ best_overall = UnionFloor
           /\ union # NoCell => UnionMean(union.dev_evidence) <= UnionFloor
        \/ union # NoCell /\ best_overall = UnionMean(union.dev_evidence)
    BY DEF Shown
  <2>5. CASE ~ImprovesUnion(dev_ev)
    BY <1>3, <2>1, <2>4, <2>5 DEF ShowChild
  <2>6. CASE ImprovesUnion(dev_ev)
    <3>1. /\ union' = elite /\ union' # NoCell
          /\ UnionMean(union'.dev_evidence) = UnionMean(dev_ev)
      BY <1>3, <1>4, <2>6
    <3>2. best_overall' = IF UnionMean(dev_ev) > best_overall
                          THEN UnionMean(dev_ev) ELSE best_overall
      BY <2>1, <2>6 DEF ShowChild
    <3>3. union # NoCell => UnionMean(dev_ev) > UnionMean(union.dev_evidence)
      BY <2>6 DEF ImprovesUnion
    <3>4. QED
      BY <2>2, <2>3, <2>4, <3>1, <3>2, <3>3
  <2>7. QED
    BY <2>5, <2>6
<1>7. QED
  BY <1>5, <1>6 DEF Shown

LEMMA StepShown ==
  ASSUME Typed, Filled, Shown, [NextMonitored]_<<vars, monitorVars>>
  PROVE  Shown'
<1>1. CASE ColdStart /\ ShowColdStart
  BY <1>1, ColdStartShown
<1>2. CASE Reported /\ UNCHANGED shownVars
  <2>1. CASE ReferenceUnbound
    <3>1. Unbound'
      BY <2>1, RecordedUnbound DEF ReferenceUnbound
    <3>2. QED
      BY <3>1 DEF Shown
  <2>2. CASE ~ReferenceUnbound
    <3>1. /\ UNCHANGED archiveVars
          /\ \/ UNCHANGED results
             \/ \E op, outcome : Record(op, outcome)
      BY <1>2, <2>2 DEF Reported, PickCell, PrepareRaises, OperatorReturns,
         OperatorRaises, GatePasses, IterationFails, tallyVars
    <3>2. Unbound => Unbound'
      BY <3>1, RecordedUnbound DEF Unbound
    <3>3. QED
      BY <1>2, <3>1, <3>2, UnchangedShown
  <2>3. QED
    BY <2>1, <2>2
<1>3. CASE InsertChild /\ ShowChild
  <2>1. \E op, outcome : Record(op, outcome)
    BY <1>3 DEF InsertChild
  <2>2. Unbound => Unbound'
    BY <2>1, RecordedUnbound
  <2>3. QED
    BY <1>3, <2>2, ChildShown DEF Shown
<1>4. CASE Unreported /\ UNCHANGED monitorVars
  <2>1. UNCHANGED <<archiveVars, shownVars, results>>
    BY <1>4 DEF Unreported, DevEval, Publish, NotPublished, Register, Finish,
       RequestStop, monitorVars, tallyVars
  <2>2. QED
    BY <2>1, UnchangedShown DEF Unbound
<1>5. CASE UNCHANGED <<vars, monitorVars>>
  <2>1. UNCHANGED <<archiveVars, shownVars, results>>
    BY <1>5 DEF vars, monitorVars, tallyVars
  <2>2. QED
    BY <2>1, UnchangedShown DEF Unbound
<1>6. QED
  BY <1>1, <1>2, <1>3, <1>4, <1>5 DEF NextMonitored

LEMMA AlwaysFilled == Spec => []Filled
BY InitFilled, StepFilled, AlwaysTyped, PTL DEF Spec

(* The scores on the screen are the archive's, worked out from reports by the
   monitor's own rules, as long as no archived child's iteration failed after
   the archiving (run.py progress_mean, incumbent, best_overall). *)
THEOREM MonitorIsRight == SpecMonitored => []MonitorShowsTheArchive
<1>1. Shown => MonitorShowsTheArchive
  BY DEF Shown, Unbound, MonitorShowsTheArchive, ResultSet
<1>2. QED
  BY <1>1, InitShown, StepShown, AlwaysTyped, AlwaysFilled, MonitorOnlyWatches, PTL
     DEF SpecMonitored

\* The steps shown of the iteration under way, by where the loop is in it.
UnderWaySteps ==
  IF phase = "operator" THEN {"edit_start"}
  ELSE IF phase = "gate" THEN {"edit_start", "edit_end"}
  ELSE Steps \ {"decided"}

TrueOf(r) ==
  /\ "edit_end" \in iter_times[r.iteration] <=> r.op = "ok"
  /\ r.outcome \in EvaluatedOutcomes \cup {"gate"} => "smoke_end" \in iter_times[r.iteration]
  /\ "smoke_end" \in iter_times[r.iteration] => r.op = "ok"

\* No iteration to come has been stamped, the one under way exactly as far as it
\* is, and every other is told as it was recorded.
Told ==
  /\ iter_times \in [1..Iterations -> SUBSET Steps]
  /\ \A n \in 1..Iterations : n > k => iter_times[n] = {}
  /\ phase \in Working => iter_times[k] = UnderWaySteps
  /\ \A n \in 1..Iterations :
       /\ "decided" \in iter_times[n] <=> \E m \in DOMAIN results : results[m].iteration = n
       /\ "edit_start" \in iter_times[n] =>
            "decided" \in iter_times[n] \/ (phase \in Working /\ n = k)
  /\ \A m \in DOMAIN results : TrueOf(results[m])

LEMMA ReachesFacts ==
  /\ Reaches("mutating") = {"edit_start"}
  /\ Reaches("gating") = {"edit_start", "edit_end"}
  /\ Reaches("evaluating-dev") = Steps \ {"decided"}
  /\ Reaches("registered") = Steps
  /\ Reaches("rejected") = Steps
  /\ Reaches("error") = {"decided"}
BY DEF Reaches

LEMMA InitTold == InitMonitor => Told
BY LoopAssumption DEF InitMonitor, Init, Told, Working, Steps

(* A step that changes neither what was recorded nor what is shown. *)
LEMMA UntoldStep ==
  ASSUME Typed, Told, UNCHANGED <<results, iter_times, k>>,
         \/ UNCHANGED phase
         \/ phase \notin Working /\ phase' \notin Working
         \/ phase \in Working \ {"operator", "gate"} /\ phase' \in Working \ {"operator", "gate"}
  PROVE  Told'
<1>1. \A m \in DOMAIN results : TrueOf(results[m])' <=> TrueOf(results[m])
  BY DEF TrueOf
<1>2. phase' \in Working => phase \in Working /\ UnderWaySteps' = UnderWaySteps
  BY DEF UnderWaySteps, Working
<1>3. phase \in Working => phase' \in Working
  BY DEF Working
<1>4. QED
  BY <1>1, <1>2, <1>3 DEF Told

(* The loop reports that the iteration under way has come further. *)
LEMMA ProgressTold ==
  ASSUME Typed, Dated, Told, phase' \in Working, UNCHANGED results,
         \/ phase \in Working /\ k' = k
         \/ phase = "top" /\ k' = k + 1 /\ k < Iterations,
         iter_times' = [iter_times EXCEPT ![k'] = UnderWaySteps']
  PROVE  Told'
<1>1. k \in Nat /\ k' \in 1..Iterations /\ k <= k'
  BY NumbersTyped, UnderWay, LoopAssumption
<1>2. \A m \in DOMAIN results : results[m].iteration \in 1..Iterations
                               /\ results[m].iteration # k'
  BY NumbersTyped, UnderWay DEF Dated
<1>3. UnderWaySteps' \subseteq Steps \ {"decided"}
  BY DEF UnderWaySteps, Steps
<1>4. iter_times' \in [1..Iterations -> SUBSET Steps]
      /\ \A n \in 1..Iterations :
           iter_times'[n] = IF n = k' THEN UnderWaySteps' ELSE iter_times[n]
  BY <1>1, <1>3 DEF Told
<1>5. \A m \in DOMAIN results : TrueOf(results[m])'
  BY <1>2, <1>4 DEF Told, TrueOf
<1>6. \A n \in 1..Iterations : n > k' => iter_times'[n] = {}
  BY <1>1, <1>4 DEF Told
<1>7. ASSUME NEW n \in 1..Iterations
      PROVE  /\ "decided" \in iter_times'[n] <=> \E m \in DOMAIN results : results[m].iteration = n
             /\ "edit_start" \in iter_times'[n] => "decided" \in iter_times'[n] \/ n = k'
  <2>1. CASE n = k'
    BY <1>1, <1>2, <1>3, <1>4, <2>1
  <2>2. CASE n # k'
    <3>1. ~(phase \in Working /\ n = k)
      BY <2>2 DEF Working
    <3>2. QED
      BY <1>4, <2>2, <3>1 DEF Told
  <2>3. QED
    BY <2>1, <2>2
<1>8. QED
  BY <1>1, <1>4, <1>5, <1>6, <1>7 DEF Told

(* The loop records the iteration begun last and reports it. *)
LEMMA RecordedTold ==
  ASSUME Typed, Dated, Told, NEW op, NEW outcome, Record(op, outcome),
         phase' \notin Working,
         \/ phase \in Working /\ k' = k
         \/ phase = "top" /\ k' = k + 1 /\ k < Iterations,
         NEW reached \in SUBSET Steps, "decided" \in reached,
         iter_times' = [iter_times EXCEPT ![k'] = reached],
         "edit_end" \in reached <=> op = "ok",
         outcome \in EvaluatedOutcomes \cup {"gate"} => "smoke_end" \in reached,
         "smoke_end" \in reached => op = "ok"
  PROVE  Told'
<1> DEFINE l == Len(results)
<1>1. k \in Nat /\ k' \in 1..Iterations /\ k <= k'
  BY NumbersTyped, UnderWay, LoopAssumption
<1>2. /\ l \in Nat /\ DOMAIN results = 1..l /\ DOMAIN results' = 1..(l + 1)
      /\ results'[l + 1].iteration = k' /\ results'[l + 1].op = op
      /\ results'[l + 1].outcome = outcome
      /\ \A m \in 1..l : results'[m] = results[m]
  BY NumbersTyped DEF Record
<1>3. \A m \in 1..l : results[m].iteration \in 1..Iterations
                     /\ results[m].iteration # k'
  BY <1>2, NumbersTyped, UnderWay DEF Dated
<1>4. iter_times' \in [1..Iterations -> SUBSET Steps]
      /\ \A n \in 1..Iterations :
           iter_times'[n] = IF n = k' THEN reached ELSE iter_times[n]
  BY <1>1 DEF Told
<1>5. ASSUME NEW m \in DOMAIN results'
      PROVE  TrueOf(results[m])'
  <2>1. CASE m \in 1..l
    BY <1>2, <1>3, <1>4, <2>1 DEF Told, TrueOf
  <2>2. CASE m = l + 1
    BY <1>1, <1>2, <1>4, <2>2 DEF TrueOf
  <2>3. QED
    BY <1>2, <2>1, <2>2
<1>6. \A n \in 1..Iterations : n > k' => iter_times'[n] = {}
  BY <1>1, <1>4 DEF Told
<1>7. ASSUME NEW n \in 1..Iterations
      PROVE  /\ "decided" \in iter_times'[n] <=> \E m \in DOMAIN results' : results'[m].iteration = n
             /\ "edit_start" \in iter_times'[n] => "decided" \in iter_times'[n]
  <2>1. CASE n = k'
    BY <1>1, <1>2, <1>4, <2>1
  <2>2. CASE n # k'
    <3>1. ~(phase \in Working /\ n = k)
      BY <2>2 DEF Working
    <3>2. (\E m \in DOMAIN results' : results'[m].iteration = n)
            <=> \E m \in DOMAIN results : results[m].iteration = n
      BY <1>2, <2>2
    <3>3. QED
      BY <1>4, <2>2, <3>1, <3>2 DEF Told
  <2>3. QED
    BY <2>1, <2>2
<1>8. QED
  BY <1>1, <1>4, <1>5, <1>6, <1>7 DEF Told

(* An iteration that ends in an error is stamped decided and no more. *)
LEMMA ErrorTold ==
  ASSUME Typed, Dated, Told, NEW op, NEW outcome \in {"operator-error", "error"},
         Record(op, outcome), phase' \notin Working,
         \/ phase \in Working /\ k' = k
         \/ phase = "top" /\ k' = k + 1 /\ k < Iterations,
         Stamp("error"),
         "edit_end" \in iter_times[k'] <=> op = "ok",
         "smoke_end" \in iter_times[k'] => op = "ok"
  PROVE  Told'
<1> DEFINE reached == iter_times[k'] \cup {"decided"}
<1>1. k' \in 1..Iterations
  BY NumbersTyped, UnderWay, LoopAssumption
<1>2. iter_times' = [iter_times EXCEPT ![k'] = reached]
  BY ReachesFacts DEF Stamp
<1>3. reached \in SUBSET Steps /\ "decided" \in reached
  BY <1>1 DEF Told, Steps
<1>4. /\ "edit_end" \in reached <=> op = "ok"
      /\ "smoke_end" \in reached => op = "ok"
      /\ outcome \notin EvaluatedOutcomes \cup {"gate"}
  BY DEF EvaluatedOutcomes
<1> HIDE DEF reached
<1>5. QED
  BY <1>2, <1>3, <1>4, RecordedTold

LEMMA ReportedTold ==
  ASSUME Typed, Dated, Told, Reported
  PROVE  Told'
<1> USE ReachesFacts DEF UnderWaySteps, Working, Steps, EvaluatedOutcomes
<1>1. ASSUME NEW label \in Identity \cup {UnionLabel}, PickCell(label), Stamp("mutating")
      PROVE  Told'
  <2>1. iter_times' = [iter_times EXCEPT ![k'] = {"edit_start"}]
    BY <1>1 DEF Stamp
  <2>2. QED
    BY <1>1, <2>1, ProgressTold DEF PickCell, BeginIteration, tallyVars
<1>2. CASE PrepareRaises /\ Stamp("error")
  <2>1. /\ phase = "top" /\ phase' = "top" /\ k' = k + 1 /\ k < Iterations
        /\ Record("none", "error")
    BY <1>2 DEF PrepareRaises, BeginIteration
  <2>2. iter_times[k'] = {}
    BY <2>1, NumbersTyped, LoopAssumption DEF Told
  <2>3. QED
    BY <1>2, <2>1, <2>2, ErrorTold
<1>3. ASSUME NEW tree \in Tree, OperatorReturns(tree), Stamp("gating")
      PROVE  Told'
  <2>1. phase = "operator" /\ phase' = "gate" /\ UNCHANGED <<k, results>>
    BY <1>3 DEF OperatorReturns
  <2>2. iter_times[k] = {"edit_start"}
    BY <2>1 DEF Told
  <2>3. iter_times' = [iter_times EXCEPT ![k'] = {"edit_start", "edit_end"}]
    BY <1>3, <2>1, <2>2 DEF Stamp
  <2>4. QED
    BY <2>1, <2>3, ProgressTold
<1>4. ASSUME NEW refused \in BOOLEAN, OperatorRaises(refused), Stamp("error")
      PROVE  Told'
  <2> DEFINE op == IF refused THEN "refused" ELSE "failed"
  <2>1. /\ phase = "operator" /\ phase' \in {"aborted", "top"} /\ k' = k
        /\ Record(op, "operator-error")
    BY <1>4 DEF OperatorRaises
  <2>2. iter_times[k] = {"edit_start"}
    BY <2>1 DEF Told
  <2>3. op # "ok"
    OBVIOUS
  <2> HIDE DEF op
  <2>4. QED
    BY <1>4, <2>1, <2>2, <2>3, ErrorTold
<1>5. CASE GatePasses /\ Stamp("evaluating-dev")
  <2>1. phase = "gate" /\ phase' = "dev" /\ UNCHANGED <<k, results>>
    BY <1>5 DEF GatePasses, tallyVars
  <2>2. iter_times[k] = {"edit_start", "edit_end"}
    BY <2>1 DEF Told
  <2>3. iter_times' = [iter_times EXCEPT ![k'] = Steps \ {"decided"}]
    BY <1>5, <2>1, <2>2 DEF Stamp
  <2>4. QED
    BY <2>1, <2>3, ProgressTold
<1>6. CASE IterationFails("gate") /\ Stamp("rejected")
  <2>1. phase = "gate" /\ phase' = "top" /\ k' = k /\ Record("ok", "gate")
    BY <1>6 DEF IterationFails
  <2>2. iter_times[k] \subseteq Steps
    BY <2>1 DEF Told
  <2>3. iter_times' = [iter_times EXCEPT ![k'] = Steps]
    BY <1>6, <2>1, <2>2 DEF Stamp
  <2>4. QED
    BY <2>1, <2>3, RecordedTold
<1>7. CASE IterationFails("error") /\ Stamp("error")
  <2>1. /\ phase \in {"gate", "dev"} /\ phase' = "top" /\ k' = k
        /\ Record("ok", "error")
    BY <1>7 DEF IterationFails
  <2>2. "edit_end" \in iter_times[k]
    BY <2>1 DEF Told
  <2>3. QED
    BY <1>7, <2>1, <2>2, ErrorTold
<1>8. CASE ReferenceUnbound /\ Stamp("error")
  <2>1. phase = "insert" /\ phase' = "top" /\ k' = k /\ Record("ok", "unbound")
    BY <1>8 DEF ReferenceUnbound, Archived
  <2>2. iter_times[k] = Steps \ {"decided"}
    BY <2>1 DEF Told
  <2>3. iter_times' = [iter_times EXCEPT ![k'] = Steps]
    BY <1>8, <2>1, <2>2 DEF Stamp
  <2>4. QED
    BY <2>1, <2>2, <2>3, RecordedTold
<1>9. QED
  BY <1>1, <1>2, <1>3, <1>4, <1>5, <1>6, <1>7, <1>8 DEF Reported

LEMMA StepTold ==
  ASSUME Typed, Dated, Told, [NextMonitored]_<<vars, monitorVars>>
  PROVE  Told'
<1>1. CASE ColdStart /\ UNCHANGED iter_times
  <2>1. /\ UNCHANGED <<results, iter_times, k>>
        /\ phase \notin Working /\ phase' \notin Working
    BY <1>1 DEF ColdStart, ScoreChampion, ChampionsScored, ScoreSeed,
       ScoreUnionChampion, ColdStartRaises, tallyVars, Working
  <2>2. QED
    BY <2>1, UntoldStep
<1>2. CASE Reported
  BY <1>2, ReportedTold
<1>3. CASE InsertChild /\ Stamp("registered")
  <2>1. phase = "insert" /\ phase' = "top" /\ k' = k
    BY <1>3 DEF InsertChild, Archived
  <2>2. \E outcome : Record("ok", outcome)
    BY <1>3 DEF InsertChild
  <2>3. iter_times[k] = Steps \ {"decided"}
    BY <2>1 DEF Told, UnderWaySteps, Working
  <2>4. iter_times' = [iter_times EXCEPT ![k'] = Steps]
    BY <1>3, <2>1, <2>3, ReachesFacts DEF Stamp
  <2>5. QED
    BY <2>1, <2>2, <2>4, RecordedTold DEF Working, Steps
<1>4. CASE Unreported /\ UNCHANGED monitorVars
  <2>1. /\ UNCHANGED <<results, iter_times, k>>
        /\ \/ UNCHANGED phase
           \/ phase \notin Working /\ phase' \notin Working
           \/ /\ phase \in Working \ {"operator", "gate"}
              /\ phase' \in Working \ {"operator", "gate"}
    BY <1>4 DEF Unreported, DevEval, Publish, NotPublished, Register, Finish,
       RequestStop, monitorVars, tallyVars, Working
  <2>2. QED
    BY <2>1, UntoldStep
<1>5. CASE UNCHANGED <<vars, monitorVars>>
  BY <1>5, UntoldStep DEF vars, monitorVars, tallyVars
<1>6. QED
  BY <1>1, <1>2, <1>3, <1>4, <1>5 DEF NextMonitored

LEMMA AlwaysDated == Spec => []Dated
BY InitAccounted, StepAccounted, AlwaysTyped, PTL DEF Spec

LEMMA ToldIsTrue ==
  ASSUME Typed, Told
  PROVE  StoryIsTrue
<1>1. \A m \in DOMAIN results : results[m].iteration \in 1..Iterations
  BY NumbersTyped
<1>2. Stamped("decided") = {r.iteration : r \in ResultSet}
  BY <1>1 DEF Told, Stamped, ResultSet
<1>3. Stamped("edit_start") \ Stamped("decided") = IF phase \in Working THEN {k} ELSE {}
  <2>1. CASE phase \notin Working
    BY <2>1 DEF Told, Stamped
  <2>2. CASE phase \in Working
    <3>1. k \in 1..Iterations
      BY <2>2, LoopAssumption DEF Typed, TypeOK
    <3>2. "edit_start" \in iter_times[k] /\ "decided" \notin iter_times[k]
      BY <2>2 DEF Told, UnderWaySteps, Steps
    <3>3. QED
      BY <2>2, <3>1, <3>2 DEF Told, Stamped
  <2>3. QED
    BY <2>1, <2>2
<1>4. ASSUME NEW r \in ResultSet
      PROVE  /\ r.iteration \in Stamped("edit_end") <=> r.op = "ok"
             /\ r.outcome \in EvaluatedOutcomes \cup {"gate"} =>
                  r.iteration \in Stamped("smoke_end")
             /\ r.iteration \in Stamped("smoke_end") => r.op = "ok"
  <2>1. PICK m \in DOMAIN results : r = results[m]
    BY DEF ResultSet
  <2>2. TrueOf(r)
    BY <2>1 DEF Told
  <2>3. QED
    BY <1>1, <2>1, <2>2 DEF TrueOf, Stamped
<1>5. QED
  BY <1>2, <1>3, <1>4 DEF StoryIsTrue

(* The story the monitor tells is the loop's, whatever failed when: an iteration
   is shown decided when and only when it is recorded, the one shown running is
   the one under way, and a step is shown done only if it was (run.py _stamp,
   pace_left). *)
THEOREM MonitorTellsTheTruth == SpecMonitored => []StoryIsTrue
BY ToldIsTrue, InitTold, StepTold, AlwaysTyped, AlwaysDated, MonitorOnlyWatches, PTL
   DEF SpecMonitored

=============================================================================

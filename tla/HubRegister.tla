----------------------------- MODULE HubRegister -----------------------------
(***************************************************************************)
(* The hub's write path for self-reported scores: POST /register             *)
(* (hub/validate.py register), and Store.genesis, which archives the public *)
(* tables of a live hub.                                                     *)
(*                                                                          *)
(* register writes in separate transactions: the solution, each lineage row,*)
(* the atoms, the attainment.  Worker processes and threads serve requests  *)
(* concurrently, so other requests, genesis, or a kill can fall between any *)
(* two of them.  Milestones are levels 1..MaxLevel of the one progress      *)
(* scale; an atom at level 0 has reached none.                              *)
(***************************************************************************)
EXTENDS Integers, FiniteSets

CONSTANTS
  Request,         \* bound: the requests of one behaviour
  Solution,        \* solution ids, <repo>@<commit>
  Identity,
  Seed,            \* the published seeds of each identity
  MaxLevel,
  EvidenceOf,      \* what evaluations of each solution may report
  Parents,         \* the parents each solution's manifest names
  NoRow,           \* no row under a key
  MaxGenesis,      \* bound: how often the operator runs genesis
  MaxClock         \* bound: instants told apart by timestamps

Level == 0..MaxLevel
Milestone == 1..MaxLevel
BatchCell == Identity \X Seed
Time == 1..MaxClock

\* The row of a lit cell.
First == [solution : Solution, at : Time]

AtomKey == Solution \X BatchCell
CellKey == Identity \X Milestone

\* The public tables.
TablesOfType ==
  [solutions  : [Solution -> Time \cup {NoRow}],
   lineage    : SUBSET (Solution \X Solution),
   atoms      : [AtomKey -> Level \cup {NoRow}],
   attainment : [CellKey -> First \cup {NoRow}],
   holders    : [CellKey \X Solution -> Time \cup {NoRow}]]

\* Evidence covers the whole batch of the identities it covers.
Evidence == UNION {[ids \X Seed -> Level] : ids \in (SUBSET Identity) \ {{}}}

ASSUME RegisterAssumption ==
  /\ MaxLevel \in Nat \ {0} /\ MaxClock \in Nat \ {0} /\ MaxGenesis \in Nat
  /\ EvidenceOf \in [Solution -> SUBSET Evidence]
  /\ Parents \in [Solution -> SUBSET Solution]
  /\ NoRow \notin Level \cup Time \cup First \cup TablesOfType

VARIABLES
  solutions,     \* registered_at of each solution, or NoRow
  lineage,       \* <<child, parent>> rows
  atoms,         \* the stored level of each <<solution, identity, seed>>, or NoRow
  attainment,    \* first solution and time of each <<identity, milestone>>, or NoRow
  holders,       \* reached_at of each <<identity, milestone, solution>>, or NoRow
  archive,       \* the *_v1 tables, or NoRow
  genesis_runs,
  clock,
  request        \* each request's state

db == <<solutions, lineage, atoms, attainment, holders>>
vars == <<db, archive, genesis_runs, clock, request>>

Stages == {"solution", "lineage", "atoms", "attainment"}

Waiting == [stage |-> "waiting"]

Empty ==
  [solutions  |-> [s \in Solution |-> NoRow],
   lineage    |-> {},
   atoms      |-> [a \in AtomKey |-> NoRow],
   attainment |-> [c \in CellKey |-> NoRow],
   holders    |-> [h \in CellKey \X Solution |-> NoRow]]

Tables ==
  [solutions |-> solutions, lineage |-> lineage, atoms |-> atoms,
   attainment |-> attainment, holders |-> holders]

Become(t) ==
  /\ solutions' = t.solutions
  /\ lineage' = t.lineage
  /\ atoms' = t.atoms
  /\ attainment' = t.attainment
  /\ holders' = t.holders

Init ==
  /\ solutions = Empty.solutions
  /\ lineage = Empty.lineage
  /\ atoms = Empty.atoms
  /\ attainment = Empty.attainment
  /\ holders = Empty.holders
  /\ archive = NoRow
  /\ genesis_runs = 0
  /\ clock = 1
  /\ request = [r \in Request |-> Waiting]

Goto(r, stage) == request' = [request EXCEPT ![r].stage = stage]

-----------------------------------------------------------------------------
(* One request *)

\* The request's timestamp is taken before the checks, which call GitHub; a
\* request any check rejects writes nothing and is left out.
Accept(r, s, ev) ==
  /\ request[r].stage = "waiting"
  /\ ev \in EvidenceOf[s]
  /\ request' = [request EXCEPT ![r] =
       [stage |-> "solution", solution |-> s, evidence |-> ev, now |-> clock,
        genesis_runs |-> genesis_runs]]
  /\ UNCHANGED <<db, archive, genesis_runs, clock>>

UpsertSolution(r) ==
  LET q == request[r]
  IN  /\ q.stage = "solution"
      /\ solutions' = [solutions EXCEPT ![q.solution] = q.now]
      /\ Goto(r, "lineage")
      /\ UNCHANGED <<lineage, atoms, attainment, holders, archive, genesis_runs, clock>>

\* add_lineage, one commit per parent; a foreign key holds the child to a live
\* solution.
AddLineage(r, parent) ==
  LET q == request[r]
  IN  /\ q.stage = "lineage"
      /\ parent \in Parents[q.solution]
      /\ solutions[q.solution] # NoRow
      /\ lineage' = lineage \cup {<<q.solution, parent>>}
      /\ UNCHANGED <<solutions, atoms, attainment, holders, archive, genesis_runs,
                     clock, request>>

LineageAdded(r) ==
  LET q == request[r]
  IN  /\ q.stage = "lineage"
      /\ \A parent \in Parents[q.solution] : <<q.solution, parent>> \in lineage
      /\ Goto(r, "atoms")
      /\ UNCHANGED <<db, archive, genesis_runs, clock>>

\* Slip: a solution with any atom counts as scored already.
StoredAtomsOncePerSolution(s, ev) ==
  [a \in AtomKey |->
     IF /\ a[1] = s /\ a[2] \in DOMAIN ev
        /\ \A b \in BatchCell : atoms[<<s, b>>] = NoRow
     THEN ev[a[2]] ELSE atoms[a]]

\* INSERT OR IGNORE of the batch: an atom already stored keeps its level.
\* Evidence has one level a seed: rows of one submission with the same key, which
\* register lets pass, are not told apart.
StoredAtoms(s, ev) ==
  [a \in AtomKey |->
     IF a[1] = s /\ a[2] \in DOMAIN ev /\ atoms[a] = NoRow
     THEN ev[a[2]] ELSE atoms[a]]

\* insert_atoms, in one transaction, under the same foreign key.
InsertAtoms(r) ==
  LET q == request[r]
  IN  /\ q.stage = "atoms"
      /\ solutions[q.solution] # NoRow
      /\ atoms' = StoredAtoms(q.solution, q.evidence)
      /\ Goto(r, "attainment")
      /\ UNCHANGED <<solutions, lineage, attainment, holders, archive, genesis_runs,
                     clock>>

\* The cells an evidence lights: the milestones some episode of the identity
\* reached or passed.
Lights(ev) ==
  {c \in CellKey : \E b \in DOMAIN ev : b[1] = c[1] /\ ev[b] >= c[2]}

\* Slip: INSERT OR REPLACE, so a holder's time is its last request's.
HoldersReplaced(s, lit, now) ==
  [h \in CellKey \X Solution |-> IF h[1] \in lit /\ h[2] = s THEN now ELSE holders[h]]

\* Slip: only the solution that lights a cell is stored as its holder.
HoldersOfNewCells(s, lit, now) ==
  [h \in CellKey \X Solution |->
     IF h[1] \in lit /\ h[2] = s /\ attainment[h[1]] = NoRow THEN now ELSE holders[h]]

\* _INSERT_HOLDER_SQL: the solution holds every lit cell, once.
HoldersWith(s, lit, now) ==
  [h \in CellKey \X Solution |->
     IF h[1] \in lit /\ h[2] = s /\ holders[h] = NoRow THEN now ELSE holders[h]]

\* Slip: the upsert without its WHERE, so the last to commit is the first.
FirstsLastWins(s, lit, now) ==
  [c \in CellKey |-> IF c \in lit THEN [solution |-> s, at |-> now] ELSE attainment[c]]

\* _RATCHET_FIRST_SQL: every lit cell keeps the earliest `first`.
FirstsWith(s, lit, now) ==
  [c \in CellKey |->
     IF c \in lit /\ (attainment[c] = NoRow \/ now < attainment[c].at)
     THEN [solution |-> s, at |-> now] ELSE attainment[c]]

\* update_attainment, in one transaction.
UpdateAttainment(r) ==
  LET q   == request[r]
      lit == Lights(q.evidence)
  IN  /\ q.stage = "attainment"
      /\ holders' = HoldersWith(q.solution, lit, q.now)
      /\ attainment' = FirstsWith(q.solution, lit, q.now)
      /\ Goto(r, "answered")
      /\ UNCHANGED <<solutions, lineage, atoms, archive, genesis_runs, clock>>

\* The process dies, a statement times out on the write lock, or the foreign key
\* fails: what is committed stays, and the client sees an error.
Fail(r) ==
  /\ request[r].stage \in Stages
  /\ Goto(r, "failed")
  /\ UNCHANGED <<db, archive, genesis_runs, clock>>

-----------------------------------------------------------------------------
(* The operator and time *)

\* Slip: genesis guarded on nothing: a second run replaces the archive.
genesisAgain ==
  /\ genesis_runs < MaxGenesis
  /\ genesis_runs' = genesis_runs + 1
  /\ archive' = Tables
  /\ Become(Empty)
  /\ UNCHANGED <<clock, request>>

\* Store.genesis, in one transaction: the public tables are renamed away and
\* recreated empty, unless an archive is there.
genesis ==
  /\ genesis_runs < MaxGenesis
  /\ genesis_runs' = genesis_runs + 1
  /\ IF archive = NoRow
     THEN archive' = Tables /\ Become(Empty)
     ELSE UNCHANGED <<db, archive>>
  /\ UNCHANGED <<clock, request>>

Tick ==
  /\ clock < MaxClock
  /\ clock' = clock + 1
  /\ UNCHANGED <<db, archive, genesis_runs, request>>

Serve(r) ==
  \/ \E s \in Solution : \E ev \in EvidenceOf[s] : Accept(r, s, ev)
  \/ UpsertSolution(r)
  \/ \E parent \in Solution : AddLineage(r, parent)
  \/ LineageAdded(r)
  \/ InsertAtoms(r)
  \/ UpdateAttainment(r)
  \/ Fail(r)

Next == (\E r \in Request : Serve(r)) \/ genesis \/ Tick

Spec == Init /\ [][Next]_vars

-----------------------------------------------------------------------------
(* Properties *)

Accepted ==
  [stage : Stages \cup {"answered", "failed"}, solution : Solution,
   evidence : UNION {EvidenceOf[s] : s \in Solution}, now : Time,
   genesis_runs : 0..MaxGenesis]

\* Types: a row holds what its columns mean, live or archived.
TypeOK ==
  /\ Tables \in TablesOfType
  /\ archive \in TablesOfType \cup {NoRow}
  /\ genesis_runs \in 0..MaxGenesis
  /\ clock \in Time
  /\ request \in [Request -> Accepted \cup {Waiting}]

IsLit(c) == attainment[c] # NoRow
Holds(s, c) == holders[<<c, s>>] # NoRow

\* The `first` of a milestone is one of its holders and no holder reached it
\* earlier, in whatever order requests taken at different times commit
\* (attainment.py _RATCHET_FIRST_SQL).
FirstIsEarliest ==
  \A c \in CellKey :
    /\ IsLit(c) => Holds(attainment[c].solution, c)
    /\ \A s \in Solution :
         Holds(s, c) => IsLit(c) /\ attainment[c].at <= holders[<<c, s>>]

\* The levels stored for an atom, on the board or in the archive.
StoredLevels(a) ==
  ({atoms[a]} \cup (IF archive = NoRow THEN {} ELSE {archive.atoms[a]})) \ {NoRow}

\* The levels requests of a solution have reported for an episode, failed
\* requests included.
ReportedLevels(s, b) ==
  {request[r].evidence[b] : r \in {q \in Request :
     /\ request[q].stage # "waiting"
     /\ request[q].solution = s
     /\ b \in DOMAIN request[q].evidence}}

\* Request q lit milestone c for solution s with an episode whose atom is stored.
Earns(q, s, c) ==
  /\ q.stage = "answered" /\ q.solution = s /\ q.now = holders[<<c, s>>]
  /\ \E b \in DOMAIN q.evidence :
       /\ b[1] = c[1] /\ q.evidence[b] >= c[2]
       /\ StoredLevels(<<s, b>>) # {}
       /\ StoredLevels(<<s, b>>) \subseteq ReportedLevels(s, b)

\* A milestone is held only by a solution that earned it: a request of the
\* solution showed an episode that reached it, the milestone bears the date of
\* that request, and the episode's atom is stored, live or in the archive of a
\* genesis that fell between the two commits, with no level but one the
\* solution reported.  Where evaluations of a solution differ, that need not be
\* the level that lit the cell (validate.py:263-265: atoms already stored are
\* ignored, and the attainment is updated from the submitted ones).
MilestonesAreEarned ==
  \A c \in CellKey, s \in Solution :
    Holds(s, c) => \E r \in Request : Earns(request[r], s, c)

\* A solution holds a milestone only if one of its stored atoms, live or
\* archived, reached it (attainment.py:5-6, "lit iff some atom on identity has
\* progression >= ACHIEVEMENTS[label]").  It does not hold where two evaluations
\* of a solution differ: see the README.
LitCellsHaveAnAtom ==
  \A c \in CellKey, s \in Solution :
    Holds(s, c) =>
      \E seed \in Seed : \E level \in StoredLevels(<<s, <<c[1], seed>>>>) : level >= c[2]

\* A request answered with success is on the board whole, whatever other
\* requests, failed ones of the same solution included, did in between: its
\* solution, its lineage, an atom for all it evaluated, and the milestones it
\* reached.  Genesis, which archives the board, is the one exception.
AnsweredIsComplete ==
  \A r \in Request :
    LET q == request[r]
    IN  q.stage = "answered" /\ q.genesis_runs = genesis_runs =>
          /\ solutions[q.solution] # NoRow
          /\ \A parent \in Parents[q.solution] : <<q.solution, parent>> \in lineage
          /\ \A b \in DOMAIN q.evidence : atoms[<<q.solution, b>>] # NoRow
          /\ \A c \in Lights(q.evidence) : IsLit(c) /\ Holds(q.solution, c)

Keeps(row, row_) == \A k \in DOMAIN row : row[k] # NoRow => row_[k] = row[k]

\* Scores are never lost: a stored atom, a holder and a lineage row stay as they
\* are, a lit cell stays lit and its `first` only moves earlier; the one step
\* that takes them off the board moves all of it into an archive, which then
\* never changes, so a second genesis cannot empty a board that has refilled.
ScoresAreNeverLost ==
  [][\/ archive = NoRow /\ archive' = Tables
     \/ /\ archive' = archive
        /\ lineage \subseteq lineage'
        /\ Keeps(atoms, atoms')
        /\ Keeps(holders, holders')
        /\ \A c \in CellKey :
             IsLit(c) => attainment'[c] # NoRow /\ attainment'[c].at <= attainment[c].at]_vars

\* The request repeats one already answered, accepted no later than it.
Repeats(r) ==
  \E r0 \in Request \ {r} :
    /\ request[r0].stage = "answered"
    /\ request[r0].solution = request[r].solution
    /\ request[r0].evidence = request[r].evidence
    /\ request[r0].now <= request[r].now

OnlyRepeatsAreServed ==
  \A r \in Request : request[r].stage \in Stages => Repeats(r)

\* Registering evidence again changes no score: what it adds is there, though
\* the rows it meets may have been written by other requests.
RepeatsChangeNoScore ==
  [][OnlyRepeatsAreServed /\ genesis_runs' = 0 =>
       UNCHANGED <<lineage, atoms, attainment, holders>>]_vars

=============================================================================

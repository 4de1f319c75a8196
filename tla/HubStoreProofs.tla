---------------------------- MODULE HubStoreProofs ----------------------------
(***************************************************************************)
(* Proofs about the hub's store.  First its write path, for any number of   *)
(* requests, solutions, milestones, genesis runs and instants, and the      *)
(* recognition read from it; then the migration of a legacy database by the *)
(* workers that boot, for any number of workers, kills, tables, rows and    *)
(* images.                                                                  *)
(***************************************************************************)
EXTENDS Recognition, HubMigration, FiniteSetTheorems, WellFoundedInduction, TLAPS

-----------------------------------------------------------------------------
(* THE WRITE PATH *)

(* Evidence gives a level to every cell of the batch it covers. *)
LEMMA EvidenceFacts ==
  ASSUME NEW s \in Solution, NEW ev \in EvidenceOf[s]
  PROVE  DOMAIN ev \subseteq BatchCell /\ \A b \in DOMAIN ev : ev[b] \in Level
<1>1. ev \in Evidence
  BY RegisterAssumption
<1>2. PICK ids \in (SUBSET Identity) \ {{}} : ev \in [ids \X Seed -> Level]
  BY <1>1 DEF Evidence
<1>3. QED
  BY <1>2 DEF BatchCell

(* A request past its acceptance carries what it was accepted with. *)
LEMMA RequestFacts ==
  ASSUME TypeOK, NEW r \in Request, request[r].stage \in Stages
  PROVE  /\ request[r] \in Accepted
         /\ request[r].solution \in Solution
         /\ request[r].now \in Time
         /\ DOMAIN request[r].evidence \subseteq BatchCell
         /\ \A b \in DOMAIN request[r].evidence : request[r].evidence[b] \in Level
<1>1. request[r] \in Accepted
  BY DEF TypeOK, Waiting, Stages
<1>2. PICK s \in Solution : request[r].evidence \in EvidenceOf[s]
  BY <1>1 DEF Accepted
<1>3. QED
  BY <1>1, <1>2, EvidenceFacts DEF Accepted

(* Moving a request on keeps the type of the requests. *)
LEMMA GotoType ==
  ASSUME TypeOK, NEW r \in Request, request[r].stage \in Stages,
         NEW stage \in Stages \cup {"answered", "failed"}, Goto(r, stage)
  PROVE  request' \in [Request -> Accepted \cup {Waiting}]
<1>1. request[r] \in Accepted
  BY RequestFacts
<1>2. [request[r] EXCEPT !.stage = stage] \in Accepted
  BY <1>1 DEF Accepted
<1>3. QED
  BY <1>2 DEF Goto, TypeOK

LEMMA EmptyType == Empty \in TablesOfType
BY DEF Empty, TablesOfType

(* Rows keep their types. *)
LEMMA TypeInductive == TypeOK /\ [Next]_vars => TypeOK'
<1> SUFFICES ASSUME TypeOK, [Next]_vars
             PROVE  TypeOK'
  OBVIOUS
<1>0. /\ solutions \in [Solution -> Time \cup {NoRow}]
      /\ lineage \in SUBSET (Solution \X Solution)
      /\ atoms \in [AtomKey -> Level \cup {NoRow}]
      /\ attainment \in [CellKey -> First \cup {NoRow}]
      /\ holders \in [CellKey \X Solution -> Time \cup {NoRow}]
  BY DEF TypeOK, Tables, TablesOfType
<1>1. ASSUME NEW r \in Request, NEW s \in Solution, NEW ev \in EvidenceOf[s],
             Accept(r, s, ev)
      PROVE  TypeOK'
  <2>1. [stage |-> "solution", solution |-> s, evidence |-> ev, now |-> clock,
         genesis_runs |-> genesis_runs] \in Accepted
    BY DEF Accepted, Stages, TypeOK
  <2>2. request' \in [Request -> Accepted \cup {Waiting}]
    BY <1>1, <2>1 DEF Accept, TypeOK
  <2>3. QED
    BY <1>1, <2>2 DEF Accept, TypeOK, db, Tables
<1>2. ASSUME NEW r \in Request, UpsertSolution(r)
      PROVE  TypeOK'
  <2>1. request' \in [Request -> Accepted \cup {Waiting}]
    BY <1>2, GotoType DEF UpsertSolution, Stages
  <2>2. solutions' \in [Solution -> Time \cup {NoRow}]
    BY <1>0, <1>2, RequestFacts DEF UpsertSolution, Stages
  <2>3. Tables' \in TablesOfType
    BY <1>0, <1>2, <2>2 DEF UpsertSolution, Tables, TablesOfType
  <2>4. QED
    BY <1>2, <2>1, <2>3 DEF UpsertSolution, TypeOK
<1>3. ASSUME NEW r \in Request, NEW parent \in Solution, AddLineage(r, parent)
      PROVE  TypeOK'
  <2>1. lineage' \in SUBSET (Solution \X Solution)
    BY <1>0, <1>3, RequestFacts DEF AddLineage, Stages
  <2>2. Tables' \in TablesOfType
    BY <1>0, <1>3, <2>1 DEF AddLineage, Tables, TablesOfType
  <2>3. QED
    BY <1>3, <2>2 DEF AddLineage, TypeOK
<1>4. ASSUME NEW r \in Request, LineageAdded(r)
      PROVE  TypeOK'
  <2>1. request' \in [Request -> Accepted \cup {Waiting}]
    BY <1>4, GotoType DEF LineageAdded, Stages
  <2>2. QED
    BY <1>4, <2>1 DEF LineageAdded, TypeOK, db, Tables
<1>5. ASSUME NEW r \in Request, InsertAtoms(r)
      PROVE  TypeOK'
  <2>1. request' \in [Request -> Accepted \cup {Waiting}]
    BY <1>5, GotoType DEF InsertAtoms, Stages
  <2>2. atoms' \in [AtomKey -> Level \cup {NoRow}]
    BY <1>0, <1>5, RequestFacts DEF InsertAtoms, StoredAtoms, AtomKey, Stages
  <2>3. Tables' \in TablesOfType
    BY <1>0, <1>5, <2>2 DEF InsertAtoms, Tables, TablesOfType
  <2>4. QED
    BY <1>5, <2>1, <2>3 DEF InsertAtoms, TypeOK
<1>6. ASSUME NEW r \in Request, UpdateAttainment(r)
      PROVE  TypeOK'
  <2>1. request' \in [Request -> Accepted \cup {Waiting}]
    BY <1>6, GotoType DEF UpdateAttainment, Stages
  <2>2. request[r].now \in Time /\ request[r].solution \in Solution
    BY <1>6, RequestFacts DEF UpdateAttainment, Stages
  <2>3. holders' \in [CellKey \X Solution -> Time \cup {NoRow}]
    BY <1>0, <1>6, <2>2 DEF UpdateAttainment, HoldersWith
  <2>4. attainment' \in [CellKey -> First \cup {NoRow}]
    BY <1>0, <1>6, <2>2 DEF UpdateAttainment, FirstsWith, First
  <2>5. Tables' \in TablesOfType
    BY <1>0, <1>6, <2>3, <2>4 DEF UpdateAttainment, Tables, TablesOfType
  <2>6. QED
    BY <1>6, <2>1, <2>5 DEF UpdateAttainment, TypeOK
<1>7. ASSUME NEW r \in Request, Fail(r)
      PROVE  TypeOK'
  <2>1. request' \in [Request -> Accepted \cup {Waiting}]
    BY <1>7, GotoType DEF Fail
  <2>2. QED
    BY <1>7, <2>1 DEF Fail, TypeOK, db, Tables
<1>8. CASE genesis
  <2>1. genesis_runs' \in 0..MaxGenesis
    BY <1>8, RegisterAssumption DEF genesis, TypeOK
  <2>2. request' = request /\ clock' = clock
    BY <1>8 DEF genesis
  <2>3. CASE archive = NoRow
    <3>1. archive' = Tables /\ Become(Empty)
      BY <1>8, <2>3 DEF genesis
    <3>2. Tables' = Empty
      BY <3>1 DEF Become, Tables, Empty
    <3>3. QED
      BY <2>1, <2>2, <3>1, <3>2, EmptyType DEF TypeOK
  <2>4. CASE archive # NoRow
    BY <1>8, <2>1, <2>2, <2>4 DEF genesis, TypeOK, db, Tables
  <2>5. QED
    BY <2>3, <2>4
<1>9. CASE Tick
  BY <1>9, RegisterAssumption DEF Tick, TypeOK, Time, db, Tables
<1>10. CASE UNCHANGED vars
  BY <1>10 DEF vars, TypeOK, db, Tables
<1>11. QED
  BY <1>1, <1>2, <1>3, <1>4, <1>5, <1>6, <1>7, <1>8, <1>9, <1>10 DEF Next, Serve

(* Every row, live or archived, holds what its columns mean, and a request what
   it was accepted with. *)
THEOREM TypeCorrect == Spec => []TypeOK
<1>1. Init => TypeOK
  BY RegisterAssumption, EmptyType
     DEF Init, TypeOK, Tables, Empty, TablesOfType, Time
<1>2. QED
  BY <1>1, TypeInductive, PTL DEF Spec

-----------------------------------------------------------------------------
(* The first holder of a milestone.  TypeOK is all that FirstIsEarliest needs to
   be inductive: an attainment update reads and writes its rows at one instant. *)

LEMMA FirstsInductive ==
  TypeOK /\ FirstIsEarliest /\ [Next]_vars => FirstIsEarliest'
<1> SUFFICES ASSUME TypeOK, FirstIsEarliest, [Next]_vars
             PROVE  FirstIsEarliest'
  OBVIOUS
<1>1. ASSUME NEW r \in Request, UpdateAttainment(r)
      PROVE  FirstIsEarliest'
  <2> DEFINE s0 == request[r].solution
             now == request[r].now
             lit == Lights(request[r].evidence)
  <2>1. /\ s0 \in Solution /\ now \in Time /\ now \in Int /\ now # NoRow
        /\ [solution |-> s0, at |-> now] # NoRow
    BY <1>1, RequestFacts, RegisterAssumption
       DEF UpdateAttainment, Stages, Time, First
  <2>2. /\ holders' = HoldersWith(s0, lit, now)
        /\ attainment' = FirstsWith(s0, lit, now)
    BY <1>1 DEF UpdateAttainment
  <2>3. ASSUME NEW c \in CellKey, NEW s \in Solution
        PROVE  holders'[<<c, s>>] = IF c \in lit /\ s = s0 /\ holders[<<c, s>>] = NoRow
                                    THEN now ELSE holders[<<c, s>>]
    BY <2>2 DEF HoldersWith
  <2>4. ASSUME NEW c \in CellKey
        PROVE  attainment'[c] =
                 IF c \in lit /\ (attainment[c] = NoRow \/ now < attainment[c].at)
                 THEN [solution |-> s0, at |-> now] ELSE attainment[c]
    BY <2>2 DEF FirstsWith
  <2>5. ASSUME NEW c \in CellKey
        PROVE  /\ attainment[c] # NoRow =>
                    attainment[c].solution \in Solution /\ attainment[c].at \in Int
               /\ \A s \in Solution : Holds(s, c) => holders[<<c, s>>] \in Int
    BY DEF TypeOK, Tables, TablesOfType, First, Time, Holds
  <2>6. ASSUME NEW c \in CellKey, IsLit(c)'
        PROVE  Holds(attainment[c].solution, c)'
    <3>1. CASE c \in lit /\ (attainment[c] = NoRow \/ now < attainment[c].at)
      BY <2>1, <2>3, <2>4, <3>1 DEF Holds
    <3>2. CASE ~(c \in lit /\ (attainment[c] = NoRow \/ now < attainment[c].at))
      <4>1. attainment'[c] = attainment[c] /\ attainment[c] # NoRow
        BY <2>4, <2>6, <3>2 DEF IsLit
      <4>2. Holds(attainment[c].solution, c)
        BY <4>1 DEF FirstIsEarliest, IsLit
      <4>3. QED
        BY <2>1, <2>3, <2>5, <4>1, <4>2 DEF Holds
    <3>3. QED
      BY <3>1, <3>2
  <2>7. ASSUME NEW c \in CellKey, NEW s \in Solution, Holds(s, c)'
        PROVE  attainment'[c] # NoRow /\ attainment'[c].at <= holders'[<<c, s>>]
    <3>1. CASE Holds(s, c)
      <4>1. /\ attainment[c] # NoRow
            /\ attainment[c].at <= holders[<<c, s>>]
            /\ holders'[<<c, s>>] = holders[<<c, s>>]
        BY <2>3, <3>1 DEF FirstIsEarliest, IsLit, Holds
      <4>2. QED
        BY <2>1, <2>4, <2>5, <3>1, <4>1
    <3>2. CASE ~Holds(s, c)
      <4>1. c \in lit /\ holders'[<<c, s>>] = now
        BY <2>3, <2>7, <3>2 DEF Holds
      <4>2. QED
        BY <2>1, <2>4, <2>5, <4>1
    <3>3. QED
      BY <3>1, <3>2
  <2>8. QED
    BY <2>6, <2>7 DEF FirstIsEarliest, IsLit, Holds
<1>2. CASE UNCHANGED <<attainment, holders>>
  BY <1>2 DEF FirstIsEarliest, IsLit, Holds
<1>3. CASE Become(Empty)
  BY <1>3 DEF Become, Empty, FirstIsEarliest, IsLit, Holds
<1>4. QED
  BY <1>1, <1>2, <1>3
     DEF Next, Serve, Accept, UpsertSolution, AddLineage, LineageAdded, InsertAtoms,
         Fail, genesis, Tick, vars, db

(* The `first` of a milestone is its earliest holder, in whatever order requests
   commit (hub/views/attainment.py _RATCHET_FIRST_SQL). *)
THEOREM FirstHolderIsEarliest == Spec => []FirstIsEarliest
<1>1. Init => FirstIsEarliest
  BY DEF Init, Empty, FirstIsEarliest, IsLit, Holds
<1>2. QED
  BY <1>1, FirstsInductive, TypeCorrect, PTL DEF Spec

-----------------------------------------------------------------------------
(* Scores are never lost. *)

\* What a step keeps of the tables, if it does not archive them.
Kept ==
  /\ archive' = archive
  /\ lineage \subseteq lineage'
  /\ Keeps(atoms, atoms')
  /\ Keeps(holders, holders')
  /\ \A c \in CellKey :
       IsLit(c) => attainment'[c] # NoRow /\ attainment'[c].at <= attainment[c].at

LEMMA UnchangedIsKept ==
  ASSUME TypeOK, archive' = archive, lineage \subseteq lineage',
         UNCHANGED <<atoms, holders, attainment>>
  PROVE  Kept
<1>1. \A c \in CellKey : IsLit(c) => attainment[c].at \in Int
  BY DEF TypeOK, Tables, TablesOfType, First, Time, IsLit
<1>2. QED
  BY <1>1 DEF Kept, Keeps, IsLit

(* A step of the hub either archives the tables as they are, once, or loses none
   of what they hold (hub/store.py:624-675, 758-795; attainment.py:48-62). *)
THEOREM ScoresAreKept == Spec => ScoresAreNeverLost
<1>1. TypeOK /\ [Next]_vars => [(archive = NoRow /\ archive' = Tables) \/ Kept]_vars
  <2> SUFFICES ASSUME TypeOK, Next
               PROVE  (archive = NoRow /\ archive' = Tables) \/ Kept
    OBVIOUS
  <2>1. ASSUME NEW r \in Request, NEW parent \in Solution, AddLineage(r, parent)
        PROVE  Kept
    BY <2>1, UnchangedIsKept DEF AddLineage
  <2>2. ASSUME NEW r \in Request, InsertAtoms(r)
        PROVE  Kept
    <3>1. Keeps(atoms, atoms')
      BY <2>2 DEF InsertAtoms, StoredAtoms, Keeps, TypeOK, Tables, TablesOfType
    <3>2. \A c \in CellKey : IsLit(c) => attainment[c].at \in Int
      BY DEF TypeOK, Tables, TablesOfType, First, Time, IsLit
    <3>3. QED
      BY <2>2, <3>1, <3>2 DEF InsertAtoms, Kept, Keeps, IsLit
  <2>3. ASSUME NEW r \in Request, UpdateAttainment(r)
        PROVE  Kept
    <3> DEFINE s0 == request[r].solution
               now == request[r].now
               lit == Lights(request[r].evidence)
    <3>1. /\ now \in Int
          /\ [solution |-> s0, at |-> now] # NoRow
      BY <2>3, RequestFacts, RegisterAssumption
         DEF UpdateAttainment, Stages, Time, First
    <3>2. Keeps(holders, holders')
      BY <2>3 DEF UpdateAttainment, HoldersWith, Keeps, TypeOK, Tables, TablesOfType
    <3>3. ASSUME NEW c \in CellKey, IsLit(c)
          PROVE  attainment'[c] # NoRow /\ attainment'[c].at <= attainment[c].at
      <4>1. attainment[c] # NoRow /\ attainment[c].at \in Int
        BY <3>3 DEF TypeOK, Tables, TablesOfType, First, Time, IsLit
      <4>2. attainment'[c] = IF c \in lit /\ now < attainment[c].at
                             THEN [solution |-> s0, at |-> now] ELSE attainment[c]
        BY <2>3, <4>1 DEF UpdateAttainment, FirstsWith
      <4>3. QED
        BY <3>1, <4>1, <4>2
    <3>4. QED
      BY <2>3, <3>2, <3>3 DEF UpdateAttainment, Kept, Keeps
  <2>4. CASE genesis
    BY <2>4, UnchangedIsKept DEF genesis, db
  <2>5. CASE UNCHANGED <<lineage, atoms, attainment, holders, archive>>
    BY <2>5, UnchangedIsKept
  <2>6. QED
    BY <2>1, <2>2, <2>3, <2>4, <2>5
       DEF Next, Serve, Accept, UpsertSolution, LineageAdded, Fail, Tick, db
<1>2. QED
  BY <1>1, TypeCorrect, PTL DEF Spec, ScoresAreNeverLost, Kept

-----------------------------------------------------------------------------
(* An answered request is on the board whole.  The invariant that carries this
   says what a request has committed at each of its stages, as long as genesis
   has not archived the board since it was accepted. *)

HasSolution(s) == solutions[s] # NoRow

HasLineage(s) == \A parent \in Parents[s] : <<s, parent>> \in lineage

HasAtoms(s, ev) == \A b \in DOMAIN ev : atoms[<<s, b>>] # NoRow

HasMilestones(s, ev) == \A c \in Lights(ev) : IsLit(c) /\ Holds(s, c)

Written(q) ==
  /\ q.stage \in {"lineage", "atoms", "attainment", "answered"} =>
       HasSolution(q.solution)
  /\ q.stage \in {"atoms", "attainment", "answered"} => HasLineage(q.solution)
  /\ q.stage \in {"attainment", "answered"} => HasAtoms(q.solution, q.evidence)
  /\ q.stage = "answered" => HasMilestones(q.solution, q.evidence)

Accounted(q) ==
  q.stage # "waiting" =>
    /\ q.genesis_runs <= genesis_runs
    /\ q.genesis_runs = genesis_runs => Written(q)

IInv == TypeOK /\ \A r \in Request : Accounted(request[r])

\* No row is taken off the board.
Grows ==
  /\ \A s \in Solution : HasSolution(s) => HasSolution(s)'
  /\ lineage \subseteq lineage'
  /\ \A a \in AtomKey : atoms[a] # NoRow => atoms'[a] # NoRow
  /\ \A c \in CellKey : IsLit(c) => IsLit(c)'
  /\ \A c \in CellKey, s \in Solution : Holds(s, c) => Holds(s, c)'

(* Outside genesis the board only grows. *)
LEMMA BoardGrows ==
  ASSUME TypeOK, [Next]_vars, ~genesis
  PROVE  Grows /\ genesis_runs' = genesis_runs
<1>1. CASE UNCHANGED <<db, genesis_runs>>
  BY <1>1 DEF db, Grows, HasSolution, IsLit, Holds
<1>2. ASSUME NEW r \in Request, UpsertSolution(r)
      PROVE  Grows /\ genesis_runs' = genesis_runs
  <2>1. request[r].now # NoRow
    BY <1>2, RequestFacts, RegisterAssumption DEF UpsertSolution, Stages
  <2>2. \A s \in Solution : HasSolution(s) => HasSolution(s)'
    BY <1>2, <2>1 DEF UpsertSolution, HasSolution, TypeOK, Tables, TablesOfType
  <2>3. QED
    BY <1>2, <2>2 DEF UpsertSolution, Grows, IsLit, Holds
<1>3. ASSUME NEW r \in Request, NEW parent \in Solution, AddLineage(r, parent)
      PROVE  Grows /\ genesis_runs' = genesis_runs
  BY <1>3 DEF AddLineage, Grows, HasSolution, IsLit, Holds
<1>4. ASSUME NEW r \in Request, InsertAtoms(r)
      PROVE  Grows /\ genesis_runs' = genesis_runs
  BY <1>4 DEF InsertAtoms, StoredAtoms, Grows, HasSolution, IsLit, Holds
<1>5. ASSUME NEW r \in Request, UpdateAttainment(r)
      PROVE  Grows /\ genesis_runs' = genesis_runs
  <2> DEFINE s0 == request[r].solution
             now == request[r].now
             lit == Lights(request[r].evidence)
  <2>1. now # NoRow /\ [solution |-> s0, at |-> now] # NoRow
    BY <1>5, RequestFacts, RegisterAssumption DEF UpdateAttainment, Stages, First
  <2>2. \A c \in CellKey : IsLit(c) => IsLit(c)'
    BY <1>5, <2>1 DEF UpdateAttainment, FirstsWith, IsLit
  <2>3. \A c \in CellKey, s \in Solution : Holds(s, c) => Holds(s, c)'
    BY <1>5, <2>1 DEF UpdateAttainment, HoldersWith, Holds
  <2>4. QED
    BY <1>5, <2>2, <2>3 DEF UpdateAttainment, Grows, HasSolution
<1>6. QED
  BY <1>1, <1>2, <1>3, <1>4, <1>5
     DEF Next, Serve, Accept, LineageAdded, Fail, Tick, vars

(* What a growing board has, it keeps. *)
LEMMA GrowingKeeps ==
  ASSUME Grows, NEW s \in Solution, NEW ev, DOMAIN ev \subseteq BatchCell
  PROVE  /\ HasSolution(s) => HasSolution(s)'
         /\ HasLineage(s) => HasLineage(s)'
         /\ HasAtoms(s, ev) => HasAtoms(s, ev)'
         /\ HasMilestones(s, ev) => HasMilestones(s, ev)'
BY DEF Grows, HasLineage, HasAtoms, HasMilestones, AtomKey, Lights

\* The type of a request that has been accepted.
LEMMA AcceptedFacts ==
  ASSUME TypeOK, NEW r \in Request, request[r].stage # "waiting"
  PROVE  /\ request[r] \in Accepted
         /\ request[r].solution \in Solution
         /\ request[r].genesis_runs \in Int /\ genesis_runs \in Int
         /\ DOMAIN request[r].evidence \subseteq BatchCell
<1>1. request[r] \in Accepted
  BY DEF TypeOK, Waiting
<1>2. PICK s \in Solution : request[r].evidence \in EvidenceOf[s]
  BY <1>1 DEF Accepted
<1>3. request[r].genesis_runs \in Int /\ genesis_runs \in Int
  BY <1>1, RegisterAssumption DEF Accepted, TypeOK
<1>4. QED
  BY <1>1, <1>2, <1>3, EvidenceFacts DEF Accepted

(* A request that does not move stays accounted for on a growing board. *)
LEMMA StillAccounted ==
  ASSUME IInv, Grows, genesis_runs' = genesis_runs,
         NEW r \in Request, request'[r] = request[r]
  PROVE  Accounted(request[r])'
<1> SUFFICES ASSUME request[r].stage # "waiting"
             PROVE  Accounted(request[r])'
  BY DEF Accounted
<1>1. Accounted(request[r])
  BY DEF IInv
<1>2. request[r].solution \in Solution /\ DOMAIN request[r].evidence \subseteq BatchCell
  BY AcceptedFacts DEF IInv
<1>3. Written(request[r]) => Written(request[r])'
  BY <1>2, GrowingKeeps DEF Written
<1>4. QED
  BY <1>1, <1>3 DEF Accounted

(* A request that moves on has the same solution, evidence and acceptance. *)
LEMMA MovedRequest ==
  ASSUME IInv, NEW r \in Request, request[r].stage \in Stages,
         NEW stage \in Stages \cup {"answered", "failed"}, Goto(r, stage)
  PROVE  /\ request'[r].stage = stage
         /\ request'[r].solution = request[r].solution
         /\ request'[r].evidence = request[r].evidence
         /\ request'[r].genesis_runs = request[r].genesis_runs
         /\ \A r_ \in Request \ {r} : request'[r_] = request[r_]
         /\ request[r].solution \in Solution
         /\ DOMAIN request[r].evidence \subseteq BatchCell
         /\ request[r].genesis_runs <= genesis_runs
         /\ request[r].genesis_runs = genesis_runs => Written(request[r])
<1>1. request[r] \in Accepted
  BY RequestFacts DEF IInv
<1>2. request'[r] = [request[r] EXCEPT !.stage = stage]
  BY DEF Goto, IInv, TypeOK
<1>3. \A r_ \in Request \ {r} : request'[r_] = request[r_]
  BY DEF Goto, IInv, TypeOK
<1>4. Accounted(request[r])
  BY DEF IInv
<1>5. request[r].stage # "waiting"
  BY DEF Stages
<1>6. request[r].solution \in Solution /\ DOMAIN request[r].evidence \subseteq BatchCell
  BY RequestFacts DEF IInv
<1>7. QED
  BY <1>1, <1>2, <1>3, <1>4, <1>5, <1>6 DEF Accepted, Accounted

(* A request that moves on is accounted for if its step wrote what its new stage
   adds; on a growing board so are the others. *)
LEMMA MovedIsAccounted ==
  ASSUME IInv, Grows, genesis_runs' = genesis_runs,
         NEW r \in Request, request[r].stage \in Stages,
         NEW stage \in Stages \cup {"answered", "failed"}, Goto(r, stage),
         request[r].genesis_runs = genesis_runs => Written(request[r])'
  PROVE  \A r_ \in Request : Accounted(request[r_])'
<1>1. Accounted(request[r])'
  BY MovedRequest DEF Accounted
<1>2. ASSUME NEW r_ \in Request \ {r}
      PROVE  Accounted(request[r_])'
  BY MovedRequest, StillAccounted
<1>3. QED
  BY <1>1, <1>2

(* Every step accounts for every request. *)
LEMMA IInvInductive == IInv /\ [Next]_vars => IInv'
<1> SUFFICES ASSUME IInv, [Next]_vars
             PROVE  \A r \in Request : Accounted(request[r])'
  BY TypeInductive DEF IInv
<1> USE DEF Stages
<1>1. CASE genesis
  <2>1. genesis_runs' = genesis_runs + 1 /\ request' = request
    BY <1>1 DEF genesis
  <2>2. ASSUME NEW r \in Request, request[r].stage # "waiting"
        PROVE  request[r].genesis_runs < genesis_runs'
    BY <2>1, <2>2, AcceptedFacts DEF IInv, Accounted
  <2>3. QED
    BY <2>1, <2>2, AcceptedFacts DEF Accounted, IInv
<1>2. ASSUME ~genesis
      PROVE  \A r \in Request : Accounted(request[r])'
  <2>0. Grows /\ genesis_runs' = genesis_runs
    BY <1>2, BoardGrows DEF IInv
  <2>1. ASSUME NEW r \in Request, NEW s \in Solution, NEW ev \in EvidenceOf[s],
               Accept(r, s, ev)
        PROVE  \A r_ \in Request : Accounted(request[r_])'
    <3>1. /\ request'[r].stage = "solution" /\ request'[r].genesis_runs = genesis_runs
          /\ \A r_ \in Request \ {r} : request'[r_] = request[r_]
      BY <2>1 DEF Accept, IInv, TypeOK
    <3>2. Accounted(request[r])'
      BY <2>0, <3>1, RegisterAssumption DEF Accounted, Written, IInv, TypeOK
    <3>3. QED
      BY <2>0, <3>1, <3>2, StillAccounted
  <2>2. ASSUME NEW r \in Request, UpsertSolution(r)
        PROVE  \A r_ \in Request : Accounted(request[r_])'
    <3>1. request[r].stage = "solution" /\ Goto(r, "lineage")
      BY <2>2 DEF UpsertSolution
    <3>2. HasSolution(request[r].solution)'
      <4>1. request[r].now # NoRow
        BY <3>1, RequestFacts, RegisterAssumption DEF IInv
      <4>2. QED
        BY <2>2, <3>1, <4>1, MovedRequest
           DEF UpsertSolution, HasSolution, IInv, TypeOK, Tables, TablesOfType
    <3>3. Written(request[r])'
      BY <3>1, <3>2, MovedRequest DEF Written
    <3>4. QED
      BY <2>0, <3>1, <3>3, MovedIsAccounted
  <2>3. ASSUME NEW r \in Request, LineageAdded(r)
        PROVE  \A r_ \in Request : Accounted(request[r_])'
    <3>1. request[r].stage = "lineage" /\ Goto(r, "atoms") /\ solutions' = solutions
          /\ lineage' = lineage
      BY <2>3 DEF LineageAdded, db
    <3>2. HasLineage(request[r].solution)'
      BY <2>3, <3>1, MovedRequest DEF LineageAdded, HasLineage
    <3>3. request[r].genesis_runs = genesis_runs => Written(request[r])'
      BY <3>1, <3>2, MovedRequest DEF Written, HasSolution
    <3>4. QED
      BY <2>0, <3>1, <3>3, MovedIsAccounted
  <2>4. ASSUME NEW r \in Request, InsertAtoms(r)
        PROVE  \A r_ \in Request : Accounted(request[r_])'
    <3> DEFINE s0 == request[r].solution
               ev == request[r].evidence
    <3>1. request[r].stage = "atoms" /\ Goto(r, "attainment")
          /\ solutions' = solutions /\ lineage' = lineage
          /\ atoms' = StoredAtoms(s0, ev)
      BY <2>4 DEF InsertAtoms
    <3>2. \A b \in DOMAIN ev : ev[b] # NoRow
      BY <3>1, RequestFacts, RegisterAssumption DEF IInv
    <3>3. \A b \in DOMAIN ev : atoms'[<<s0, b>>] # NoRow
      BY <3>1, <3>2, MovedRequest DEF StoredAtoms, AtomKey
    <3>4. HasAtoms(request[r].solution, request[r].evidence)'
      BY <3>1, <3>3, MovedRequest DEF HasAtoms
    <3>5. request[r].genesis_runs = genesis_runs => Written(request[r])'
      BY <3>1, <3>4, MovedRequest DEF Written, HasSolution, HasLineage
    <3>6. QED
      BY <2>0, <3>1, <3>5, MovedIsAccounted
  <2>5. ASSUME NEW r \in Request, UpdateAttainment(r)
        PROVE  \A r_ \in Request : Accounted(request[r_])'
    <3> DEFINE s0 == request[r].solution
               ev == request[r].evidence
               now == request[r].now
    <3>1. request[r].stage = "attainment" /\ Goto(r, "answered")
          /\ solutions' = solutions /\ lineage' = lineage /\ atoms' = atoms
          /\ holders' = HoldersWith(s0, Lights(ev), now)
          /\ attainment' = FirstsWith(s0, Lights(ev), now)
      BY <2>5 DEF UpdateAttainment
    <3>2. s0 \in Solution /\ now # NoRow /\ [solution |-> s0, at |-> now] # NoRow
      BY <3>1, RequestFacts, RegisterAssumption DEF IInv, First
    <3>3. ASSUME NEW c \in Lights(ev)
          PROVE  attainment'[c] # NoRow /\ holders'[<<c, s0>>] # NoRow
      <4>1. c \in CellKey
        BY DEF Lights
      <4>2. QED
        BY <3>1, <3>2, <4>1 DEF HoldersWith, FirstsWith
    <3>4. HasMilestones(request[r].solution, request[r].evidence)'
      BY <3>1, <3>3, MovedRequest DEF HasMilestones, IsLit, Holds, Lights
    <3>5. request[r].genesis_runs = genesis_runs => Written(request[r])'
      BY <3>1, <3>4, MovedRequest DEF Written, HasSolution, HasLineage, HasAtoms
    <3>6. QED
      BY <2>0, <3>1, <3>5, MovedIsAccounted
  <2>6. ASSUME NEW r \in Request, Fail(r)
        PROVE  \A r_ \in Request : Accounted(request[r_])'
    <3>1. request[r].stage \in Stages /\ Goto(r, "failed")
      BY <2>6 DEF Fail
    <3>2. Written(request[r])'
      BY <3>1, MovedRequest DEF Written
    <3>3. QED
      BY <2>0, <3>1, <3>2, MovedIsAccounted
  <2>7. CASE request' = request
    BY <2>0, <2>7, StillAccounted
  <2>8. QED
    BY <1>2, <2>1, <2>2, <2>3, <2>4, <2>5, <2>6, <2>7
       DEF Next, Serve, AddLineage, Tick, vars
<1>3. QED
  BY <1>1, <1>2

LEMMA InitIInv == Init => IInv
<1>1. Init => TypeOK
  BY RegisterAssumption, EmptyType
     DEF Init, TypeOK, Tables, Empty, TablesOfType, Time
<1>2. QED
  BY <1>1 DEF Init, IInv, Accounted, Waiting

(* A request answered with success is on the board whole, whatever other requests
   did between its transactions (hub/validate.py:248-270, hub/store.py:758-795,
   hub/views/attainment.py:74-100). *)
THEOREM AnsweredRequestsAreComplete == Spec => []AnsweredIsComplete
<1>1. IInv => AnsweredIsComplete
  BY DEF IInv, Accounted, Written, HasSolution, HasLineage, HasAtoms, HasMilestones,
         AnsweredIsComplete
<1>2. QED
  BY <1>1, InitIInv, IInvInductive, PTL DEF Spec

-----------------------------------------------------------------------------
(* Registering again.  Besides what an answered request has written, its time
   bounds the times of the milestones it reached. *)

\* No milestone the request reached was first reached after it.
Timely(q) ==
  q.stage = "answered" /\ q.genesis_runs = genesis_runs =>
    \A c \in Lights(q.evidence) : attainment[c].at <= q.now

AgainInv == IInv /\ \A r \in Request : Timely(request[r])

\* No lit cell has its `first` put off.
NotPutOff ==
  \A c \in CellKey : IsLit(c) => IsLit(c)' /\ attainment'[c].at <= attainment[c].at

LEMMA FirstsAreTimes ==
  ASSUME TypeOK, NEW c \in CellKey, IsLit(c)
  PROVE  attainment[c].at \in Int
BY DEF TypeOK, Tables, TablesOfType, First, Time, IsLit

(* An update of the attainment puts no cell off, and no cell it lights is later
   than the request. *)
LEMMA UpdateIsTimely ==
  ASSUME TypeOK, NEW r \in Request, UpdateAttainment(r)
  PROVE  /\ NotPutOff
         /\ \A c \in Lights(request[r].evidence) : attainment'[c].at <= request[r].now
<1> DEFINE s0 == request[r].solution
           now == request[r].now
           lit == Lights(request[r].evidence)
<1>1. now \in Int /\ [solution |-> s0, at |-> now] # NoRow
  BY RequestFacts, RegisterAssumption DEF UpdateAttainment, Stages, Time, First
<1>2. ASSUME NEW c \in CellKey
      PROVE  attainment'[c] =
               IF c \in lit /\ (attainment[c] = NoRow \/ now < attainment[c].at)
               THEN [solution |-> s0, at |-> now] ELSE attainment[c]
  BY DEF UpdateAttainment, FirstsWith
<1>3. ASSUME NEW c \in CellKey, IsLit(c)
      PROVE  IsLit(c)' /\ attainment'[c].at <= attainment[c].at
  BY <1>1, <1>2, <1>3, FirstsAreTimes DEF IsLit
<1>4. ASSUME NEW c \in lit
      PROVE  attainment'[c].at <= now
  <2>1. c \in CellKey
    BY DEF Lights
  <2>2. IsLit(c) => attainment[c].at \in Int
    BY <2>1, FirstsAreTimes
  <2>3. QED
    BY <1>1, <1>2, <2>1, <2>2 DEF IsLit
<1>5. QED
  BY <1>3, <1>4 DEF NotPutOff

\* A request that was answered stays timely, unless a milestone is put off.
LEMMA StillTimely ==
  ASSUME AgainInv, [Next]_vars, NotPutOff, genesis_runs' = genesis_runs,
         NEW r \in Request, request'[r] = request[r]
  PROVE  Timely(request[r])'
<1> SUFFICES ASSUME request[r].stage = "answered",
                    request[r].genesis_runs = genesis_runs,
                    NEW c \in Lights(request[r].evidence)
             PROVE  attainment'[c].at <= request[r].now
  BY DEF Timely, Lights
<1>1. c \in CellKey
  BY DEF Lights
<1>2. attainment[c].at <= request[r].now
  BY DEF AgainInv, Timely
<1>3. IsLit(c)
  BY DEF AgainInv, IInv, Accounted, Written, HasMilestones
<1>4. attainment[c].at \in Int /\ attainment'[c].at <= attainment[c].at /\ IsLit(c)'
  BY <1>1, <1>3, FirstsAreTimes DEF AgainInv, IInv, NotPutOff
<1>5. request[r].now \in Int
  <2>1. request[r] \in Accepted
    BY AcceptedFacts DEF AgainInv, IInv
  <2>2. QED
    BY <2>1 DEF Accepted, Time
<1>6. attainment'[c].at \in Int
  <2>1. TypeOK'
    BY TypeInductive DEF AgainInv, IInv
  <2>2. QED
    BY <1>1, <1>4, <2>1 DEF TypeOK, Tables, TablesOfType, First, Time, IsLit
<1>7. QED
  BY <1>2, <1>4, <1>5, <1>6

(* Nothing makes an answered request untimely. *)
LEMMA AgainInductive ==
  ASSUME AgainInv, [Next]_vars
  PROVE  AgainInv'
<1>0. IInv'
  BY IInvInductive DEF AgainInv
<1>1. CASE genesis
  <2>1. genesis_runs' = genesis_runs + 1 /\ request' = request
    BY <1>1 DEF genesis
  <2>2. ASSUME NEW r \in Request, request[r].stage # "waiting"
        PROVE  request[r].genesis_runs < genesis_runs'
    BY <2>1, <2>2, AcceptedFacts DEF AgainInv, IInv, Accounted
  <2>3. ASSUME NEW r \in Request
        PROVE  Timely(request[r])'
    BY <2>1, <2>2, AcceptedFacts DEF Timely, AgainInv, IInv
  <2>4. QED
    BY <1>0, <2>3 DEF AgainInv
<1>2. ASSUME ~genesis
      PROVE  AgainInv'
  <2>0. genesis_runs' = genesis_runs
    BY <1>2, BoardGrows DEF AgainInv, IInv
  <2>1. NotPutOff
    <3>1. ASSUME NEW r \in Request, UpdateAttainment(r)
          PROVE  NotPutOff
      BY <3>1, UpdateIsTimely DEF AgainInv, IInv
    <3>2. CASE UNCHANGED attainment
      <4>1. \A c \in CellKey : IsLit(c) => attainment[c].at \in Int
        BY FirstsAreTimes DEF AgainInv, IInv
      <4>2. QED
        BY <3>2, <4>1 DEF NotPutOff, IsLit
    <3>3. QED
      BY <1>2, <3>1, <3>2
         DEF Next, Serve, Accept, UpsertSolution, AddLineage, LineageAdded, InsertAtoms,
             Fail, Tick, vars, db
  <2>2. ASSUME NEW r \in Request
        PROVE  Timely(request[r])'
    <3>1. CASE request'[r] = request[r]
      BY <2>0, <2>1, <3>1, StillTimely
    <3>2. CASE UpdateAttainment(r)
      <4>1. request[r].stage = "attainment" /\ Goto(r, "answered")
        BY <3>2 DEF UpdateAttainment
      <4>2. /\ request'[r].evidence = request[r].evidence
            /\ request'[r].now = request[r].now
        <5>1. request[r] \in Accepted
          BY <4>1, RequestFacts DEF AgainInv, IInv, Stages
        <5>2. request'[r] = [request[r] EXCEPT !.stage = "answered"]
          BY <4>1 DEF Goto, AgainInv, IInv, TypeOK
        <5>3. QED
          BY <5>1, <5>2 DEF Accepted
      <4>3. \A c \in Lights(request[r].evidence) : attainment'[c].at <= request[r].now
        BY <3>2, UpdateIsTimely DEF AgainInv, IInv
      <4>4. QED
        BY <4>2, <4>3 DEF Timely, Lights
    <3>3. CASE request'[r].stage # "answered"
      BY <3>3 DEF Timely
    <3>4. request'[r] = request[r] \/ UpdateAttainment(r) \/ request'[r].stage # "answered"
      <4>1. ASSUME NEW r_ \in Request, NEW stage \in {"lineage", "atoms", "attainment", "failed"},
                   request[r_].stage \in Stages, Goto(r_, stage)
            PROVE  request'[r] = request[r] \/ request'[r].stage # "answered"
        BY <4>1, MovedRequest DEF AgainInv, Stages
      <4>2. ASSUME NEW r_ \in Request, NEW s \in Solution, NEW ev \in EvidenceOf[s],
                   Accept(r_, s, ev)
            PROVE  request'[r] = request[r] \/ request'[r].stage # "answered"
        BY <4>2 DEF Accept, AgainInv, IInv, TypeOK
      <4>3. ASSUME NEW r_ \in Request, UpdateAttainment(r_), r_ # r
            PROVE  request'[r] = request[r]
        BY <4>3 DEF UpdateAttainment, Goto, AgainInv, IInv, TypeOK
      <4>4. ASSUME NEW r_ \in Request,
                   UpsertSolution(r_) \/ LineageAdded(r_) \/ InsertAtoms(r_) \/ Fail(r_)
            PROVE  request'[r] = request[r] \/ request'[r].stage # "answered"
        BY <4>1, <4>4 DEF UpsertSolution, LineageAdded, InsertAtoms, Fail, Stages
      <4>5. CASE request' = request
        BY <4>5
      <4>6. QED
        BY <1>2, <4>2, <4>3, <4>4, <4>5 DEF Next, Serve, AddLineage, Tick, vars
    <3>5. QED
      BY <3>1, <3>2, <3>3, <3>4
  <2>3. QED
    BY <1>0, <2>2 DEF AgainInv
<1>3. QED
  BY <1>1, <1>2

(* A request that repeats an answered one finds all it would write. *)
LEMMA RepeatsFind ==
  ASSUME AgainInv, NEW r \in Request, request[r].stage \in Stages, Repeats(r),
         genesis_runs = 0
  PROVE  LET s  == request[r].solution
             ev == request[r].evidence
         IN  /\ HasLineage(s) /\ HasAtoms(s, ev) /\ HasMilestones(s, ev)
             /\ \A c \in Lights(ev) : ~(request[r].now < attainment[c].at)
<1>1. PICK r0 \in Request \ {r} :
        /\ request[r0].stage = "answered"
        /\ request[r0].solution = request[r].solution
        /\ request[r0].evidence = request[r].evidence
        /\ request[r0].now <= request[r].now
  BY DEF Repeats
<1>2. request[r0].genesis_runs = genesis_runs /\ Written(request[r0])
  <2>1. /\ request[r0].genesis_runs <= genesis_runs
        /\ request[r0].genesis_runs = genesis_runs => Written(request[r0])
    BY <1>1 DEF AgainInv, IInv, Accounted
  <2>2. request[r0].genesis_runs \in 0..MaxGenesis
    BY <1>1, AcceptedFacts DEF AgainInv, IInv, Accepted
  <2>3. QED
    BY <2>1, <2>2, RegisterAssumption
<1>3. /\ HasLineage(request[r].solution)
      /\ HasAtoms(request[r].solution, request[r].evidence)
      /\ HasMilestones(request[r].solution, request[r].evidence)
  BY <1>1, <1>2 DEF Written
<1>4. ASSUME NEW c \in Lights(request[r].evidence)
      PROVE  ~(request[r].now < attainment[c].at)
  <2>1. attainment[c].at <= request[r0].now
    BY <1>1, <1>2 DEF AgainInv, Timely
  <2>2. request[r0].now \in Int /\ request[r].now \in Int
    <3>1. request[r0] \in Accepted /\ request[r] \in Accepted
      BY <1>1, AcceptedFacts, RequestFacts DEF AgainInv, IInv
    <3>2. QED
      BY <3>1 DEF Accepted, Time
  <2>3. c \in CellKey /\ IsLit(c)
    BY <1>3 DEF Lights, HasMilestones
  <2>4. attainment[c].at \in Int
    BY <2>3, FirstsAreTimes DEF AgainInv, IInv
  <2>5. QED
    BY <1>1, <2>1, <2>2, <2>4
<1>5. QED
  BY <1>3, <1>4

(* Registering evidence again changes no score: lineage, atoms, milestones and
   their times are what they were, whatever else is in flight
   (hub/validate.py register; hub/store.py insert_atoms; hub/views/attainment.py
   update_attainment). *)
THEOREM RepeatsAreHarmless == Spec => RepeatsChangeNoScore
<1>1. Init => AgainInv
  BY InitIInv DEF Init, AgainInv, Timely, Waiting
<1>2. AgainInv /\ [Next]_vars =>
        [OnlyRepeatsAreServed /\ genesis_runs' = 0 =>
           UNCHANGED <<lineage, atoms, attainment, holders>>]_vars
  <2> SUFFICES ASSUME AgainInv, Next, OnlyRepeatsAreServed, genesis_runs' = 0
               PROVE  UNCHANGED <<lineage, atoms, attainment, holders>>
    OBVIOUS
  <2>1. ~genesis
    <3>1. genesis_runs \in Nat
      BY RegisterAssumption DEF AgainInv, IInv, TypeOK
    <3>2. QED
      BY <3>1 DEF genesis
  <2>2. genesis_runs = 0
    BY <2>1, BoardGrows DEF AgainInv, IInv
  <2>3. ASSUME NEW r \in Request, request[r].stage \in Stages
        PROVE  LET s  == request[r].solution
                   ev == request[r].evidence
               IN  /\ HasLineage(s) /\ HasAtoms(s, ev) /\ HasMilestones(s, ev)
                   /\ \A c \in Lights(ev) : ~(request[r].now < attainment[c].at)
    BY <2>2, <2>3, RepeatsFind DEF OnlyRepeatsAreServed
  <2>4. ASSUME NEW r \in Request, NEW parent \in Solution, AddLineage(r, parent)
        PROVE  UNCHANGED <<lineage, atoms, attainment, holders>>
    <3>1. HasLineage(request[r].solution)
      BY <2>3, <2>4 DEF AddLineage, Stages
    <3>2. QED
      BY <2>4, <3>1 DEF AddLineage, HasLineage
  <2>5. ASSUME NEW r \in Request, InsertAtoms(r)
        PROVE  UNCHANGED <<lineage, atoms, attainment, holders>>
    <3>1. HasAtoms(request[r].solution, request[r].evidence)
      BY <2>3, <2>5 DEF InsertAtoms, Stages
    <3>2. \A a \in AtomKey : a = <<a[1], a[2]>>
      BY DEF AtomKey
    <3>3. atoms' = [a \in AtomKey |-> atoms[a]]
      BY <2>5, <3>1, <3>2 DEF InsertAtoms, StoredAtoms, HasAtoms
    <3>4. QED
      BY <2>5, <3>3 DEF InsertAtoms, AgainInv, IInv, TypeOK, Tables, TablesOfType
  <2>6. ASSUME NEW r \in Request, UpdateAttainment(r)
        PROVE  UNCHANGED <<lineage, atoms, attainment, holders>>
    <3>1. /\ HasMilestones(request[r].solution, request[r].evidence)
          /\ \A c \in Lights(request[r].evidence) : ~(request[r].now < attainment[c].at)
      BY <2>3, <2>6 DEF UpdateAttainment, Stages
    <3>2. \A h \in CellKey \X Solution : h = <<h[1], h[2]>>
      OBVIOUS
    <3>3. holders' = [h \in CellKey \X Solution |-> holders[h]]
      BY <2>6, <3>1, <3>2 DEF UpdateAttainment, HoldersWith, HasMilestones, Holds
    <3>4. attainment' = [c \in CellKey |-> attainment[c]]
      BY <2>6, <3>1 DEF UpdateAttainment, FirstsWith, HasMilestones, IsLit
    <3>5. QED
      BY <2>6, <3>3, <3>4
         DEF UpdateAttainment, AgainInv, IInv, TypeOK, Tables, TablesOfType
  <2>7. QED
    BY <2>1, <2>4, <2>5, <2>6
       DEF Next, Serve, Accept, UpsertSolution, LineageAdded, Fail, Tick, db
<1>3. AgainInv /\ [Next]_vars => AgainInv'
  BY AgainInductive
<1>4. QED
  BY <1>1, <1>2, <1>3, PTL DEF Spec, RepeatsChangeNoScore

-----------------------------------------------------------------------------
(* The evidence behind a lit cell.  Attainment is updated from the evidence of
   the request, which need not be what its atoms say: what is there was reported
   by some request of the solution, and is there before the cell is lit. *)

\* An accepted request keeps what it submitted, and an answer stays given.
RequestsStay ==
  \A r \in Request : request[r].stage # "waiting" =>
    /\ request'[r].stage # "waiting"
    /\ request'[r].solution = request[r].solution
    /\ request'[r].evidence = request[r].evidence
    /\ request'[r].now = request[r].now
    /\ request[r].stage = "answered" => request'[r].stage = "answered"

\* No stored level is lost: genesis moves it into the archive.
LevelsStay ==
  \A s \in Solution : \A b \in BatchCell :
    StoredLevels(<<s, b>>) \subseteq StoredLevels(<<s, b>>)'

\* Every stored level was reported by a request of its solution.
StoredIsReported ==
  \A s \in Solution : \A b \in BatchCell : StoredLevels(<<s, b>>) \subseteq ReportedLevels(s, b)

\* The episodes of a request that is to light cells have atoms, although genesis
\* may have archived them.
Backed(q) ==
  q.stage = "attainment" => \A b \in DOMAIN q.evidence : StoredLevels(<<q.solution, b>>) # {}

EarnedInv ==
  /\ IInv
  /\ StoredIsReported
  /\ \A r \in Request : Backed(request[r])
  /\ MilestonesAreEarned

LEMMA RequestsRemember ==
  ASSUME TypeOK, [Next]_vars
  PROVE  RequestsStay
<1>1. ASSUME NEW r \in Request, request[r].stage \in Stages,
             NEW stage \in Stages \cup {"answered", "failed"}, Goto(r, stage)
      PROVE  RequestsStay
  <2>1. request[r] \in Accepted
    BY <1>1, RequestFacts
  <2>2. request' = [request EXCEPT ![r] = [request[r] EXCEPT !.stage = stage]]
    BY <1>1 DEF Goto
  <2>3. /\ request'[r].stage = stage
        /\ request'[r].solution = request[r].solution
        /\ request'[r].evidence = request[r].evidence
        /\ request'[r].now = request[r].now
    BY <2>1, <2>2 DEF TypeOK, Accepted
  <2>4. \A r_ \in Request \ {r} : request'[r_] = request[r_]
    BY <2>2 DEF TypeOK
  <2>5. stage # "waiting" /\ request[r].stage # "answered"
    BY <1>1 DEF Stages
  <2>6. QED
    BY <2>3, <2>4, <2>5 DEF RequestsStay
<1>2. ASSUME NEW r \in Request, NEW s \in Solution, NEW ev \in EvidenceOf[s], Accept(r, s, ev)
      PROVE  RequestsStay
  <2>1. /\ request[r].stage = "waiting"
        /\ \A r_ \in Request \ {r} : request'[r_] = request[r_]
    BY <1>2 DEF Accept, TypeOK
  <2>2. QED
    BY <2>1 DEF RequestsStay
<1>3. CASE request' = request
  BY <1>3 DEF RequestsStay
<1>4. QED
  BY <1>1, <1>2, <1>3
     DEF Next, Serve, UpsertSolution, AddLineage, LineageAdded, InsertAtoms,
         UpdateAttainment, Fail, genesis, Tick, vars, db, Stages

LEMMA ReportedGrows ==
  ASSUME RequestsStay, NEW s, NEW b
  PROVE  ReportedLevels(s, b) \subseteq ReportedLevels(s, b)'
BY DEF RequestsStay, ReportedLevels

(* What the atoms of the next state are made of. *)
LEMMA LevelsFacts ==
  ASSUME EarnedInv, [Next]_vars
  PROVE  LevelsStay /\ StoredIsReported'
<1>0. RequestsStay
  BY RequestsRemember DEF EarnedInv, IInv
<1>1. CASE UNCHANGED <<atoms, archive>>
  <2>1. \A a : StoredLevels(a)' = StoredLevels(a)
    BY <1>1 DEF StoredLevels
  <2>2. QED
    BY <1>0, <2>1, ReportedGrows DEF LevelsStay, StoredIsReported, EarnedInv
<1>2. ASSUME NEW r \in Request, InsertAtoms(r)
      PROVE  LevelsStay /\ StoredIsReported'
  <2> DEFINE s0 == request[r].solution
             ev == request[r].evidence
  <2>1. /\ request[r].stage = "atoms" /\ atoms' = StoredAtoms(s0, ev) /\ archive' = archive
    BY <1>2 DEF InsertAtoms
  <2>2. /\ s0 \in Solution /\ DOMAIN ev \subseteq BatchCell
        /\ \A b \in DOMAIN ev : ev[b] # NoRow
    BY <2>1, RequestFacts, RegisterAssumption DEF EarnedInv, IInv, Stages
  <2>3. ASSUME NEW s \in Solution, NEW b \in DOMAIN ev, s = s0
        PROVE  ev[b] \in ReportedLevels(s, b)'
    <3>1. ev[b] \in ReportedLevels(s, b)
      BY <2>1, <2>3 DEF ReportedLevels
    <3>2. ReportedLevels(s, b) \subseteq ReportedLevels(s, b)'
      BY <1>0, ReportedGrows
    <3>3. QED
      BY <3>1, <3>2
  <2> HIDE DEF s0, ev
  <2>4. ASSUME NEW s \in Solution, NEW b \in BatchCell
        PROVE  atoms'[<<s, b>>] = IF s = s0 /\ b \in DOMAIN ev /\ atoms[<<s, b>>] = NoRow
                                  THEN ev[b] ELSE atoms[<<s, b>>]
    BY <2>1 DEF StoredAtoms, AtomKey
  <2>5. SUFFICES ASSUME NEW s \in Solution, NEW b \in BatchCell
                 PROVE  /\ StoredLevels(<<s, b>>) \subseteq StoredLevels(<<s, b>>)'
                        /\ StoredLevels(<<s, b>>)' \subseteq ReportedLevels(s, b)'
    BY DEF LevelsStay, StoredIsReported
  <2>6. StoredLevels(<<s, b>>) \subseteq ReportedLevels(s, b)'
    BY <1>0, ReportedGrows DEF EarnedInv, StoredIsReported
  <2>7. CASE s = s0 /\ b \in DOMAIN ev /\ atoms[<<s, b>>] = NoRow
    <3>1. atoms'[<<s, b>>] = ev[b]
      BY <2>4, <2>7
    <3>2. /\ StoredLevels(<<s, b>>) \subseteq StoredLevels(<<s, b>>)'
          /\ StoredLevels(<<s, b>>)' \subseteq StoredLevels(<<s, b>>) \cup {ev[b]}
      BY <2>1, <2>7, <3>1 DEF StoredLevels
    <3>3. QED
      BY <2>3, <2>6, <2>7, <3>2
  <2>8. CASE ~(s = s0 /\ b \in DOMAIN ev /\ atoms[<<s, b>>] = NoRow)
    <3>1. StoredLevels(<<s, b>>)' = StoredLevels(<<s, b>>)
      BY <2>1, <2>4, <2>8 DEF StoredLevels
    <3>2. QED
      BY <2>6, <3>1
  <2>9. QED
    BY <2>7, <2>8
<1>3. CASE genesis /\ archive = NoRow
  <2>1. archive' = Tables /\ atoms' = Empty.atoms
    BY <1>3 DEF genesis, Become
  <2>2. archive' # NoRow /\ archive'.atoms = atoms
    <3>1. Tables \in TablesOfType
      BY DEF EarnedInv, IInv, TypeOK
    <3>2. QED
      BY <2>1, <3>1, RegisterAssumption DEF Tables
  <2>3. ASSUME NEW s \in Solution, NEW b \in BatchCell
        PROVE  StoredLevels(<<s, b>>)' = StoredLevels(<<s, b>>)
    <3>1. atoms'[<<s, b>>] = NoRow
      BY <2>1 DEF Empty, AtomKey
    <3>2. QED
      BY <1>3, <2>2, <3>1 DEF StoredLevels
  <2>4. QED
    BY <1>0, <2>3, ReportedGrows DEF LevelsStay, StoredIsReported, EarnedInv
<1>4. QED
  BY <1>1, <1>2, <1>3
     DEF Next, Serve, Accept, UpsertSolution, AddLineage, LineageAdded,
         UpdateAttainment, Fail, genesis, Tick, vars, db

(* A milestone that was earned stays so while its row does. *)
LEMMA EarnedStays ==
  ASSUME RequestsStay, LevelsStay, StoredIsReported', TypeOK,
         NEW r \in Request, NEW s \in Solution, NEW c \in CellKey,
         Earns(request[r], s, c), holders'[<<c, s>>] = holders[<<c, s>>],
         DOMAIN request[r].evidence \subseteq BatchCell
  PROVE  Earns(request[r], s, c)'
<1>1. /\ request[r].stage = "answered" /\ request[r].solution = s
      /\ request[r].now = holders[<<c, s>>]
  BY DEF Earns
<1>2. PICK b \in DOMAIN request[r].evidence :
        /\ b[1] = c[1] /\ request[r].evidence[b] >= c[2]
        /\ StoredLevels(<<s, b>>) # {}
  BY DEF Earns
<1>3. StoredLevels(<<s, b>>)' # {} /\ StoredLevels(<<s, b>>)' \subseteq ReportedLevels(s, b)'
  BY <1>2 DEF LevelsStay, StoredIsReported
<1>4. /\ request'[r].stage = "answered" /\ request'[r].solution = s
      /\ request'[r].now = holders'[<<c, s>>] /\ request'[r].evidence = request[r].evidence
  BY <1>1 DEF RequestsStay
<1>5. QED
  BY <1>2, <1>3, <1>4 DEF Earns

(* The cells a request lights are earned by that request. *)
LEMMA LitIsEarned ==
  ASSUME EarnedInv, RequestsStay, LevelsStay, StoredIsReported',
         NEW r \in Request, UpdateAttainment(r)
  PROVE  MilestonesAreEarned'
<1> DEFINE q == request[r]
<1>1. /\ q.stage = "attainment" /\ holders' = HoldersWith(q.solution, Lights(q.evidence), q.now)
      /\ Goto(r, "answered")
  BY DEF UpdateAttainment
<1>2. /\ q \in Accepted /\ q.solution \in Solution /\ q.now \in Time
      /\ DOMAIN q.evidence \subseteq BatchCell
  BY <1>1, RequestFacts DEF EarnedInv, IInv, Stages
<1>3. /\ request'[r].stage = "answered" /\ request'[r].solution = q.solution
      /\ request'[r].evidence = q.evidence /\ request'[r].now = q.now
  BY <1>1, <1>2 DEF Goto, Accepted, RequestsStay, EarnedInv, IInv, TypeOK
<1>4. ASSUME NEW s \in Solution, NEW c \in CellKey
      PROVE  holders'[<<c, s>>] = IF c \in Lights(q.evidence) /\ s = q.solution
                                     /\ holders[<<c, s>>] = NoRow
                                  THEN q.now ELSE holders[<<c, s>>]
  BY <1>1 DEF HoldersWith
<1>5. SUFFICES ASSUME NEW c \in CellKey, NEW s \in Solution, holders'[<<c, s>>] # NoRow
               PROVE  \E r_ \in Request : Earns(request[r_], s, c)'
  BY DEF MilestonesAreEarned, Holds
<1>6. CASE Holds(s, c)
  <2>1. PICK r_ \in Request : Earns(request[r_], s, c)
    BY <1>6 DEF EarnedInv, MilestonesAreEarned
  <2>2. holders'[<<c, s>>] = holders[<<c, s>>]
    BY <1>4, <1>6 DEF Holds
  <2>3. DOMAIN request[r_].evidence \subseteq BatchCell
    BY <2>1, AcceptedFacts DEF Earns, EarnedInv, IInv
  <2>4. QED
    BY <2>1, <2>2, <2>3, EarnedStays DEF EarnedInv, IInv
<1>7. CASE ~Holds(s, c)
  <2>1. c \in Lights(q.evidence) /\ s = q.solution /\ holders'[<<c, s>>] = q.now
    BY <1>4, <1>5, <1>7 DEF Holds
  <2>2. PICK b \in DOMAIN q.evidence : b[1] = c[1] /\ q.evidence[b] >= c[2]
    BY <2>1 DEF Lights
  <2>3. b \in BatchCell /\ StoredLevels(<<s, b>>) # {}
    BY <1>1, <1>2, <2>1 DEF EarnedInv, Backed
  <2>4. StoredLevels(<<s, b>>)' # {} /\ StoredLevels(<<s, b>>)' \subseteq ReportedLevels(s, b)'
    BY <2>3 DEF LevelsStay, StoredIsReported
  <2>5. Earns(request[r], s, c)'
    BY <1>3, <2>1, <2>2, <2>4 DEF Earns
  <2>6. QED
    BY <2>5
<1>8. QED
  BY <1>6, <1>7

(* A request comes to the attainment with its atoms stored. *)
LEMMA BackedStays ==
  ASSUME EarnedInv, LevelsStay, [Next]_vars
  PROVE  \A r \in Request : Backed(request[r])'
<1> SUFFICES ASSUME NEW r \in Request, NEW s, NEW b, request'[r].stage = "attainment",
                    request'[r].solution = s, b \in DOMAIN request'[r].evidence
             PROVE  StoredLevels(<<s, b>>)' # {}
  BY DEF Backed, StoredLevels
<1>1. CASE request'[r] = request[r]
  <2>1. s \in Solution /\ b \in BatchCell
    BY <1>1, AcceptedFacts DEF EarnedInv, IInv
  <2>2. StoredLevels(<<s, b>>) # {}
    BY <1>1 DEF EarnedInv, Backed
  <2>3. QED
    BY <1>1, <2>1, <2>2 DEF LevelsStay
<1>2. CASE InsertAtoms(r)
  <2> DEFINE s0 == request[r].solution
             ev == request[r].evidence
  <2>1. /\ request[r].stage = "atoms" /\ atoms' = StoredAtoms(s0, ev)
        /\ Goto(r, "attainment")
    BY <1>2 DEF InsertAtoms
  <2>2. s = s0 /\ request'[r].evidence = ev
    BY <2>1, MovedRequest DEF EarnedInv, Stages
  <2>3. s \in Solution /\ b \in BatchCell /\ b \in DOMAIN ev /\ ev[b] # NoRow
    BY <2>1, <2>2, RequestFacts, RegisterAssumption DEF EarnedInv, IInv, Stages
  <2> HIDE DEF s0, ev
  <2>4. atoms'[<<s, b>>] # NoRow
    BY <2>1, <2>2, <2>3 DEF StoredAtoms, AtomKey
  <2>5. QED
    BY <2>4 DEF StoredLevels
<1>3. CASE request'[r] # request[r] /\ ~InsertAtoms(r)
  <2>1. ASSUME NEW r_ \in Request, request[r_].stage \in Stages,
               NEW stage \in {"lineage", "atoms", "answered", "failed"}, Goto(r_, stage)
        PROVE  FALSE
    BY <1>3, <2>1, MovedRequest DEF EarnedInv, Stages
  <2>2. ASSUME NEW r_ \in Request, NEW z \in Solution, NEW ev \in EvidenceOf[z],
               Accept(r_, z, ev)
        PROVE  FALSE
    BY <1>3, <2>2 DEF Accept, EarnedInv, IInv, TypeOK
  <2>3. ASSUME NEW r_ \in Request, InsertAtoms(r_)
        PROVE  FALSE
    <3>1. r_ # r /\ request[r_].stage \in Stages /\ Goto(r_, "attainment")
      BY <1>3, <2>3 DEF InsertAtoms, Stages
    <3>2. QED
      BY <1>3, <3>1, MovedRequest DEF EarnedInv, Stages
  <2>4. QED
    BY <1>3, <2>1, <2>2, <2>3
       DEF Next, Serve, UpsertSolution, AddLineage, LineageAdded, UpdateAttainment, Fail,
           genesis, Tick, vars, Stages
<1>4. QED
  BY <1>1, <1>2, <1>3

LEMMA EarnedInductive == EarnedInv /\ [Next]_vars => EarnedInv'
<1> SUFFICES ASSUME EarnedInv, [Next]_vars
             PROVE  EarnedInv'
  OBVIOUS
<1>1. IInv' /\ RequestsStay
  BY IInvInductive, RequestsRemember DEF EarnedInv, IInv
<1>2. LevelsStay /\ StoredIsReported'
  BY LevelsFacts
<1>3. \A r \in Request : Backed(request[r])'
  BY <1>2, BackedStays
<1>4. MilestonesAreEarned'
  <2>1. CASE \E r \in Request : UpdateAttainment(r)
    BY <1>1, <1>2, <2>1, LitIsEarned
  <2>2. CASE genesis /\ archive = NoRow
    <3>1. holders' = Empty.holders
      BY <2>2 DEF genesis, Become
    <3>2. QED
      BY <3>1 DEF Empty, MilestonesAreEarned, Holds
  <2>3. CASE UNCHANGED holders
    <3>1. SUFFICES ASSUME NEW c \in CellKey, NEW s \in Solution, Holds(s, c)
                   PROVE  \E r \in Request : Earns(request[r], s, c)'
      BY <2>3 DEF MilestonesAreEarned, Holds
    <3>2. PICK r \in Request : Earns(request[r], s, c)
      BY <3>1 DEF EarnedInv, MilestonesAreEarned
    <3>3. DOMAIN request[r].evidence \subseteq BatchCell
      BY <3>2, AcceptedFacts DEF Earns, EarnedInv, IInv
    <3>4. Earns(request[r], s, c)'
      BY <1>1, <1>2, <2>3, <3>2, <3>3, EarnedStays DEF EarnedInv, IInv
    <3>5. QED
      BY <3>4
  <2>4. QED
    BY <2>1, <2>2, <2>3
       DEF Next, Serve, Accept, UpsertSolution, AddLineage, LineageAdded, InsertAtoms,
           Fail, genesis, Tick, vars, db
<1>5. QED
  BY <1>1, <1>2, <1>3, <1>4 DEF EarnedInv

(* A milestone is held only by a solution one of whose answered requests, of the
   milestone's date, reached it in an episode whose atom is stored, live or
   archived, with no level but those the solution reported: whether or not its
   evaluations agree, and whatever other requests, failures and genesis did
   between the commit of the atoms and the update of the attainment
   (hub/validate.py:257-265, hub/views/attainment.py:74-100). *)
THEOREM MilestonesWereEarned == Spec => []MilestonesAreEarned
<1>1. Init => EarnedInv
  <2> SUFFICES ASSUME Init
               PROVE  EarnedInv
    OBVIOUS
  <2>1. \A s \in Solution : \A b \in BatchCell : StoredLevels(<<s, b>>) = {}
    BY DEF Init, Empty, AtomKey, StoredLevels
  <2>2. StoredIsReported
    BY <2>1 DEF StoredIsReported
  <2>3. \A r \in Request : Backed(request[r])
    BY DEF Init, Waiting, Backed
  <2>4. MilestonesAreEarned
    BY DEF Init, Empty, MilestonesAreEarned, Holds
  <2>5. QED
    BY <2>2, <2>3, <2>4, InitIInv DEF EarnedInv
<1>2. EarnedInv => MilestonesAreEarned
  BY DEF EarnedInv
<1>3. QED
  BY <1>1, <1>2, EarnedInductive, PTL DEF Spec

-----------------------------------------------------------------------------
(* RECOGNITION.  Credit is a difference of two maxima; that of a finite set of
   integers exists, and grows with the set. *)

(* A finite set of integers has a maximum: a smallest set that had none would
   lose it with any of its elements. *)
LEMMA MaxFacts ==
  ASSUME NEW S \in SUBSET Int, IsFiniteSet(S), S # {}
  PROVE  Max(S) \in S /\ \A x \in S : x <= Max(S)
<1> DEFINE Top(T) == \E x \in T : \A y \in T : x >= y
           Topless == {T \in SUBSET S : T # {} /\ ~Top(T)}
<1>1. SUFFICES Topless = {}
  <2>1. Top(S)
    BY <1>1
  <2>2. QED
    BY <2>1 DEF Max
<1>2. SUFFICES ASSUME Topless # {}
               PROVE  FALSE
  OBVIOUS
<1>3. /\ IsWellFoundedOn(StrictSubsetOrdering(S), FiniteSubsetsOf(S))
      /\ Topless \subseteq FiniteSubsetsOf(S)
  BY FS_StrictSubsetOrderingWellFounded, FS_FiniteSubsetsOfFinite
<1>4. PICK T \in Topless : \A U \in Topless : ~(<<U, T>> \in StrictSubsetOrdering(S))
  <2> HIDE DEF Topless
  <2>1. QED
    BY <1>2, <1>3, WFMin
<1>5. PICK x \in T : TRUE
  OBVIOUS
<1>6. T \ {x} \notin Topless
  BY <1>4, <1>5 DEF StrictSubsetOrdering
<1>7. CASE T \ {x} = {}
  <2>1. \A y \in T : y = x
    BY <1>7
  <2>2. QED
    BY <1>5, <2>1
<1>8. CASE T \ {x} # {}
  <2>1. PICK y \in T \ {x} : \A z \in T \ {x} : y >= z
    BY <1>6, <1>8
  <2>2. x \in Int /\ y \in Int
    OBVIOUS
  <2>3. \/ \A z \in T : y >= z
        \/ \A z \in T : x >= z
    BY <2>1, <2>2
  <2>4. QED
    BY <1>5, <2>1, <2>3
<1>9. QED
  BY <1>7, <1>8

\* What is scored is registered, on a whole batch.
ScoredWhole ==
  \A s \in Solution, i \in Identity :
    Scored(s, i) => /\ solutions[s] # NoRow
                    /\ \A seed \in Seed : atoms[<<s, <<i, seed>>>>] # NoRow

LEMMA ScoredWholeStep ==
  ASSUME TypeOK, ScoredWhole, [Next]_vars
  PROVE  ScoredWhole'
<1>1. ASSUME NEW r \in Request, UpsertSolution(r)
      PROVE  ScoredWhole'
  <2>1. request[r].solution \in Solution /\ request[r].now # NoRow
    BY <1>1, RequestFacts, RegisterAssumption DEF UpsertSolution, Stages
  <2>2. \A s \in Solution : solutions[s] # NoRow => solutions'[s] # NoRow
    BY <1>1, <2>1 DEF UpsertSolution, TypeOK, Tables, TablesOfType
  <2>3. atoms' = atoms
    BY <1>1 DEF UpsertSolution
  <2>4. QED
    BY <2>2, <2>3 DEF ScoredWhole, Scored
<1>2. ASSUME NEW r \in Request, InsertAtoms(r)
      PROVE  ScoredWhole'
  <2> DEFINE q == request[r]
  <2>1. q.solution \in Solution /\ q \in Accepted
    BY <1>2, RequestFacts DEF InsertAtoms, Stages
  <2>2. PICK ids \in SUBSET Identity : q.evidence \in [ids \X Seed -> Level]
    <3> DEFINE ev == q.evidence
    <3>1. PICK s \in Solution : ev \in EvidenceOf[s]
      BY <2>1 DEF Accepted
    <3> HIDE DEF ev
    <3>2. ev \in Evidence
      BY <3>1, RegisterAssumption
    <3>3. QED
      BY <3>2 DEF Evidence, ev
  <2>3. /\ solutions' = solutions /\ solutions[q.solution] # NoRow
        /\ atoms' = StoredAtoms(q.solution, q.evidence)
    BY <1>2 DEF InsertAtoms
  <2> HIDE DEF q
  <2>4. \A b \in ids \X Seed : q.evidence[b] # NoRow
    BY <2>2, RegisterAssumption
  <2>5. ASSUME NEW s \in Solution, NEW i \in Identity, NEW seed \in Seed
        PROVE  atoms'[<<s, <<i, seed>>>>] =
                 IF s = q.solution /\ i \in ids /\ atoms[<<s, <<i, seed>>>>] = NoRow
                 THEN q.evidence[<<i, seed>>] ELSE atoms[<<s, <<i, seed>>>>]
    BY <2>2, <2>3 DEF StoredAtoms, AtomKey, BatchCell
  <2>6. ASSUME NEW s \in Solution, NEW i \in Identity, Scored(s, i)'
        PROVE  solutions'[s] # NoRow /\ \A seed \in Seed : atoms'[<<s, <<i, seed>>>>] # NoRow
    <3>1. CASE s = q.solution /\ i \in ids
      BY <2>3, <2>4, <2>5, <3>1
    <3>2. CASE ~(s = q.solution /\ i \in ids)
      <4>1. Scored(s, i)
        BY <2>5, <2>6, <3>2 DEF Scored
      <4>2. QED
        BY <2>3, <2>5, <3>2, <4>1 DEF ScoredWhole
    <3>3. QED
      BY <3>1, <3>2
  <2>7. QED
    BY <2>6 DEF ScoredWhole
<1>3. CASE UNCHANGED <<solutions, atoms>>
  BY <1>3 DEF ScoredWhole, Scored
<1>4. CASE Become(Empty)
  <2>1. \A s \in Solution, i \in Identity : ~Scored(s, i)'
    BY <1>4 DEF Become, Empty, Scored, AtomKey, BatchCell
  <2>2. QED
    BY <2>1 DEF ScoredWhole
<1>5. QED
  BY <1>1, <1>2, <1>3, <1>4
     DEF Next, Serve, Accept, AddLineage, LineageAdded, UpdateAttainment, Fail, genesis,
         Tick, vars, db

(* What is scored has an integer score, and finitely many come before it. *)
LEMMA ReplayedFacts ==
  ASSUME TypeOK, ScoredWhole, NEW i \in Identity, Floor[i] # NoRow
  PROVE  /\ \A s \in Solution : Scored(s, i) => Score(s, i) \in Int /\ solutions[s] \in Int
         /\ \A s \in Solution : /\ Replayed(s, i) \subseteq Int /\ Replayed(s, i) # {}
                                /\ IsFiniteSet(Replayed(s, i))
<1>1. ASSUME NEW s \in Solution, Scored(s, i)
      PROVE  Score(s, i) \in Int /\ solutions[s] \in Int
  <2>1. \A seed \in Seed : atoms[<<s, <<i, seed>>>>] \in Level
    BY <1>1 DEF ScoredWhole, TypeOK, Tables, TablesOfType, AtomKey, BatchCell
  <2>2. [seed \in Seed |-> atoms[<<s, <<i, seed>>>>]] \in [Seed -> Level]
    BY <2>1
  <2>3. solutions[s] \in Time
    BY <1>1 DEF ScoredWhole, TypeOK, Tables, TablesOfType
  <2>4. MeanOf([seed \in Seed |-> atoms[<<s, <<i, seed>>>>]]) \in Int
    BY ONLY <2>2, RecognitionAssumption
  <2>5. QED
    BY <2>3, <2>4 DEF Score, Time
<1>2. ASSUME NEW s \in Solution
      PROVE  /\ Replayed(s, i) \subseteq Int /\ Replayed(s, i) # {}
             /\ IsFiniteSet(Replayed(s, i))
  <2> DEFINE before == {u \in Solution : Scored(u, i) /\ ReplayedFirst(i, u, s)}
             scores == {Score(t, i) : t \in before}
  <2>1. scores \subseteq Int /\ Floor[i] \in Int
    BY <1>1, RecognitionAssumption
  <2>2. IsFiniteSet(before)
    BY FS_Subset, RecognitionAssumption
  <2>3. IsFiniteSet(scores)
    <3> DEFINE score == [t \in before |-> Score(t, i)]
    <3>1. score \in Surjection(before, scores)
      BY DEF Surjection
    <3> HIDE DEF before, scores, score
    <3>2. QED
      BY <2>2, <3>1, FS_Surjection
  <2>4. Replayed(s, i) = scores \cup {Floor[i]}
    BY DEF Replayed
  <2> HIDE DEF scores
  <2>5. QED
    BY <2>1, <2>3, <2>4, FS_AddElement
<1>3. QED
  BY <1>1, <1>2

LEMMA LargerMax ==
  ASSUME NEW S \in SUBSET Int, NEW T \in SUBSET S, IsFiniteSet(S), T # {}
  PROVE  Max(S) \in Int /\ Max(T) \in Int /\ Max(T) <= Max(S)
<1>1. IsFiniteSet(T) /\ S # {} /\ T \in SUBSET Int
  BY FS_Subset
<1>2. Max(S) \in S /\ \A x \in S : x <= Max(S)
  BY <1>1, MaxFacts
<1>3. Max(T) \in T
  BY <1>1, MaxFacts
<1>4. QED
  BY <1>2, <1>3

LEMMA MaxOfGain ==
  ASSUME NEW x \in Int, NEW y \in Int, x <= y
  PROVE  Max({0, x}) \in Int /\ Max({0, y}) \in Int /\ Max({0, x}) <= Max({0, y})
<1>1. ASSUME NEW z \in Int
      PROVE  /\ Max({0, z}) \in {0, z}
             /\ 0 <= Max({0, z}) /\ z <= Max({0, z})
  <2>1. IsFiniteSet({0} \cup {z})
    BY FS_AddElement, FS_Singleton
  <2>2. {0} \cup {z} = {0, z} /\ {0, z} \in SUBSET Int /\ {0, z} # {}
    OBVIOUS
  <2>3. IsFiniteSet({0, z})
    BY <2>1, <2>2
  <2>4. Max({0, z}) \in {0, z} /\ \A v \in {0, z} : v <= Max({0, z})
    BY ONLY <2>2, <2>3, MaxFacts
  <2>5. QED
    BY <2>4
<1>2. QED
  BY <1>1

(* Where no date up to a program's own is written anew and no program of such a
   date gets its scores, less comes before the program than did. *)
LEMMA CreditKept ==
  ASSUME TypeOK, TypeOK', ScoredWhole, ScoredWhole', Keeps(atoms, atoms'),
         NEW i \in Identity, Floor[i] # NoRow,
         NEW s \in Solution, Scored(s, i), ~Redated(s), ~Overtaken(s, i)
  PROVE  ~(Gains(i)'[s] < Gains(i)[s])
<1>1. ASSUME NEW u \in Solution, Scored(u, i)
      PROVE  Scored(u, i)' /\ Score(u, i)' = Score(u, i)
  <2>1. \A seed \in Seed : atoms[<<u, <<i, seed>>>>] # NoRow
    BY <1>1 DEF ScoredWhole
  <2>2. \A seed \in Seed : <<u, <<i, seed>>>> \in DOMAIN atoms
    BY DEF TypeOK, Tables, TablesOfType, AtomKey, BatchCell
  <2>3. \A seed \in Seed : atoms'[<<u, <<i, seed>>>>] = atoms[<<u, <<i, seed>>>>]
    BY <2>1, <2>2 DEF Keeps
  <2>4. [seed \in Seed |-> atoms[<<u, <<i, seed>>>>]]' = [seed \in Seed |-> atoms[<<u, <<i, seed>>>>]]
    BY <2>3
  <2>5. QED
    BY <1>1, <2>1, <2>3, <2>4 DEF Scored, Score
<1>2. ASSUME NEW u \in Solution, Scored(u, i)'
      PROVE  solutions'[u] \in Int
  <2>1. solutions'[u] \in Time
    BY <1>2 DEF ScoredWhole, TypeOK, Tables, TablesOfType
  <2>2. QED
    BY <2>1 DEF Time
<1>3. solutions'[s] = solutions[s] /\ Scored(s, i)' /\ solutions'[s] \in Int
  BY <1>1, <1>2 DEF Redated
<1>4. ASSUME NEW u \in Solution, Scored(u, i)', ReplayedFirst(i, u, s)'
      PROVE  Scored(u, i) /\ ReplayedFirst(i, u, s)
  <2>1. DigestRank[s] \in Nat /\ solutions'[u] \in Int
    BY <1>2, <1>4, RecognitionAssumption
  <2>2. u # s /\ solutions'[u] <= solutions'[s]
    BY <1>3, <1>4, <2>1 DEF ReplayedFirst
  <2>3. solutions'[u] = solutions[u]
    BY <2>2 DEF Redated
  <2>4. Scored(u, i)
    BY <1>4, <2>2 DEF Overtaken
  <2>5. QED
    BY <1>3, <1>4, <2>3, <2>4 DEF ReplayedFirst
<1>5. /\ Replayed(s, i)' \subseteq Replayed(s, i) /\ Replayed(s, i)' # {}
      /\ Replayed(s, i) \subseteq Int /\ IsFiniteSet(Replayed(s, i))
      /\ Score(s, i) \in Int
  <2>1. Replayed(s, i)' \subseteq Replayed(s, i) /\ Replayed(s, i)' # {}
    BY <1>1, <1>4 DEF Replayed
  <2>2. QED
    BY <2>1, ReplayedFacts
<1>6. /\ Max(Replayed(s, i)) \in Int /\ Max(Replayed(s, i)') \in Int
      /\ Max(Replayed(s, i)') <= Max(Replayed(s, i))
  <2> DEFINE S == Replayed(s, i)
             T == Replayed(s, i)'
  <2>1. S \in SUBSET Int /\ T \in SUBSET S /\ IsFiniteSet(S) /\ T # {}
    BY <1>5
  <2> HIDE DEF S, T
  <2>2. Max(S) \in Int /\ Max(T) \in Int /\ Max(T) <= Max(S)
    BY <2>1, LargerMax
  <2>3. QED
    BY <2>2 DEF S, T
<1>7. /\ Gains(i)[s] = Max({0, Score(s, i) - Max(Replayed(s, i))})
      /\ Gains(i)'[s] = Max({0, Score(s, i) - Max(Replayed(s, i)')})
  <2>1. Gains(i)[s] = Max({0, Score(s, i) - Max(Replayed(s, i))})
    BY DEF Gains
  <2>2. Gains(i)'[s] = Max({0, Score(s, i)' - Max(Replayed(s, i)')})
    BY <1>3 DEF Gains
  <2>3. QED
    BY <1>1, <2>1, <2>2
<1> DEFINE before == Score(s, i) - Max(Replayed(s, i))
           after  == Score(s, i) - Max(Replayed(s, i)')
<1>8. before \in Int /\ after \in Int /\ before <= after
  BY <1>5, <1>6
<1> HIDE DEF before, after
<1>9. Max({0, before}) \in Int /\ Max({0, after}) \in Int /\ Max({0, before}) <= Max({0, after})
  BY <1>8, MaxOfGain
<1>10. ~(Max({0, after}) < Max({0, before}))
  BY <1>9
<1>11. QED
  BY <1>7, <1>10 DEF before, after

(* A step that archives nothing keeps every stored atom. *)
LEMMA StoredAtomsStay ==
  ASSUME TypeOK, [Next]_vars, archive' = archive
  PROVE  Keeps(atoms, atoms')
<1>1. ASSUME NEW r \in Request, InsertAtoms(r)
      PROVE  Keeps(atoms, atoms')
  BY <1>1 DEF InsertAtoms, StoredAtoms, Keeps, TypeOK, Tables, TablesOfType
<1>2. CASE atoms' = atoms
  BY <1>2 DEF Keeps
<1>3. CASE genesis
  <2>1. archive # NoRow
    BY <1>3, RegisterAssumption DEF genesis, TypeOK
  <2>2. QED
    BY <1>2, <1>3, <2>1 DEF genesis, db
<1>4. QED
  BY <1>1, <1>2, <1>3
     DEF Next, Serve, Accept, UpsertSolution, AddLineage, LineageAdded, UpdateAttainment,
         Fail, Tick, vars, db

(* Being surpassed costs no credit: what a program is credited with falls only
   where a program registered no later gets its scores after it, or a date up to
   its own is written anew (hub/views/recognition.py:12-13, 111-134). *)
THEOREM SurpassedKeepTheirCredit == Spec => SurpassingCostsNothing
<1>1. Init => ScoredWhole
  BY DEF Init, Empty, ScoredWhole, Scored, AtomKey, BatchCell
<1>2. TypeOK /\ ScoredWhole /\ [Next]_vars => ScoredWhole'
  BY ScoredWholeStep
<1>3. ASSUME TypeOK, TypeOK', ScoredWhole, ScoredWhole', [Next]_vars
      PROVE  CreditFallsOnlyIf(LAMBDA s, i : Redated(s) \/ Overtaken(s, i))
  <2> SUFFICES ASSUME archive' = archive, NEW i \in Identity, NEW s \in DOMAIN Gains(i),
                      Gains(i)'[s] < Gains(i)[s]
               PROVE  Redated(s) \/ Overtaken(s, i)
    BY DEF CreditFallsOnlyIf
  <2>1. Floor[i] # NoRow /\ s \in Solution /\ Scored(s, i)
    BY DEF Gains
  <2>2. QED
    BY <1>3, <2>1, StoredAtomsStay, CreditKept
<1>4. QED
  BY <1>1, <1>2, <1>3, TypeCorrect, PTL DEF Spec, SurpassingCostsNothing

-----------------------------------------------------------------------------
(* THE MIGRATION *)

(* MigrationInv adds to the properties who owns a table that was renamed away,
   and where each legacy row is meanwhile. *)
Moving == {"recreate", "copy"}

\* The worker between its RENAME and its DROP of t.
Owns(w, t) == pc[w] \in Moving /\ table[w] = t

\* Where each step of init_schema leaves the worker that took it.
StepsDone(w) ==
  /\ pc[w] \in {"rename", "recreate", "copy"} => table[w] \in AtomTables
  /\ pc[w] \in Moving => table[w] \in leftover
  /\ pc[w] = "copy" => table[w] \in present
  /\ pc[w] \notin {"schema", "down"} => program_id # "none"
  /\ pc[w] = "backfill" => program_id \in {"null", "stamped"}
  /\ pc[w] \in {"major", "serving"} => program_id = "stamped"
  /\ pc[w] = "serving" => VerifiedTables \cap legacy = {}

OneOwner ==
  /\ \A w, v \in Worker, t \in AtomTables : Owns(w, t) /\ Owns(v, t) => w = v
  /\ crashes = 0 => \A t \in leftover : \E w \in Worker : Owns(w, t)

\* A table is missing, or has a leftover, only from its RENAME on.
Leftovers ==
  /\ found # NoTable => program_id # "none"
  /\ program_id # "none" => MigratedTables \ present \subseteq leftover
  /\ \A t \in MigratedTables : t \notin leftover => stranded[t] = {}
  /\ \A t \in legacy : found # NoTable /\ rows[t] = found[t] /\ t \notin leftover
  /\ \A t \in leftover : \A q \in rows[t] : q.id = Live

\* Rows come from the legacy table or from a live worker.
KnownRows ==
  found # NoTable => \A t \in AtomTables : \A q \in rows[t] \cup stranded[t] :
    q.id # Live => q \in found[t]

\* A legacy row is in the table or in its leftover, or a live row took its key.
AtomsKept ==
  found # NoTable => \A t \in AtomTables : \A r \in HasToCarry(t) :
    \/ r \in rows[t] \cup stranded[t]
    \/ \E q \in rows[t] \cup stranded[t] : q.id = Live /\ SameKey(t, r, q)

UnclassifiedStay ==
  \A t \in ScoredTables : FoundUnclassified(t) => t \in legacy

MigrationInv ==
  /\ MigrationTypeOK
  /\ \A w \in Worker : StepsDone(w)
  /\ OneOwner
  /\ Leftovers
  /\ KnownRows
  /\ AtomsKept
  /\ UnclassifiedStay
  /\ VerifiedRowsAreNeverLost

\* A re-keyed verified table loses no row.
RekeyedRowsStay ==
  [][\A t \in VerifiedTables \ legacy : rows[t] \subseteq rows'[t]]_migrationVars

-----------------------------------------------------------------------------
(* Inserting rows *)

(* An insert drops no row, and invents none. *)
LEMMA InsertFacts ==
  ASSUME NEW t, NEW into, NEW new
  PROVE  /\ into \subseteq InsertOrIgnore(t, into, new)
         /\ InsertOrIgnore(t, into, new) \subseteq into \cup new
BY DEF InsertOrIgnore, Earliest

(* A row that is not inserted finds its key taken, or comes after a row of its
   key in what is inserted. *)
LEMMA IgnoredFacts ==
  ASSUME NEW t, NEW into, NEW new, NEW r \in new,
         r \notin InsertOrIgnore(t, into, new)
  PROVE  \/ \E q \in into : SameKey(t, r, q)
         \/ \E q \in new : SameKey(t, r, q) /\ ~(r.id <= q.id)
BY DEF InsertOrIgnore, Earliest

LEMMA SameKeyFacts ==
  ASSUME NEW t, NEW r, NEW q, NEW p, SameKey(t, r, q)
  PROVE  SameKey(t, q, r) /\ (SameKey(t, q, p) => SameKey(t, r, p))
BY DEF SameKey

(* The database found has a row of an id once in a table, none written live. *)
LEMMA FoundFacts ==
  ASSUME MigrationTypeOK, found # NoTable
  PROVE  /\ found \in [MigratedTables -> SUBSET Row]
         /\ \A t \in MigratedTables : \A r \in found[t] : r \in Row /\ r.id # Live
<1>1. found \in [MigratedTables -> SUBSET Row]
  BY MigrationAssumption DEF MigrationTypeOK
<1>2. \A t \in MigratedTables : \A r, q \in found[t] : r.id # Live
  BY MigrationAssumption DEF MigrationTypeOK
<1>3. QED
  BY <1>1, <1>2

-----------------------------------------------------------------------------
(* Types *)

LEMMA InitMigrationTyped == InitMigration => MigrationTypeOK
<1> SUFFICES ASSUME InitMigration
             PROVE  MigrationTypeOK
  OBVIOUS
<1>1. rows \in [MigratedTables -> SUBSET Row]
  BY MigrationAssumption DEF InitMigration
<1>2. QED
  BY <1>1, MigrationAssumption DEF InitMigration, MigrationTypeOK, Labels

(* Rows inserted into a table keep its type. *)
LEMMA RowsTyped ==
  ASSUME MigrationTypeOK, NEW t \in MigratedTables, NEW new \in SUBSET Row,
         NEW into \in SUBSET Row,
         rows' = [rows EXCEPT ![t] = InsertOrIgnore(t, into, new)]
  PROVE  rows' \in [MigratedTables -> SUBSET Row]
<1>1. InsertOrIgnore(t, into, new) \subseteq Row
  BY InsertFacts
<1>2. QED
  BY <1>1 DEF MigrationTypeOK

LEMMA MigrationTypeStep ==
  ASSUME MigrationTypeOK, \A w \in Worker : StepsDone(w), [NextMigration]_migrationVars
  PROVE  MigrationTypeOK'
<1> USE DEF MigrationTypeOK
<1>1. ASSUME NEW w \in Worker, Step(w), UNCHANGED found
      PROVE  MigrationTypeOK'
  <2> USE DEF Jump, Labels, MigratedTables, tables
  <2>1. CASE Schema(w)
    BY <1>1, <2>1 DEF Schema, CreateMissing
  <2>2. ASSUME NEW t \in AtomTables, ReadShape(w, t)
        PROVE  MigrationTypeOK'
    BY <1>1, <2>2 DEF ReadShape
  <2>3. CASE NothingToDrop(w)
    BY <1>1, <2>3 DEF NothingToDrop
  <2>4. CASE Rename(w)
    <3>1. table[w] \in AtomTables
      BY <2>4 DEF Rename, StepsDone
    <3>2. QED
      BY <1>1, <2>4, <3>1 DEF Rename
  <2>5. CASE Recreate(w)
    BY <1>1, <2>5 DEF Recreate, CreateMissing
  <2>6. CASE CopyAndDrop(w)
    <3>1. table[w] \in AtomTables
      BY <2>6 DEF CopyAndDrop, StepsDone
    <3>2. rows' \in [MigratedTables -> SUBSET Row]
      <4>1. stranded[table[w]] \in SUBSET Row /\ rows[table[w]] \in SUBSET Row
        BY <3>1
      <4>2. QED
        BY <2>6, <3>1, <4>1, RowsTyped DEF CopyAndDrop
    <3>3. QED
      BY <1>1, <2>6, <3>1, <3>2 DEF CopyAndDrop
  <2>7. CASE ReadColumns(w)
    BY <1>1, <2>7 DEF ReadColumns
  <2>8. CASE AddColumn(w)
    BY <1>1, <2>8 DEF AddColumn
  <2>9. CASE Backfill(w)
    BY <1>1, <2>9 DEF Backfill
  <2>10. ASSUME NEW t \in VerifiedTables, Rekey(w, t)
         PROVE  MigrationTypeOK'
    <3>1. {row \in rows[t] : MajorOf[row.image] # NoMajor} \in SUBSET Row
      OBVIOUS
    <3>2. rows' \in [MigratedTables -> SUBSET Row]
      BY <2>10, <3>1, RowsTyped DEF Rekey, Rekeyed
    <3>3. QED
      BY <1>1, <2>10, <3>2 DEF Rekey
  <2>11. ASSUME NEW t \in ScoredTables, RekeyRaises(w, t)
         PROVE  MigrationTypeOK'
    BY <1>1, <2>11 DEF RekeyRaises
  <2>12. CASE StartServing(w)
    BY <1>1, <2>12 DEF StartServing
  <2>13. CASE Restart(w)
    BY <1>1, <2>13 DEF Restart
  <2>14. CASE Crash(w)
    BY <1>1, <2>14, MigrationAssumption DEF Crash
  <2>15. ASSUME NEW t \in UniqueTables \cup VerifiedTables, NEW c \in Cells, Write(w, t, c)
         PROVE  MigrationTypeOK'
    <3>1. PICK i \in DOMAIN MajorOf : rows' = [rows EXCEPT ![t] =
            InsertOrIgnore(t, rows[t], {[cell |-> c, id |-> Live, image |-> i]})]
      BY <2>15, MigrationAssumption DEF Write
    <3>2. {[cell |-> c, id |-> Live, image |-> i]} \in SUBSET Row
      BY DEF Row, Live
    <3>3. t \in MigratedTables
      BY MigrationAssumption
    <3>4. rows' \in [MigratedTables -> SUBSET Row]
      BY <3>1, <3>2, <3>3, RowsTyped
    <3>5. QED
      BY <1>1, <2>15, <3>4 DEF Write
  <2>16. QED
    BY <1>1, <2>1, <2>2, <2>3, <2>4, <2>5, <2>6, <2>7, <2>8, <2>9, <2>10, <2>11, <2>12,
       <2>13, <2>14, <2>15 DEF Step, Boot
<1>2. CASE UNCHANGED migrationVars
  BY <1>2 DEF migrationVars, tables
<1>3. QED
  BY <1>1, <1>2 DEF NextMigration

-----------------------------------------------------------------------------
(* Where the workers are *)

(* A step of a worker leaves it, and the others, where its step is done. *)
LEMMA StepsDoneStep ==
  ASSUME MigrationTypeOK, \A w \in Worker : StepsDone(w), OneOwner,
         [NextMigration]_migrationVars
  PROVE  \A w \in Worker : StepsDone(w)'
<1>1. ASSUME NEW w \in Worker, Step(w), UNCHANGED found, NEW v \in Worker
      PROVE  StepsDone(v)'
  <2> USE <1>1 DEF StepsDone, Jump, tables, MigrationTypeOK, Moving
  <2>1. CASE Schema(w)
    BY <2>1 DEF Schema, CreateMissing, MigratedTables
  <2>2. ASSUME NEW t \in AtomTables, ReadShape(w, t)
        PROVE  StepsDone(v)'
    BY <2>2 DEF ReadShape
  <2>3. CASE NothingToDrop(w)
    BY <2>3 DEF NothingToDrop
  <2>4. CASE Rename(w)
    <3>1. v # w => ~(pc[v] \in Moving /\ table[v] = table[w]) \/ table[w] \in leftover
      OBVIOUS
    <3>2. QED
      BY <2>4, <3>1 DEF Rename
  <2>5. CASE Recreate(w)
    BY <2>5 DEF Recreate, CreateMissing, MigratedTables
  <2>6. CASE CopyAndDrop(w)
    <3>1. v # w /\ pc[v] \in Moving => table[v] # table[w]
      BY <2>6 DEF CopyAndDrop, OneOwner, Owns
    <3>2. QED
      BY <2>6, <3>1 DEF CopyAndDrop
  <2>7. CASE ReadColumns(w)
    BY <2>7 DEF ReadColumns
  <2>8. CASE AddColumn(w)
    BY <2>8 DEF AddColumn
  <2>9. CASE Backfill(w)
    BY <2>9 DEF Backfill
  <2>10. ASSUME NEW t \in VerifiedTables, Rekey(w, t)
         PROVE  StepsDone(v)'
    BY <2>10 DEF Rekey
  <2>11. ASSUME NEW t \in ScoredTables, RekeyRaises(w, t)
         PROVE  StepsDone(v)'
    BY <2>11 DEF RekeyRaises
  <2>12. CASE StartServing(w)
    BY <2>12 DEF StartServing
  <2>13. CASE Restart(w)
    BY <2>13 DEF Restart
  <2>14. CASE Crash(w)
    BY <2>14 DEF Crash
  <2>15. ASSUME NEW t \in UniqueTables \cup VerifiedTables, NEW c \in Cells, Write(w, t, c)
         PROVE  StepsDone(v)'
    BY <2>15 DEF Write
  <2>16. QED
    BY <2>1, <2>2, <2>3, <2>4, <2>5, <2>6, <2>7, <2>8, <2>9, <2>10, <2>11, <2>12, <2>13,
       <2>14, <2>15 DEF Step, Boot
<1>2. CASE UNCHANGED migrationVars
  BY <1>2 DEF migrationVars, tables, StepsDone
<1>3. QED
  BY <1>1, <1>2 DEF NextMigration

(* A table renamed away has one worker that will copy its rows back, and no other
   unless a worker was killed. *)
LEMMA OneOwnerStep ==
  ASSUME MigrationTypeOK, \A w \in Worker : StepsDone(w), OneOwner,
         [NextMigration]_migrationVars
  PROVE  OneOwner'
<1>1. ASSUME NEW w \in Worker, Step(w)
      PROVE  OneOwner'
  <2> USE <1>1 DEF OneOwner, Owns, Jump, tables, MigrationTypeOK, Moving
  <2>1. CASE Schema(w)
    BY <2>1 DEF Schema, CreateMissing
  <2>2. ASSUME NEW t \in AtomTables, ReadShape(w, t)
        PROVE  OneOwner'
    BY <2>2 DEF ReadShape
  <2>3. CASE NothingToDrop(w)
    BY <2>3 DEF NothingToDrop
  <2>4. CASE Rename(w)
    <3>1. \A v \in Worker : pc[v] \in Moving => table[v] \in leftover
      BY DEF StepsDone
    <3>2. CASE table[w] \notin present \ leftover
      BY <2>4, <3>2 DEF Rename
    <3>3. CASE table[w] \in present \ leftover
      <4>1. /\ leftover' = leftover \cup {table[w]}
            /\ pc' = [pc EXCEPT ![w] = "recreate"]
            /\ table' = table /\ crashes' = crashes
        BY <2>4, <3>3 DEF Rename
      <4>2. \A v \in Worker : ~Owns(v, table[w])
        BY <3>1, <3>3
      <4>3. QED
        BY <4>1, <4>2, <2>4 DEF Rename
    <3>4. QED
      BY <3>2, <3>3
  <2>5. CASE Recreate(w)
    BY <2>5 DEF Recreate, CreateMissing
  <2>6. CASE CopyAndDrop(w)
    <3>1. \A t \in leftover' : \A v \in Worker : Owns(v, t) => v # w
      BY <2>6 DEF CopyAndDrop
    <3>2. QED
      BY <2>6, <3>1 DEF CopyAndDrop
  <2>7. CASE ReadColumns(w)
    BY <2>7 DEF ReadColumns
  <2>8. CASE AddColumn(w)
    BY <2>8 DEF AddColumn
  <2>9. CASE Backfill(w)
    BY <2>9 DEF Backfill
  <2>10. ASSUME NEW t \in VerifiedTables, Rekey(w, t)
         PROVE  OneOwner'
    BY <2>10 DEF Rekey
  <2>11. ASSUME NEW t \in ScoredTables, RekeyRaises(w, t)
         PROVE  OneOwner'
    BY <2>11 DEF RekeyRaises
  <2>12. CASE StartServing(w)
    BY <2>12 DEF StartServing
  <2>13. CASE Restart(w)
    BY <2>13 DEF Restart
  <2>14. CASE Crash(w)
    <3>1. crashes' # 0
      BY <2>14, MigrationAssumption DEF Crash
    <3>2. QED
      BY <2>14, <3>1 DEF Crash
  <2>15. ASSUME NEW t \in UniqueTables \cup VerifiedTables, NEW c \in Cells, Write(w, t, c)
         PROVE  OneOwner'
    BY <2>15 DEF Write
  <2>16. QED
    BY <2>1, <2>2, <2>3, <2>4, <2>5, <2>6, <2>7, <2>8, <2>9, <2>10, <2>11, <2>12, <2>13,
       <2>14, <2>15 DEF Step, Boot
<1>2. CASE UNCHANGED migrationVars
  BY <1>2 DEF migrationVars, tables, OneOwner, Owns
<1>3. QED
  BY <1>1, <1>2 DEF NextMigration

-----------------------------------------------------------------------------
(* What the rows of the tables are *)

\* What a step does to the tables.
TablesStep(w) ==
  \/ UNCHANGED <<tables, program_id>>
  \/ tables' = tables /\ program_id # "none" /\ program_id' # "none"
  \/ CreateMissing
  \/ Rename(w) /\ table[w] \in (AtomTables \cap present) \ leftover
  \/ CopyAndDrop(w) /\ table[w] \in AtomTables \cap leftover \cap present
  \/ \E t \in VerifiedTables : Rekey(w, t)
  \/ \E t \in UniqueTables \cup VerifiedTables, c \in Cells : Write(w, t, c)

(* Every step is one of these. *)
LEMMA TablesStepFacts ==
  ASSUME NEW w \in Worker, StepsDone(w), Step(w)
  PROVE  TablesStep(w)
<1> USE DEF TablesStep, tables
<1>1. CASE Schema(w)
  BY <1>1 DEF Schema
<1>2. ASSUME NEW t \in AtomTables, ReadShape(w, t)
      PROVE  TablesStep(w)
  BY <1>2 DEF ReadShape
<1>3. CASE NothingToDrop(w)
  BY <1>3 DEF NothingToDrop
<1>4. CASE Rename(w)
  BY <1>4 DEF Rename, StepsDone
<1>5. CASE Recreate(w)
  BY <1>5 DEF Recreate
<1>6. CASE CopyAndDrop(w)
  BY <1>6 DEF CopyAndDrop, StepsDone, Moving
<1>7. CASE ReadColumns(w)
  BY <1>7 DEF ReadColumns
<1>8. CASE AddColumn(w)
  BY <1>8 DEF AddColumn, StepsDone
<1>9. CASE Backfill(w)
  BY <1>9 DEF Backfill, StepsDone
<1>10. ASSUME NEW t \in ScoredTables, RekeyRaises(w, t)
       PROVE  TablesStep(w)
  BY <1>10 DEF RekeyRaises
<1>11. CASE StartServing(w)
  BY <1>11 DEF StartServing
<1>12. CASE Restart(w)
  BY <1>12 DEF Restart
<1>13. CASE Crash(w)
  BY <1>13 DEF Crash
<1>14. QED
  BY <1>1, <1>2, <1>3, <1>4, <1>5, <1>6, <1>7, <1>8, <1>9, <1>10, <1>11, <1>12, <1>13
     DEF Step, Boot

(* What a serving worker writes. *)
LEMMA WriteFacts ==
  ASSUME MigrationTypeOK, NEW w \in Worker, NEW t \in UniqueTables \cup VerifiedTables,
         NEW c \in Cells, Write(w, t, c)
  PROVE  /\ t \in MigratedTables
         /\ t \notin legacy
         /\ rows' = [rows EXCEPT ![t] = rows'[t]]
         /\ rows[t] \subseteq rows'[t]
         /\ \A q \in rows'[t] : q \in rows[t] \/ q.id = Live
         /\ UNCHANGED <<present, legacy, leftover, stranded, program_id>>
<1>1. PICK i \in DOMAIN MajorOf : rows' = [rows EXCEPT ![t] =
        InsertOrIgnore(t, rows[t], {[cell |-> c, id |-> Live, image |-> i]})]
  BY MigrationAssumption DEF Write
<1>2. t \in MigratedTables
  BY MigrationAssumption DEF MigratedTables
<1>3. rows'[t] = InsertOrIgnore(t, rows[t], {[cell |-> c, id |-> Live, image |-> i]})
  BY <1>1, <1>2 DEF MigrationTypeOK
<1>4. /\ rows[t] \subseteq rows'[t]
      /\ rows'[t] \subseteq rows[t] \cup {[cell |-> c, id |-> Live, image |-> i]}
  BY <1>3, InsertFacts
<1>5. \A q \in rows'[t] : q \in rows[t] \/ q.id = Live
  BY <1>4
<1>6. rows' = [rows EXCEPT ![t] = rows'[t]]
  BY <1>1, <1>3
<1>7. QED
  BY <1>2, <1>4, <1>5, <1>6 DEF Write

(* Re-keying carries a verified table over whole, and only one that has its rows
   classified. *)
LEMMA RekeyFacts ==
  ASSUME MigrationTypeOK, Leftovers, NEW w \in Worker, NEW t \in VerifiedTables, Rekey(w, t)
  PROVE  /\ found # NoTable /\ rows[t] = found[t] /\ t \in present
         /\ rows' = [rows EXCEPT ![t] = rows'[t]]
         /\ HasToCarry(t) \subseteq rows'[t]
         /\ t \in ScoredTables => ~FoundUnclassified(t)
         /\ t \notin leftover
         /\ legacy' = legacy \ {t}
         /\ UNCHANGED <<present, leftover, stranded, program_id>>
<1>1. found # NoTable /\ rows[t] = found[t] /\ t \notin leftover /\ t \in present
  BY DEF Rekey, Leftovers, MigrationTypeOK
<1>2. rows'[t] = Rekeyed(t)
  BY DEF Rekey, MigrationTypeOK, MigratedTables
<1>3. t \in ScoredTables => ~FoundUnclassified(t)
  BY <1>1, MigrationAssumption DEF Rekey, FoundUnclassified, Unclassified
<1>4. {row \in found[t] : t \in AuditTables => MajorOf[row.image] # NoMajor}
        = {row \in rows[t] : MajorOf[row.image] # NoMajor}
  BY <1>1, <1>3 DEF VerifiedTables, FoundUnclassified
<1>5. HasToCarry(t) \subseteq Rekeyed(t)
  BY <1>4 DEF HasToCarry, Rekeyed, InsertOrIgnore
<1>6. QED
  BY <1>1, <1>2, <1>3, <1>5 DEF Rekey

LEMMA LeftoversStep ==
  ASSUME MigrationTypeOK, Leftovers, NEW w \in Worker, TablesStep(w), UNCHANGED found
  PROVE  Leftovers'
<1> USE DEF Leftovers, MigrationTypeOK, tables
<1>1. CASE UNCHANGED <<tables, program_id>>
  BY <1>1
<1>2. CASE tables' = tables /\ program_id # "none" /\ program_id' # "none"
  BY <1>2
<1>3. CASE CreateMissing
  BY <1>3 DEF CreateMissing
<1>4. CASE Rename(w) /\ table[w] \in (AtomTables \cap present) \ leftover
  BY <1>4 DEF Rename, MigratedTables
<1>5. CASE CopyAndDrop(w) /\ table[w] \in AtomTables \cap leftover \cap present
  <2>1. table[w] \notin legacy
    BY <1>5
  <2>2. QED
    BY <1>5, <2>1 DEF CopyAndDrop, MigratedTables
<1>6. ASSUME NEW t \in VerifiedTables, Rekey(w, t)
      PROVE  Leftovers'
  BY <1>6, RekeyFacts DEF MigratedTables
<1>7. ASSUME NEW t \in UniqueTables \cup VerifiedTables, NEW c \in Cells, Write(w, t, c)
      PROVE  Leftovers'
  <2>1. \A x \in MigratedTables : x # t => rows'[x] = rows[x]
    BY <1>7, WriteFacts
  <2>2. \A q \in rows'[t] : q \in rows[t] \/ q.id = Live
    BY <1>7, WriteFacts
  <2>3. UNCHANGED <<present, legacy, leftover, stranded, program_id>> /\ t \notin legacy
    BY <1>7, WriteFacts
  <2>4. leftover \subseteq MigratedTables
    BY DEF MigratedTables
  <2>5. QED
    BY <2>1, <2>2, <2>3, <2>4
<1>8. QED
  BY <1>1, <1>2, <1>3, <1>4, <1>5, <1>6, <1>7 DEF TablesStep

LEMMA KnownRowsStep ==
  ASSUME MigrationTypeOK, Leftovers, KnownRows, NEW w \in Worker, TablesStep(w),
         UNCHANGED found
  PROVE  KnownRows'
<1> SUFFICES ASSUME found # NoTable, NEW x \in AtomTables
             PROVE  \A q \in rows'[x] \cup stranded'[x] : q.id # Live => q \in found[x]
  BY DEF KnownRows
<1> USE DEF MigrationTypeOK, tables
<1>0. \A q \in rows[x] \cup stranded[x] : q.id # Live => q \in found[x]
  BY DEF KnownRows
<1>a. x \in MigratedTables /\ x \notin VerifiedTables
  BY MigrationAssumption DEF MigratedTables
<1>1. CASE UNCHANGED <<rows, stranded>>
  BY <1>0, <1>1
<1>2. CASE Rename(w) /\ table[w] \in (AtomTables \cap present) \ leftover
  BY <1>0, <1>a, <1>2 DEF Rename
<1>3. CASE CopyAndDrop(w) /\ table[w] \in AtomTables \cap leftover \cap present
  <2>1. x = table[w] => rows'[x] = InsertOrIgnore(x, rows[x], stranded[x]) /\ stranded'[x] = {}
    BY <1>3, <1>a DEF CopyAndDrop
  <2>2. x # table[w] => rows'[x] = rows[x] /\ stranded'[x] = stranded[x]
    BY <1>3, <1>a DEF CopyAndDrop
  <2>3. InsertOrIgnore(x, rows[x], stranded[x]) \subseteq rows[x] \cup stranded[x]
    BY InsertFacts
  <2>4. QED
    BY <1>0, <2>1, <2>2, <2>3
<1>4. ASSUME NEW t \in VerifiedTables, Rekey(w, t)
      PROVE  rows'[x] = rows[x] /\ stranded'[x] = stranded[x]
  BY <1>4, <1>a DEF Rekey
<1>5. ASSUME NEW t \in UniqueTables \cup VerifiedTables, NEW c \in Cells, Write(w, t, c)
      PROVE  /\ \A q \in rows'[x] : q \in rows[x] \/ q.id = Live
             /\ stranded' = stranded
  <2>1. x # t => rows'[x] = rows[x]
    BY <1>5, <1>a, WriteFacts
  <2>2. QED
    BY <1>5, <2>1, WriteFacts
<1>6. QED
  BY <1>0, <1>1, <1>2, <1>3, <1>4, <1>5 DEF TablesStep, CreateMissing

\* A legacy row of t is in S, or a live row there took its key.
KeptIn(t, r, S) == r \in S \/ \E q \in S : q.id = Live /\ SameKey(t, r, q)

(* Copying a leftover back beside live rows keeps every legacy row that had to be
   carried over, or a live row of its key. *)
LEMMA CopyKeeps ==
  ASSUME MigrationTypeOK, Leftovers, KnownRows, found # NoTable,
         NEW t \in AtomTables \cap leftover, NEW r \in HasToCarry(t),
         KeptIn(t, r, rows[t] \cup stranded[t])
  PROVE  KeptIn(t, r, InsertOrIgnore(t, rows[t], stranded[t]))
<1> DEFINE Copied == InsertOrIgnore(t, rows[t], stranded[t])
<1>1. /\ \A q \in rows[t] : q.id = Live /\ q \in Copied
      /\ \A q \in stranded[t] : q.id \in Nat /\ (q.id # Live => q \in found[t])
  <2>1. t \in MigratedTables
    BY DEF MigratedTables
  <2>2. \A q \in stranded[t] : q \in Row
    BY <2>1 DEF MigrationTypeOK
  <2>3. QED
    BY <2>2, InsertFacts DEF Leftovers, KnownRows, Row
<1>2. ASSUME NEW q \in stranded[t], q.id = Live
      PROVE  q \in Copied \/ \E p \in Copied : p.id = Live /\ SameKey(t, q, p)
  <2>1. ~\E p \in stranded[t] : SameKey(t, q, p) /\ ~(q.id <= p.id)
    BY <1>1, <1>2 DEF Live
  <2>2. QED
    BY <1>1, <2>1, IgnoredFacts
<1>3. ASSUME r \in stranded[t], r \notin Copied
      PROVE  \E p \in Copied : p.id = Live /\ SameKey(t, r, p)
  <2>1. CASE \E p \in rows[t] : SameKey(t, r, p)
    BY <1>1, <2>1
  <2>2. CASE \E q \in stranded[t] : SameKey(t, r, q) /\ ~(r.id <= q.id)
    <3>1. PICK q \in stranded[t] : SameKey(t, r, q) /\ ~(r.id <= q.id)
      BY <2>2
    <3>2. q \notin found[t]
      BY <3>1, MigrationAssumption DEF HasToCarry, Earliest, VerifiedTables
    <3>3. q.id = Live
      BY <1>1, <3>2
    <3>4. CASE q \in Copied
      BY <3>1, <3>3, <3>4
    <3>5. CASE \E p \in Copied : p.id = Live /\ SameKey(t, q, p)
      <4>1. PICK p \in Copied : p.id = Live /\ SameKey(t, q, p)
        BY <3>5
      <4>2. SameKey(t, r, p)
        BY <3>1, <4>1, SameKeyFacts
      <4>3. QED
        BY <4>1, <4>2
    <3>6. QED
      BY <1>2, <3>3, <3>4, <3>5
  <2>3. QED
    BY <1>3, <2>1, <2>2, IgnoredFacts
<1>4. ASSUME NEW q \in rows[t] \cup stranded[t], q.id = Live, SameKey(t, r, q)
      PROVE  KeptIn(t, r, Copied)
  <2>1. CASE q \in Copied
    BY <1>4, <2>1 DEF KeptIn
  <2>2. CASE \E p \in Copied : p.id = Live /\ SameKey(t, q, p)
    <3>1. PICK p \in Copied : p.id = Live /\ SameKey(t, q, p)
      BY <2>2
    <3>2. SameKey(t, r, p)
      BY <1>4, <3>1, SameKeyFacts
    <3>3. QED
      BY <3>1, <3>2 DEF KeptIn
  <2>3. QED
    BY <1>1, <1>2, <1>4, <2>1, <2>2
<1>5. QED
  BY <1>1, <1>3, <1>4 DEF KeptIn

LEMMA AtomsKeptStep ==
  ASSUME MigrationTypeOK, Leftovers, KnownRows, AtomsKept, NEW w \in Worker,
         TablesStep(w), UNCHANGED found
  PROVE  AtomsKept'
<1> SUFFICES ASSUME found # NoTable, NEW x \in AtomTables, NEW r \in HasToCarry(x)
             PROVE  KeptIn(x, r, rows'[x] \cup stranded'[x])
  BY DEF AtomsKept, KeptIn, HasToCarry
<1> USE DEF MigrationTypeOK, tables
<1>0. KeptIn(x, r, rows[x] \cup stranded[x])
  BY DEF AtomsKept, KeptIn
<1>a. x \in MigratedTables /\ x \notin VerifiedTables
  BY MigrationAssumption DEF MigratedTables
<1>1. CASE UNCHANGED <<rows, stranded>>
  BY <1>0, <1>1
<1>2. CASE Rename(w) /\ table[w] \in (AtomTables \cap present) \ leftover
  <2>1. rows'[x] \cup stranded'[x] = rows[x] \cup stranded[x]
    BY <1>a, <1>2 DEF Rename, Leftovers
  <2>2. QED
    BY <1>0, <2>1
<1>3. CASE CopyAndDrop(w) /\ table[w] \in AtomTables \cap leftover \cap present
  <2>1. x = table[w] => rows'[x] = InsertOrIgnore(x, rows[x], stranded[x])
    BY <1>3, <1>a DEF CopyAndDrop
  <2>2. x # table[w] => rows'[x] = rows[x] /\ stranded'[x] = stranded[x]
    BY <1>3, <1>a DEF CopyAndDrop
  <2>3. x = table[w] => KeptIn(x, r, rows'[x])
    BY <1>0, <1>3, <2>1, CopyKeeps
  <2>4. QED
    BY <1>0, <2>2, <2>3 DEF KeptIn
<1>4. ASSUME NEW t \in VerifiedTables, Rekey(w, t)
      PROVE  rows'[x] = rows[x] /\ stranded'[x] = stranded[x]
  BY <1>4, <1>a DEF Rekey
<1>5. ASSUME NEW t \in UniqueTables \cup VerifiedTables, NEW c \in Cells, Write(w, t, c)
      PROVE  rows[x] \subseteq rows'[x] /\ stranded' = stranded
  <2>1. x # t => rows'[x] = rows[x]
    BY <1>5, <1>a, WriteFacts
  <2>2. QED
    BY <1>5, <2>1, WriteFacts
<1>6. QED
  BY <1>0, <1>1, <1>2, <1>3, <1>4, <1>5 DEF TablesStep, CreateMissing, KeptIn

LEMMA UnclassifiedStep ==
  ASSUME MigrationTypeOK, Leftovers, UnclassifiedStay, NEW w \in Worker,
         TablesStep(w), UNCHANGED found
  PROVE  UnclassifiedStay'
<1> SUFFICES ASSUME NEW x \in ScoredTables, FoundUnclassified(x)
             PROVE  x \in legacy'
  BY DEF UnclassifiedStay, FoundUnclassified
<1>1. x \in legacy /\ x \in VerifiedTables /\ x \notin AtomTables
  BY MigrationAssumption DEF UnclassifiedStay, VerifiedTables
<1>2. ASSUME NEW t \in VerifiedTables, Rekey(w, t)
      PROVE  x \in legacy'
  BY <1>1, <1>2, RekeyFacts
<1>3. ASSUME NEW t \in UniqueTables \cup VerifiedTables, NEW c \in Cells, Write(w, t, c)
      PROVE  x \in legacy'
  BY <1>1, <1>3 DEF Write
<1>4. QED
  BY <1>1, <1>2, <1>3 DEF TablesStep, CreateMissing, Rename, CopyAndDrop, tables

LEMMA VerifiedStep ==
  ASSUME MigrationTypeOK, Leftovers, VerifiedRowsAreNeverLost, NEW w \in Worker,
         TablesStep(w), UNCHANGED found
  PROVE  VerifiedRowsAreNeverLost'
<1> SUFFICES ASSUME found # NoTable, NEW x \in VerifiedTables
             PROVE  /\ x \in legacy' => rows'[x] = found[x]
                    /\ x \notin legacy' => x \in present' /\ HasToCarry(x) \subseteq rows'[x]
  BY DEF VerifiedRowsAreNeverLost, CarriedOver, HasToCarry
<1> USE DEF MigrationTypeOK, tables
<1>0. /\ x \in legacy => rows[x] = found[x]
      /\ x \notin legacy => x \in present /\ HasToCarry(x) \subseteq rows[x]
  BY DEF VerifiedRowsAreNeverLost, CarriedOver
<1>a. x \in MigratedTables /\ x \notin AtomTables
  BY MigrationAssumption DEF MigratedTables
<1>1. CASE UNCHANGED tables
  BY <1>0, <1>1
<1>2. CASE CreateMissing
  BY <1>0, <1>a, <1>2 DEF CreateMissing
<1>3. CASE Rename(w) /\ table[w] \in (AtomTables \cap present) \ leftover
  BY <1>0, <1>a, <1>3 DEF Rename
<1>4. CASE CopyAndDrop(w) /\ table[w] \in AtomTables \cap leftover \cap present
  BY <1>0, <1>a, <1>4 DEF CopyAndDrop
<1>5. ASSUME NEW t \in VerifiedTables, Rekey(w, t)
      PROVE  /\ x \in legacy' => rows'[x] = found[x]
             /\ x \notin legacy' => x \in present' /\ HasToCarry(x) \subseteq rows'[x]
  <2>1. x # t => rows'[x] = rows[x]
    BY <1>5, <1>a DEF Rekey
  <2>2. QED
    BY <1>0, <1>5, <2>1, RekeyFacts
<1>6. ASSUME NEW t \in UniqueTables \cup VerifiedTables, NEW c \in Cells, Write(w, t, c)
      PROVE  /\ x \in legacy' => rows'[x] = found[x]
             /\ x \notin legacy' => x \in present' /\ HasToCarry(x) \subseteq rows'[x]
  <2>1. x # t => rows'[x] = rows[x]
    BY <1>6, <1>a, WriteFacts
  <2>2. QED
    BY <1>0, <1>6, <2>1, WriteFacts
<1>7. QED
  BY <1>1, <1>2, <1>3, <1>4, <1>5, <1>6 DEF TablesStep

-----------------------------------------------------------------------------
(* The theorems *)

LEMMA InitMigrationInv == InitMigration => MigrationInv
<1> SUFFICES ASSUME InitMigration
             PROVE  MigrationInv
  OBVIOUS
<1> USE DEF InitMigration
<1>1. MigrationTypeOK
  BY InitMigrationTyped
<1>2. \A w \in Worker : StepsDone(w)
  BY DEF StepsDone, Moving
<1>3. OneOwner
  BY DEF OneOwner, Owns, Moving
<1>4. Leftovers
  BY DEF Leftovers
<1>5. KnownRows
  BY MigrationAssumption DEF KnownRows, MigratedTables
<1>6. AtomsKept
  BY MigrationAssumption DEF AtomsKept, MigratedTables, HasToCarry, Earliest, VerifiedTables
<1>7. UnclassifiedStay
  BY DEF UnclassifiedStay, FoundUnclassified, MigratedTables, VerifiedTables
<1>8. VerifiedRowsAreNeverLost
  BY DEF VerifiedRowsAreNeverLost, MigratedTables
<1>9. QED
  BY <1>1, <1>2, <1>3, <1>4, <1>5, <1>6, <1>7, <1>8 DEF MigrationInv

LEMMA StepMigrationInv == MigrationInv /\ [NextMigration]_migrationVars => MigrationInv'
<1> SUFFICES ASSUME MigrationInv, [NextMigration]_migrationVars
             PROVE  MigrationInv'
  OBVIOUS
<1> USE DEF MigrationInv
<1>1. MigrationTypeOK' /\ (\A w \in Worker : StepsDone(w)') /\ OneOwner'
  BY MigrationTypeStep, StepsDoneStep, OneOwnerStep
<1>2. CASE UNCHANGED migrationVars
  BY <1>1, <1>2 DEF migrationVars, tables, Leftovers, KnownRows, AtomsKept,
     UnclassifiedStay, VerifiedRowsAreNeverLost, CarriedOver, HasToCarry, FoundUnclassified
<1>3. CASE NextMigration
  <2>1. PICK w \in Worker : Step(w) /\ UNCHANGED found
    BY <1>3 DEF NextMigration
  <2>2. TablesStep(w)
    BY <2>1, TablesStepFacts
  <2>3. Leftovers' /\ KnownRows' /\ AtomsKept' /\ UnclassifiedStay'
        /\ VerifiedRowsAreNeverLost'
    BY <2>1, <2>2, LeftoversStep, KnownRowsStep, AtomsKeptStep, UnclassifiedStep,
       VerifiedStep
  <2>4. QED
    BY <1>1, <2>3
<1>4. QED
  BY <1>2, <1>3

(* Every variable of the migration keeps its type: tables and the rows in them,
   what was renamed away, and where each worker is. *)
THEOREM MigrationTyped == SpecMigration => []MigrationTypeOK
<1>1. MigrationInv => MigrationTypeOK
  BY DEF MigrationInv
<1>2. QED
  BY <1>1, InitMigrationInv, StepMigrationInv, PTL DEF SpecMigration

(* However many workers boot at once and however often they are killed, whatever
   the legacy database held, each verified table holds at every instant each
   legacy row it has to (store.py:396-434). *)
THEOREM VerifiedRowsStay == SpecMigration => []VerifiedRowsAreNeverLost
<1>1. MigrationInv => VerifiedRowsAreNeverLost
  BY DEF MigrationInv
<1>2. QED
  BY <1>1, InitMigrationInv, StepMigrationInv, PTL DEF SpecMigration

(* A worker that serves finds program_id stamped and each verified table re-keyed
   with its rows, whichever worker migrated it (store.py:322-340, 457-530). *)
THEOREM ServingOnlyMigrated == SpecMigration => []ServingIsMigrated
<1>1. MigrationInv => ServingIsMigrated
  BY DEF MigrationInv, ServingIsMigrated, StepsDone, VerifiedRowsAreNeverLost
<1>2. QED
  BY <1>1, InitMigrationInv, StepMigrationInv, PTL DEF SpecMigration

(* A scored row of an image without a major stays under its old key and keeps
   every worker from serving (store.py:440-447, 484-501). *)
THEOREM UnclassifiedRefused == SpecMigration => []RefusesUnclassified
<1>1. MigrationInv => RefusesUnclassified
  <2> SUFFICES ASSUME MigrationInv, NEW t \in ScoredTables, FoundUnclassified(t)
               PROVE  /\ rows[t] = found[t]
                      /\ \A w \in Worker : pc[w] # "serving"
    BY DEF RefusesUnclassified
  <2>1. t \in legacy
    BY DEF MigrationInv, UnclassifiedStay
  <2>2. t \in VerifiedTables /\ rows[t] = found[t]
    BY <2>1 DEF MigrationInv, Leftovers, VerifiedTables
  <2>3. QED
    BY <2>1, <2>2 DEF MigrationInv, StepsDone
<1>2. QED
  BY <1>1, InitMigrationInv, StepMigrationInv, PTL DEF SpecMigration

(* Short of a kill, workers that boot at once, raise and boot again lose no
   self-reported row but to a row of its key registered since: a table renamed
   away always has one worker that copies it back (store.py:285-299). *)
THEOREM UnkilledBootsKeepAtoms == SpecMigration => []UnkilledBootsCarryAtomsOver
<1>1. MigrationInv => UnkilledBootsCarryAtomsOver
  <2> SUFFICES ASSUME MigrationInv, crashes = 0, ServedAtRest, NEW t \in AtomTables
               PROVE  AtomsCarriedOver(t)
    BY DEF UnkilledBootsCarryAtomsOver, AtomsAreCarriedOver
  <2>1. leftover = {}
    BY DEF MigrationInv, MigrationTypeOK, OneOwner, Owns, Moving, ServedAtRest
  <2>2. t \in MigratedTables
    BY DEF MigratedTables
  <2>3. t \in present /\ stranded[t] = {}
    BY <2>1, <2>2 DEF MigrationInv, Leftovers, ServedAtRest
  <2>4. QED
    BY <2>3 DEF MigrationInv, AtomsKept, ServedAtRest, AtomsCarriedOver, Displaced
<1>2. QED
  BY <1>1, InitMigrationInv, StepMigrationInv, PTL DEF SpecMigration

(* No row leaves a re-keyed verified table, its legacy rows or those registered
   since, whatever the workers that are still booting do (store.py:416-428). *)
THEOREM RekeyedRowsAreKept == SpecMigration => RekeyedRowsStay
<1>1. ASSUME MigrationInv, NextMigration, NEW t \in VerifiedTables \ legacy
      PROVE  rows[t] \subseteq rows'[t]
  <2>1. PICK w \in Worker : Step(w) /\ UNCHANGED found
    BY <1>1 DEF NextMigration
  <2>2. TablesStep(w)
    BY <1>1, <2>1, TablesStepFacts DEF MigrationInv
  <2>3. t \in MigratedTables /\ t \notin AtomTables /\ MigrationTypeOK
    BY <1>1, MigrationAssumption DEF MigratedTables, MigrationInv
  <2>4. ASSUME NEW u \in UniqueTables \cup VerifiedTables, NEW c \in Cells, Write(w, u, c)
        PROVE  rows[t] \subseteq rows'[t]
    <3>1. u # t => rows'[t] = rows[t]
      BY <2>3, <2>4, WriteFacts DEF MigrationTypeOK
    <3>2. QED
      BY <2>3, <2>4, <3>1, WriteFacts
  <2>5. ASSUME NEW u \in VerifiedTables, Rekey(w, u)
        PROVE  rows[t] \subseteq rows'[t]
    BY <2>3, <2>5 DEF Rekey, MigrationTypeOK
  <2>6. QED
    BY <2>2, <2>3, <2>4, <2>5
       DEF TablesStep, CreateMissing, Rename, CopyAndDrop, tables, MigrationTypeOK
<1>2. MigrationInv /\ [NextMigration]_migrationVars
        => [\A t \in VerifiedTables \ legacy : rows[t] \subseteq rows'[t]]_migrationVars
  BY <1>1
<1>3. QED
  BY <1>2, InitMigrationInv, StepMigrationInv, PTL DEF SpecMigration, RekeyedRowsStay
=============================================================================

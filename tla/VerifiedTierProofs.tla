------------------------- MODULE VerifiedTierProofs -------------------------
(***************************************************************************)
(* Proofs about the verified tier, for any number of nodes, programs,       *)
(* identities, rotations, bumps, upgrades and failures.                     *)
(***************************************************************************)
EXTENDS VerifiedTier, FiniteSetTheorems, TLAPS

(* What the hub admits was played under its own secret and major, so the row it
   makes is of the scope it is filed under. *)
LEMMA StoredIsComparable ==
  ASSUME NEW n \in Node, RowsAreComparable,
         Accepts(node[n].secret, node[n].image), Store(n), UNCHANGED floor
  PROVE  RowsAreComparable'
<1>1. node[n].image = major
  BY DEF Accepts
<1>2. \A r \in rows' : r \in rows \/ r.played = <<r.secret, r.major>>
  BY <1>1 DEF Store, RowsWith
<1>3. QED
  BY <1>2 DEF RowsAreComparable

LEMMA StoredFloorIsComparable ==
  ASSUME NEW n \in Node, RowsAreComparable,
         Accepts(node[n].secret, node[n].image), StoreFloor(n), UNCHANGED rows
  PROVE  RowsAreComparable'
<1>1. node[n].image = major
  BY DEF Accepts
<1>2. \A r \in floor' : r \in floor \/ r.played = <<r.secret, r.major>>
  BY <1>1 DEF StoreFloor
<1>3. QED
  BY <1>2 DEF RowsAreComparable

(* The other steps store nothing. *)
LEMMA NothingStored ==
  ASSUME RowsAreComparable, UNCHANGED <<rows, floor>>
  PROVE  RowsAreComparable'
BY DEF RowsAreComparable

LEMMA WorkIsComparable ==
  ASSUME RowsAreComparable, NEW n \in Node, Work(n)
  PROVE  RowsAreComparable'
<1>1. CASE Post(n)
  <2>1. /\ Accepts(node[n].secret, node[n].image)
        /\ Store(n)
        /\ UNCHANGED floor
    BY <1>1 DEF Post
  <2>2. QED
    BY <2>1, StoredIsComparable
<1>2. CASE PostFloor(n)
  <2>1. /\ Accepts(node[n].secret, node[n].image)
        /\ StoreFloor(n)
        /\ UNCHANGED rows
    BY <1>2 DEF PostFloor
  <2>2. QED
    BY <2>1, StoredFloorIsComparable
<1>3. CASE UNCHANGED <<rows, floor>>
  BY <1>3, NothingStored
<1>4. Post(n) \/ PostFloor(n) \/ UNCHANGED <<rows, floor>>
  BY DEF Work, GetConfig, GetCandidates, EvaluationFails, PostRefused, Report,
         ReportRefused, CheckCovered, PostFloorRefused, FloorSucceeds, hub
<1>5. QED
  BY <1>1, <1>2, <1>3, <1>4

LEMMA EnvironmentIsComparable ==
  ASSUME RowsAreComparable, NEW n \in Node, Environment(n)
  PROVE  RowsAreComparable'
<1>1. CASE PostLost(n)
  <2>1. UNCHANGED floor
    BY <1>1 DEF PostLost
  <2>2. \/ Accepts(node[n].secret, node[n].image) /\ Store(n)
        \/ UNCHANGED rows
    BY <1>1 DEF PostLost
  <2>3. QED
    BY <2>1, <2>2, StoredIsComparable, NothingStored
<1>2. CASE FloorFails(n)
  <2>1. UNCHANGED rows
    BY <1>2 DEF FloorFails
  <2>2. \/ Accepts(node[n].secret, node[n].image) /\ StoreFloor(n)
        \/ UNCHANGED floor
    BY <1>2 DEF FloorFails
  <2>3. QED
    BY <2>1, <2>2, StoredFloorIsComparable, NothingStored
<1>3. CASE UNCHANGED <<rows, floor>>
  BY <1>3, NothingStored
<1>4. PostLost(n) \/ FloorFails(n) \/ UNCHANGED <<rows, floor>>
  BY DEF Environment, HubUnreachable, PullFails, ReportLost, CheckCoveredLost,
         Upgrade, Kill, hub
<1>5. QED
  BY <1>1, <1>2, <1>3, <1>4

LEMMA ComparableInductive ==
  ASSUME RowsAreComparable, [Next]_vars
  PROVE  RowsAreComparable'
<1>1. CASE RotateSecret \/ BumpMajor \/ (\E n \in Node : StartFloor(n)) \/ UNCHANGED vars
  BY <1>1, NothingStored DEF RotateSecret, BumpMajor, StartFloor, hub, vars
<1>2. CASE \E n \in Node : Work(n) \/ Environment(n)
  BY <1>2, WorkIsComparable, EnvironmentIsComparable
<1>3. QED
  BY <1>1, <1>2 DEF Next

(* A board ranks only scores of one scope, and against a floor of that scope:
   every row of the verified tables was played under the secret and the major it
   is filed under, however many nodes, releases and rotations there are
   (hub/verify.py _check_hidden_evidence). *)
THEOREM BoardsAreComparable == Spec => []RowsAreComparable
<1>1. Init => RowsAreComparable
  BY DEF Init, RowsAreComparable
<1>2. RowsAreComparable /\ [Next]_vars => RowsAreComparable'
  BY ComparableInductive
<1>3. QED
  BY <1>1, <1>2, PTL DEF Spec

-----------------------------------------------------------------------------
(* WHAT THE ATTEMPTS SAY *)

\* Every node is a record of these fields.
Shaped ==
  /\ node = [n \in Node |-> node[n]]
  /\ \A n \in Node :
       node[n] = [stage |-> node[n].stage, image |-> node[n].image,
                  secret |-> node[n].secret, queue |-> node[n].queue,
                  done |-> node[n].done, failure |-> node[n].failure]

\* The identities a program is covered on by the rows of a scope.
On(table, p, s, m) ==
  {r.identity : r \in {x \in table : x.program = p /\ x.secret = s /\ x.major = m}}

\* What node n has done of its program is covered in the scope it works in.
Kept(n) ==
  \A i \in 1..node[n].done :
    Identities[i] \in On(rows, This(n), node[n].secret, node[n].image)

\* A node is where its done and its failure say.
Progress(n) ==
  /\ node[n].stage \in {"config", "candidates"} => node[n].done = 0 /\ node[n].failure = None
  /\ node[n].stage = "evaluate" =>
       /\ node[n].done \in 0..Len(Identities) /\ node[n].done # Len(Identities)
       /\ node[n].failure = None
       /\ Kept(n)
  /\ node[n].stage = "report" =>
       /\ node[n].done \in 0..Len(Identities)
       /\ node[n].failure \in Failures \cup {None}
       /\ node[n].failure = None => node[n].done = Len(Identities)
       /\ Kept(n)

OfIdentities(table) == \A r \in table : r.identity \in Identity

BoardInv ==
  /\ Shaped
  /\ OfIdentities(rows)
  /\ attempts \in [Program -> [Secret -> [Major -> Attempt \cup {None}]]]
  /\ \A n \in Node : Progress(n)
  /\ ReportsAreOnTheBoard

LEMMA IdentitiesAreFinite ==
  /\ Len(Identities) \in Nat \ {0} /\ DOMAIN Identities = 1..Len(Identities)
  /\ \A i \in 1..Len(Identities) : Identities[i] \in Identity
  /\ \A i, j \in 1..Len(Identities) : Identities[i] = Identities[j] => i = j
  /\ IsFiniteSet(Identity)
<1>1. /\ Len(Identities) \in Nat \ {0} /\ DOMAIN Identities = 1..Len(Identities)
      /\ Identities \in [1..Len(Identities) -> Identity]
  BY VerifiedAssumption
<1>2. Identities \in Surjection(1..Len(Identities), Identity)
  BY <1>1 DEF Surjection, Identity, ToSet
<1>3. IsFiniteSet(1..Len(Identities))
  BY <1>1, FS_Interval
<1>4. IsFiniteSet(Identity)
  BY <1>2, <1>3, FS_Surjection
<1>5. QED
  BY <1>1, <1>4, VerifiedAssumption DEF IsInjective

(* A set of identities that has the first d of them has at least d, and all of
   them if d is all. *)
LEMMA CoversThatMany ==
  ASSUME NEW d \in 0..Len(Identities), NEW C \in SUBSET Identity,
         \A i \in 1..d : Identities[i] \in C
  PROVE  /\ IsFiniteSet(C) /\ Cardinality(C) \in Nat /\ d <= Cardinality(C)
         /\ d = Len(Identities) => C = Identity
<1>1. IsFiniteSet(C)
  BY IdentitiesAreFinite, FS_Subset
<1> DEFINE f == [i \in 1..d |-> Identities[i]]
<1>2. d \in Nat /\ d <= Len(Identities)
  BY IdentitiesAreFinite
<1>3. \A i \in 1..d : i \in 1..Len(Identities)
  BY <1>2, IdentitiesAreFinite
<1>4. f \in [1..d -> C] /\ \A i, j \in 1..d : f[i] = f[j] => i = j
  BY <1>3, IdentitiesAreFinite
<1>5. f \in Injection(1..d, C)
  BY <1>4 DEF Injection, IsInjective
<1>6. Cardinality(1..d) <= Cardinality(C)
  BY <1>1, <1>5, FS_Injection
<1>7. Cardinality(1..d) = d
  BY <1>2, FS_Interval
<1>8. d = Len(Identities) => C = Identity
  BY IdentitiesAreFinite DEF Identity, ToSet
<1>9. QED
  BY <1>1, <1>6, <1>7, <1>8, FS_CardinalityType

LEMMA CoveredIsOn == \A p, s, m : CoveredIn(p, s, m) = On(rows, p, s, m)
BY DEF CoveredIn, On

(* Rows are never taken away, so what was reported stays true. *)
LEMMA ReportsStay ==
  ASSUME BoardInv, rows \subseteq rows', OfIdentities(rows'), attempts' = attempts
  PROVE  ReportsAreOnTheBoard'
<1>1. SUFFICES ASSUME NEW p \in Program, NEW s \in Secret, NEW m \in Major,
                      attempts[p][s][m] # None
               PROVE  /\ attempts[p][s][m].done <= Cardinality(On(rows', p, s, m))
                      /\ attempts[p][s][m].failure = None => On(rows', p, s, m) = Identity
  BY DEF ReportsAreOnTheBoard, CoveredIn, On
<1>2. /\ attempts[p][s][m].done <= Cardinality(On(rows, p, s, m))
      /\ attempts[p][s][m].failure = None => On(rows, p, s, m) = Identity
  BY <1>1 DEF BoardInv, ReportsAreOnTheBoard, CoveredIn, On
<1>3. On(rows, p, s, m) \subseteq On(rows', p, s, m) /\ On(rows', p, s, m) \subseteq Identity
  BY DEF On, OfIdentities
<1>4. /\ IsFiniteSet(On(rows', p, s, m)) /\ Cardinality(On(rows', p, s, m)) \in Nat
      /\ Cardinality(On(rows, p, s, m)) \in Nat
      /\ Cardinality(On(rows, p, s, m)) <= Cardinality(On(rows', p, s, m))
  BY <1>3, IdentitiesAreFinite, FS_Subset, FS_CardinalityType
<1>5. attempts[p][s][m].done \in Nat
  <2>1. attempts[p][s][m] \in Attempt
    BY <1>1 DEF BoardInv
  <2>2. attempts[p][s][m].done \in 0..Len(Identities)
    BY <2>1 DEF Attempt
  <2>3. QED
    BY <2>2, IdentitiesAreFinite
<1>6. attempts[p][s][m].done <= Cardinality(On(rows', p, s, m))
  <2> DEFINE d == attempts[p][s][m].done
             a == Cardinality(On(rows, p, s, m))
             b == Cardinality(On(rows', p, s, m))
  <2>1. d \in Nat /\ a \in Nat /\ b \in Nat /\ d <= a /\ a <= b
    BY <1>2, <1>4, <1>5
  <2> HIDE DEF d, a, b
  <2>2. d <= b
    BY <2>1
  <2>3. QED
    BY <2>2 DEF d, b
<1>7. attempts[p][s][m].failure = None => On(rows', p, s, m) = Identity
  BY <1>2, <1>3
<1>8. QED
  BY <1>6, <1>7

(* A step of one node, which leaves the others where they are. *)
LEMMA OneNode ==
  ASSUME BoardInv, NEW n \in Node, Shaped', \A m \in Node \ {n} : node'[m] = node[m],
         rows \subseteq rows', OfIdentities(rows'), Progress(n)',
         attempts' \in [Program -> [Secret -> [Major -> Attempt \cup {None}]]],
         ReportsAreOnTheBoard'
  PROVE  BoardInv'
<1>1. ASSUME NEW m \in Node \ {n}
      PROVE  Progress(m)'
  <2>1. node'[m] = node[m] /\ Progress(m)
    BY DEF BoardInv
  <2>2. Kept(m) => Kept(m)'
    BY <2>1 DEF Kept, On, This
  <2>3. QED
    BY <2>1, <2>2 DEF Progress
<1>2. \A m \in Node : Progress(m)'
  BY <1>1
<1>3. QED
  BY <1>2 DEF BoardInv

(* A node that starts afresh. *)
LEMMA FreshIsOnTheBoard ==
  ASSUME BoardInv, NEW n \in Node, NEW i, node' = [node EXCEPT ![n] = Fresh(i)],
         UNCHANGED <<rows, attempts>>
  PROVE  BoardInv'
<1>1. /\ Shaped' /\ \A m \in Node \ {n} : node'[m] = node[m]
      /\ node'[n].stage = "config" /\ node'[n].done = 0 /\ node'[n].failure = None
  BY DEF BoardInv, Shaped, Fresh
<1>2. Progress(n)'
  BY <1>1 DEF Progress
<1>3. ReportsAreOnTheBoard' /\ OfIdentities(rows')
  BY ReportsStay DEF BoardInv
<1>4. QED
  BY <1>1, <1>2, <1>3, OneNode DEF BoardInv

(* A node that goes on to a program of which it has done nothing. *)
LEMMA NextIsOnTheBoard ==
  ASSUME BoardInv, NEW n \in Node, NextProgram(n), rows' = rows,
         attempts' \in [Program -> [Secret -> [Major -> Attempt \cup {None}]]],
         ReportsAreOnTheBoard'
  PROVE  BoardInv'
<1>r. OfIdentities(rows')
  BY DEF BoardInv
<1>1. CASE NewPass(n)
  <2>1. /\ Shaped' /\ \A m \in Node \ {n} : node'[m] = node[m]
        /\ node'[n].stage = "config" /\ node'[n].done = 0 /\ node'[n].failure = None
    BY <1>1 DEF BoardInv, Shaped, NewPass, Fresh
  <2>2. Progress(n)'
    BY <2>1 DEF Progress
  <2>3. QED
    BY <1>r, <2>1, <2>2, OneNode
<1>2. CASE node' = [node EXCEPT ![n].stage = "evaluate", ![n].queue = Tail(node[n].queue),
                                ![n].done = 0, ![n].failure = None]
  <2>1. /\ Shaped' /\ \A m \in Node \ {n} : node'[m] = node[m]
    BY <1>2 DEF BoardInv, Shaped
  <2>2. node'[n].stage = "evaluate" /\ node'[n].done = 0 /\ node'[n].failure = None
    <3> DEFINE r == node[n]
               q == Tail(node[n].queue)
    <3>1. r = [stage |-> r.stage, image |-> r.image, secret |-> r.secret,
               queue |-> r.queue, done |-> r.done, failure |-> r.failure]
      BY DEF BoardInv, Shaped
    <3>2. node'[n] = [r EXCEPT !.stage = "evaluate", !.queue = q, !.done = 0, !.failure = None]
      BY <1>2 DEF BoardInv, Shaped
    <3> HIDE DEF r, q
    <3>3. QED
      BY <3>1, <3>2
  <2>3. Progress(n)'
    BY <2>2, IdentitiesAreFinite DEF Progress, Kept
  <2>4. QED
    BY <1>r, <2>1, <2>3, OneNode
<1>3. QED
  BY <1>1, <1>2 DEF NextProgram

(* A node that gives its program up. *)
LEMMA FailureIsOnTheBoard ==
  ASSUME BoardInv, NEW n \in Node, node[n].stage = "evaluate", NEW f \in Failures,
         Fails(n, f), rows \subseteq rows', OfIdentities(rows'), attempts' = attempts
  PROVE  BoardInv'
<1>1. /\ Shaped' /\ \A m \in Node \ {n} : node'[m] = node[m]
  BY DEF BoardInv, Shaped, Fails
<1>2. /\ node'[n].stage = "report" /\ node'[n].failure = f
      /\ node'[n].image = node[n].image /\ node'[n].secret = node[n].secret
      /\ node'[n].queue = node[n].queue /\ node'[n].done = node[n].done
  <2> DEFINE r == node[n]
  <2>1. r = [stage |-> r.stage, image |-> r.image, secret |-> r.secret,
             queue |-> r.queue, done |-> r.done, failure |-> r.failure]
    BY DEF BoardInv, Shaped
  <2>2. node'[n] = [r EXCEPT !.stage = "report", !.failure = f]
    BY DEF BoardInv, Shaped, Fails
  <2> HIDE DEF r
  <2>3. QED
    BY <2>1, <2>2 DEF r
<1>3. f # None
  BY VerifiedAssumption DEF Failures
<1>4. Progress(n) /\ Kept(n)
  BY DEF BoardInv, Progress
<1>5. Kept(n)'
  BY <1>2, <1>4 DEF Kept, On, This
<1>6. Progress(n)'
  BY <1>2, <1>3, <1>4, <1>5 DEF Progress
<1>7. QED
  BY <1>1, <1>6, ReportsStay, OneNode DEF BoardInv

(* The rows a node stores cover the identity it stores them for, in the scope it
   works in. *)
LEMMA StoreCovers ==
  ASSUME BoardInv, NEW n \in Node, node[n].stage = "evaluate",
         Accepts(node[n].secret, node[n].image), Store(n)
  PROVE  /\ rows \subseteq rows' /\ OfIdentities(rows')
         /\ Current(n) \in On(rows', This(n), node[n].secret, node[n].image)
<1>1. Current(n) \in Identity
  <2>1. node[n].done + 1 \in 1..Len(Identities)
    BY IdentitiesAreFinite DEF BoardInv, Progress
  <2>2. QED
    BY <2>1, IdentitiesAreFinite DEF Current
<1> DEFINE p == This(n)
           i == Current(n)
           s == node[n].secret
           m == node[n].image
           new == [program |-> p, identity |-> i, secret |-> s, major |-> m, played |-> <<s, m>>]
<1>2. /\ i \in On(rows, p, s, m) /\ rows' = rows
      \/ rows' = rows \cup {new}
  BY DEF Accepts, Store, RowsWith, CoveredIn, On
<1>3. /\ new.program = p /\ new.identity = i /\ new.secret = s /\ new.major = m
  OBVIOUS
<1>4. i \in Identity
  BY <1>1
<1> HIDE DEF p, i, s, m, new
<1>5. rows \subseteq rows' /\ OfIdentities(rows')
  BY <1>2, <1>3, <1>4 DEF BoardInv, OfIdentities
<1>6. i \in On(rows', p, s, m)
  BY <1>2, <1>3 DEF On
<1>7. QED
  BY <1>5, <1>6 DEF p, i, s, m

LEMMA PostIsOnTheBoard ==
  ASSUME BoardInv, NEW n \in Node, Post(n)
  PROVE  BoardInv'
<1>0. /\ node[n].stage = "evaluate" /\ attempts' = attempts
      /\ Accepts(node[n].secret, node[n].image) /\ Store(n) /\ Advance(n)
  BY DEF Post, Posts
<1>1. /\ rows \subseteq rows' /\ OfIdentities(rows')
      /\ Current(n) \in On(rows', This(n), node[n].secret, node[n].image)
  BY <1>0, StoreCovers
<1> DEFINE d == node[n].done + 1
           st == IF d = Len(Identities) THEN "report" ELSE "evaluate"
<1>2. /\ Shaped' /\ \A m \in Node \ {n} : node'[m] = node[m]
  BY <1>0 DEF BoardInv, Shaped, Advance
<1>3. /\ node'[n].stage = st /\ node'[n].failure = node[n].failure
      /\ node'[n].image = node[n].image /\ node'[n].secret = node[n].secret
      /\ node'[n].queue = node[n].queue /\ node'[n].done = d
  <2> DEFINE r == node[n]
  <2>1. r = [stage |-> r.stage, image |-> r.image, secret |-> r.secret,
             queue |-> r.queue, done |-> r.done, failure |-> r.failure]
    BY DEF BoardInv, Shaped
  <2>2. node'[n] = [r EXCEPT !.done = d, !.stage = st]
    BY <1>0 DEF BoardInv, Shaped, Advance
  <2> HIDE DEF r, d, st
  <2>3. QED
    BY <2>1, <2>2 DEF r
<1>4. /\ node[n].done \in 0..Len(Identities) /\ node[n].done # Len(Identities)
      /\ node[n].failure = None /\ Kept(n)
  BY <1>0 DEF BoardInv, Progress
<1>5. d \in 0..Len(Identities) /\ \A i \in 1..d : i \in 1..node[n].done \/ i = d
  BY <1>4, IdentitiesAreFinite
<1>6. On(rows, This(n), node[n].secret, node[n].image)
        \subseteq On(rows', This(n), node[n].secret, node[n].image)
  BY <1>1 DEF On
<1>7. \A i \in 1..d : Identities[i] \in On(rows', This(n), node[n].secret, node[n].image)
  BY <1>1, <1>4, <1>5, <1>6 DEF Kept, Current
<1> HIDE DEF d
<1>8. Kept(n)'
  BY <1>3, <1>7 DEF Kept, This
<1>9. Progress(n)'
  BY <1>3, <1>4, <1>5, <1>8 DEF Progress
<1>10. QED
  BY <1>0, <1>1, <1>2, <1>9, ReportsStay, OneNode DEF BoardInv

LEMMA ReportIsOnTheBoard ==
  ASSUME BoardInv, NEW n \in Node, Report(n)
  PROVE  BoardInv'
<1> DEFINE a == [failure |-> node[n].failure, done |-> node[n].done]
           q == This(n)
           t == node[n].secret
           k == node[n].image
<1>1. /\ node[n].stage = "report" /\ rows' = rows /\ NextProgram(n)
      /\ attempts' = [attempts EXCEPT ![q][t][k] = a]
  BY DEF Report, AttemptsWith
<1>2. /\ node[n].done \in 0..Len(Identities)
      /\ node[n].failure \in Failures \cup {None}
      /\ node[n].failure = None => node[n].done = Len(Identities)
      /\ Kept(n)
  BY <1>1 DEF BoardInv, Progress
<1>3. a \in Attempt /\ a.done = node[n].done /\ a.failure = node[n].failure
  BY <1>2 DEF Attempt
<1>4. \A i \in 1..a.done : Identities[i] \in On(rows, q, t, k)
  BY <1>2, <1>3 DEF Kept
<1>5. a.done \in 0..Len(Identities) /\ (a.failure = None => a.done = Len(Identities))
  BY <1>2, <1>3
<1> HIDE DEF a, q, t, k
<1>6. /\ attempts' \in [Program -> [Secret -> [Major -> Attempt \cup {None}]]]
      /\ \A p \in Program, s \in Secret, m \in Major :
           attempts'[p][s][m] = IF p = q /\ s = t /\ m = k THEN a ELSE attempts[p][s][m]
  <2> DEFINE V == Attempt \cup {None}
             tables == [Secret -> [Major -> V]]
  <2>1. attempts \in [Program -> tables] /\ a \in V
    BY <1>3 DEF BoardInv
  <2>2. attempts' = [p \in Program |->
                       IF p = q THEN [attempts[q] EXCEPT ![t][k] = a] ELSE attempts[p]]
    BY <1>1, <2>1
  <2>3. ASSUME q \in Program
        PROVE  [attempts[q] EXCEPT ![t][k] = a]
                 = [s \in Secret |->
                      IF s = t THEN [attempts[q][t] EXCEPT ![k] = a] ELSE attempts[q][s]]
    BY <2>1, <2>3
  <2>4. ASSUME q \in Program, t \in Secret
        PROVE  [attempts[q][t] EXCEPT ![k] = a]
                 = [m \in Major |-> IF m = k THEN a ELSE attempts[q][t][m]]
    BY <2>1, <2>4
  <2>5. ASSUME q \in Program, t \in Secret
        PROVE  [attempts[q][t] EXCEPT ![k] = a] \in [Major -> V]
    <3> HIDE DEF V
    <3>1. attempts[q][t] \in [Major -> V]
      BY <2>1, <2>5
    <3>2. QED
      BY <2>1, <3>1
  <2>6. ASSUME q \in Program
        PROVE  [attempts[q] EXCEPT ![t][k] = a] \in tables
    <3> HIDE DEF V
    <3>1. attempts[q] \in [Secret -> [Major -> V]]
      BY <2>1, <2>6
    <3>2. QED
      BY <2>3, <2>5, <2>6, <3>1
  <2>7. attempts' \in [Program -> tables]
    <3> HIDE DEF tables
    <3>1. QED
      BY <2>1, <2>2, <2>6
  <2>8. ASSUME NEW p \in Program, NEW s \in Secret, NEW m \in Major
        PROVE  attempts'[p][s][m]
                 = IF p = q /\ s = t /\ m = k THEN a ELSE attempts[p][s][m]
    <3>1. CASE p = q /\ s = t
      BY <2>2, <2>3, <2>4, <3>1
    <3>2. CASE p = q /\ s # t
      BY <2>2, <2>3, <3>2
    <3>3. CASE p # q
      BY <2>2, <3>3
    <3>4. QED
      BY <3>1, <3>2, <3>3
  <2>9. QED
    BY <2>7, <2>8
<1>7. On(rows, q, t, k) \subseteq Identity
  BY DEF BoardInv, OfIdentities, On
<1>8. /\ a.done <= Cardinality(On(rows, q, t, k))
      /\ a.failure = None => On(rows, q, t, k) = Identity
  BY <1>4, <1>5, <1>7, CoversThatMany
<1>9. ASSUME NEW p \in Program, NEW s \in Secret, NEW m \in Major, attempts'[p][s][m] # None
      PROVE  /\ attempts'[p][s][m].done <= Cardinality(On(rows, p, s, m))
             /\ attempts'[p][s][m].failure = None => On(rows, p, s, m) = Identity
  <2>1. CASE p = q /\ s = t /\ m = k
    BY <1>6, <1>8, <2>1
  <2>2. CASE ~(p = q /\ s = t /\ m = k)
    BY <1>6, <1>9, <2>2, CoveredIsOn DEF BoardInv, ReportsAreOnTheBoard
  <2>3. QED
    BY <2>1, <2>2
<1>10. ReportsAreOnTheBoard'
  <2>1. \A p, s, m : CoveredIn(p, s, m)' = On(rows, p, s, m)
    BY <1>1 DEF CoveredIn, On
  <2>2. QED
    BY <1>9, <2>1 DEF ReportsAreOnTheBoard
<1>11. QED
  BY <1>1, <1>6, <1>10, NextIsOnTheBoard

(* A step in which a node moves between stages where it has nothing to show. *)
LEMMA ElsewhereIsOnTheBoard ==
  ASSUME BoardInv, NEW n \in Node, UNCHANGED <<rows, attempts>>, Shaped',
         \A m \in Node \ {n} : node'[m] = node[m],
         Progress(n)'
  PROVE  BoardInv'
BY ReportsStay, OneNode DEF BoardInv

(* The initial state. *)
LEMMA InitBoard == Init => BoardInv
<1> SUFFICES ASSUME Init
             PROVE  BoardInv
  OBVIOUS
<1>1. \A n \in Node : node[n] = Fresh(1)
  BY DEF Init
<1>2. Shaped
  BY <1>1 DEF Init, Shaped, Fresh
<1>3. \A n \in Node : Progress(n)
  BY <1>1 DEF Progress, Fresh
<1>4. OfIdentities(rows)
  BY DEF Init, OfIdentities
<1>5. attempts \in [Program -> [Secret -> [Major -> Attempt \cup {None}]]]
  BY DEF Init
<1>6. ReportsAreOnTheBoard
  BY DEF Init, ReportsAreOnTheBoard
<1>7. QED
  BY <1>2, <1>3, <1>4, <1>5, <1>6 DEF BoardInv

(* The steps that start a node afresh. *)
LEMMA RestartIsOnTheBoard ==
  ASSUME BoardInv, NEW n \in Node, NewPass(n), UNCHANGED <<rows, attempts>>
  PROVE  BoardInv'
BY FreshIsOnTheBoard DEF NewPass

LEMMA GetConfigIsOnTheBoard ==
  ASSUME BoardInv, NEW n \in Node, GetConfig(n)
  PROVE  BoardInv'
<1>0. /\ node[n].stage = "config" /\ UNCHANGED <<rows, attempts>>
      /\ node' = [node EXCEPT ![n].stage = "candidates", ![n].secret = secret]
  BY DEF GetConfig, hub
<1>1. /\ Shaped' /\ \A m \in Node \ {n} : node'[m] = node[m]
  BY <1>0 DEF BoardInv, Shaped
<1>2. node[n].done = 0 /\ node[n].failure = None
  BY <1>0 DEF BoardInv, Progress
<1>3. /\ node'[n].stage = "candidates" /\ node'[n].done = node[n].done
      /\ node'[n].failure = node[n].failure
  <2> DEFINE r == node[n]
  <2>1. r = [stage |-> r.stage, image |-> r.image, secret |-> r.secret,
             queue |-> r.queue, done |-> r.done, failure |-> r.failure]
    BY DEF BoardInv, Shaped
  <2>2. node'[n] = [r EXCEPT !.stage = "candidates", !.secret = secret]
    BY <1>0 DEF BoardInv, Shaped
  <2> HIDE DEF r
  <2>3. QED
    BY <2>1, <2>2 DEF r
<1>4. Progress(n)'
  BY <1>2, <1>3 DEF Progress
<1>5. QED
  BY <1>0, <1>1, <1>4, ElsewhereIsOnTheBoard

LEMMA GetCandidatesIsOnTheBoard ==
  ASSUME BoardInv, NEW n \in Node, GetCandidates(n)
  PROVE  BoardInv'
<1> DEFINE q == Candidates
<1>0. /\ node[n].stage = "candidates" /\ UNCHANGED <<rows, attempts>>
      /\ \/ NewPass(n)
         \/ node' = [node EXCEPT ![n].stage = "evaluate", ![n].queue = q]
  BY DEF GetCandidates, hub
<1> HIDE DEF q
<1>1. CASE NewPass(n)
  BY <1>0, <1>1, RestartIsOnTheBoard
<1>2. CASE node' = [node EXCEPT ![n].stage = "evaluate", ![n].queue = q]
  <2>1. /\ Shaped' /\ \A m \in Node \ {n} : node'[m] = node[m]
    BY <1>2 DEF BoardInv, Shaped
  <2>2. node[n].done = 0 /\ node[n].failure = None
    BY <1>0 DEF BoardInv, Progress
  <2>3. /\ node'[n].stage = "evaluate" /\ node'[n].done = node[n].done
        /\ node'[n].failure = node[n].failure
    <3> DEFINE r == node[n]
    <3>1. r = [stage |-> r.stage, image |-> r.image, secret |-> r.secret,
               queue |-> r.queue, done |-> r.done, failure |-> r.failure]
      BY DEF BoardInv, Shaped
    <3>2. node'[n] = [r EXCEPT !.stage = "evaluate", !.queue = q]
      BY <1>2 DEF BoardInv, Shaped
    <3> HIDE DEF r
    <3>3. QED
      BY <3>1, <3>2 DEF r
  <2>4. Progress(n)'
    BY <2>2, <2>3, IdentitiesAreFinite DEF Progress, Kept
  <2>5. QED
    BY <1>0, <2>1, <2>4, ElsewhereIsOnTheBoard
<1>3. QED
  BY <1>0, <1>1, <1>2

(* The node that computes the floor: it shows nothing of a program. *)
LEMMA FloorWorkIsOnTheBoard ==
  ASSUME BoardInv, NEW n \in Node, NEW stage \in {"todo", "floor"},
         UNCHANGED <<rows, attempts>>, Shaped',
         \A m \in Node \ {n} : node'[m] = node[m], node'[n].stage = stage
  PROVE  BoardInv'
<1>1. Progress(n)'
  BY DEF Progress
<1>2. QED
  BY <1>1, ElsewhereIsOnTheBoard

LEMMA StartFloorIsOnTheBoard ==
  ASSUME BoardInv, NEW n \in Node, StartFloor(n)
  PROVE  BoardInv'
<1>0. /\ UNCHANGED <<rows, attempts>>
      /\ node' = [node EXCEPT ![n].stage = "todo", ![n].secret = secret]
  BY DEF StartFloor, hub
<1>1. /\ Shaped' /\ \A m \in Node \ {n} : node'[m] = node[m]
  BY <1>0 DEF BoardInv, Shaped
<1>2. node'[n].stage = "todo"
  <2> DEFINE r == node[n]
  <2>1. r = [stage |-> r.stage, image |-> r.image, secret |-> r.secret,
             queue |-> r.queue, done |-> r.done, failure |-> r.failure]
    BY DEF BoardInv, Shaped
  <2>2. node'[n] = [r EXCEPT !.stage = "todo", !.secret = secret]
    BY <1>0 DEF BoardInv, Shaped
  <2> HIDE DEF r
  <2>3. QED
    BY <2>1, <2>2
<1>3. QED
  BY <1>0, <1>1, <1>2, FloorWorkIsOnTheBoard

LEMMA AddTodoIsOnTheBoard ==
  ASSUME BoardInv, NEW n \in Node, NEW wanted, AddTodo(n, wanted),
         UNCHANGED <<rows, attempts>>
  PROVE  BoardInv'
<1> DEFINE d == node[n].done + 1
           q == IF wanted THEN Append(node[n].queue, Current(n)) ELSE node[n].queue
           st == IF d = Len(Identities) THEN "floor" ELSE "todo"
<1>0. node' = [node EXCEPT ![n].done = d, ![n].queue = q, ![n].stage = st]
  BY DEF AddTodo
<1>a. st \in {"todo", "floor"}
  OBVIOUS
<1> HIDE DEF d, q, st
<1>1. /\ Shaped' /\ \A m \in Node \ {n} : node'[m] = node[m]
  BY <1>0 DEF BoardInv, Shaped
<1>2. node'[n].stage = st
  <2> DEFINE r == node[n]
  <2>1. r = [stage |-> r.stage, image |-> r.image, secret |-> r.secret,
             queue |-> r.queue, done |-> r.done, failure |-> r.failure]
    BY DEF BoardInv, Shaped
  <2>2. node'[n] = [r EXCEPT !.done = d, !.queue = q, !.stage = st]
    BY <1>0 DEF BoardInv, Shaped
  <2> HIDE DEF r
  <2>3. QED
    BY <2>1, <2>2
<1>3. QED
  BY <1>a, <1>1, <1>2, FloorWorkIsOnTheBoard

LEMMA PostFloorIsOnTheBoard ==
  ASSUME BoardInv, NEW n \in Node, PostFloor(n)
  PROVE  BoardInv'
<1> DEFINE q == Tail(node[n].queue)
<1>0. /\ UNCHANGED <<rows, attempts>> /\ node[n].stage = "floor"
      /\ node' = [node EXCEPT ![n].queue = q]
  BY DEF PostFloor, FloorDue
<1> HIDE DEF q
<1>1. /\ Shaped' /\ \A m \in Node \ {n} : node'[m] = node[m]
  BY <1>0 DEF BoardInv, Shaped
<1>2. node'[n].stage = "floor"
  <2> DEFINE r == node[n]
  <2>1. r = [stage |-> r.stage, image |-> r.image, secret |-> r.secret,
             queue |-> r.queue, done |-> r.done, failure |-> r.failure]
    BY DEF BoardInv, Shaped
  <2>2. node'[n] = [r EXCEPT !.queue = q]
    BY <1>0 DEF BoardInv, Shaped
  <2>3. r.stage = "floor"
    BY <1>0
  <2> HIDE DEF r
  <2>4. QED
    BY <2>1, <2>2, <2>3
<1>3. QED
  BY <1>0, <1>1, <1>2, FloorWorkIsOnTheBoard

(* A report the hub does not get is dropped, and the node goes on. *)
LEMMA UnreportedIsOnTheBoard ==
  ASSUME BoardInv, NEW n \in Node, NextProgram(n), UNCHANGED <<rows, attempts>>
  PROVE  BoardInv'
<1>1. ReportsAreOnTheBoard'
  BY ReportsStay DEF BoardInv
<1>2. QED
  BY <1>1, NextIsOnTheBoard DEF BoardInv

LEMMA PostLostIsOnTheBoard ==
  ASSUME BoardInv, NEW n \in Node, PostLost(n)
  PROVE  BoardInv'
<1>1. /\ node[n].stage = "evaluate" /\ Fails(n, "infra_error") /\ attempts' = attempts
      /\ \/ Accepts(node[n].secret, node[n].image) /\ Store(n)
         \/ UNCHANGED rows
  BY DEF PostLost, Posts
<1>2. rows \subseteq rows' /\ OfIdentities(rows')
  BY <1>1, StoreCovers DEF BoardInv
<1>3. QED
  BY <1>1, <1>2, FailureIsOnTheBoard DEF Failures

LEMMA WorkIsOnTheBoard ==
  ASSUME BoardInv, NEW n \in Node, Work(n)
  PROVE  BoardInv'
<1>1. CASE EvaluationFails(n)
  <2>1. /\ node[n].stage = "evaluate" /\ Fails(n, "crashed") /\ UNCHANGED <<rows, attempts>>
    BY <1>1 DEF EvaluationFails, hub
  <2>2. QED
    BY <2>1, FailureIsOnTheBoard DEF Failures, BoardInv
<1>2. CASE PostRefused(n)
  <2>1. /\ node[n].stage = "evaluate" /\ Fails(n, "infra_error")
        /\ UNCHANGED <<rows, attempts>>
    BY <1>2 DEF PostRefused, Posts, hub
  <2>2. QED
    BY <2>1, FailureIsOnTheBoard DEF Failures, BoardInv
<1>3. CASE ReportRefused(n)
  BY <1>3, UnreportedIsOnTheBoard DEF ReportRefused, hub
<1>4. CASE CheckCovered(n)
  BY <1>4, AddTodoIsOnTheBoard DEF CheckCovered, hub
<1>5. CASE PostFloorRefused(n) \/ FloorSucceeds(n)
  BY <1>5, RestartIsOnTheBoard DEF PostFloorRefused, FloorSucceeds, hub
<1>6. QED
  BY <1>1, <1>2, <1>3, <1>4, <1>5, GetConfigIsOnTheBoard, GetCandidatesIsOnTheBoard,
     PostIsOnTheBoard, ReportIsOnTheBoard, PostFloorIsOnTheBoard DEF Work

LEMMA EnvironmentIsOnTheBoard ==
  ASSUME BoardInv, NEW n \in Node, Environment(n)
  PROVE  BoardInv'
<1>1. CASE PullFails(n)
  <2>1. /\ node[n].stage = "evaluate" /\ Fails(n, "build_failed")
        /\ UNCHANGED <<rows, attempts>>
    BY <1>1 DEF PullFails, hub
  <2>2. QED
    BY <2>1, FailureIsOnTheBoard DEF Failures, BoardInv
<1>2. CASE ReportLost(n)
  BY <1>2, UnreportedIsOnTheBoard DEF ReportLost, hub
<1>3. CASE CheckCoveredLost(n)
  BY <1>3, AddTodoIsOnTheBoard DEF CheckCoveredLost, hub
<1>4. CASE HubUnreachable(n) \/ Kill(n)
  BY <1>4, RestartIsOnTheBoard DEF HubUnreachable, Kill, hub
<1>5. CASE FloorFails(n)
  BY <1>5, RestartIsOnTheBoard DEF FloorFails
<1>6. CASE Upgrade(n)
  BY <1>6, FreshIsOnTheBoard DEF Upgrade, hub
<1>7. QED
  BY <1>1, <1>2, <1>3, <1>4, <1>5, <1>6, PostLostIsOnTheBoard DEF Environment

LEMMA BoardInductive ==
  ASSUME BoardInv, [Next]_vars
  PROVE  BoardInv'
<1>1. CASE RotateSecret \/ BumpMajor \/ UNCHANGED vars
  <2>1. UNCHANGED <<rows, attempts, node>>
    BY <1>1 DEF RotateSecret, BumpMajor, vars, hub
  <2>2. Shaped' /\ \A n \in Node : Progress(n)'
    BY <2>1 DEF BoardInv, Shaped, Progress, Kept, On, This
  <2>3. QED
    BY <2>1, <2>2, ReportsStay DEF BoardInv
<1>2. CASE \E n \in Node : StartFloor(n) \/ Work(n) \/ Environment(n)
  BY <1>2, StartFloorIsOnTheBoard, WorkIsOnTheBoard, EnvironmentIsOnTheBoard
<1>3. QED
  BY <1>1, <1>2 DEF Next

(* What the attempts of the hub say is on its board: a program whose latest
   attempt in a scope succeeded is covered there on every identity, and any
   attempt found at least as many covered as it says are done, for any number of
   nodes that take the same programs, and whatever rotations, upgrades, kills and
   lost replies come between (worker/verify.py verify_program; hub/verify.py). *)
THEOREM ReportsAreTrue == Spec => []ReportsAreOnTheBoard
<1>1. BoardInv => ReportsAreOnTheBoard
  BY DEF BoardInv
<1>2. QED
  BY <1>1, InitBoard, BoardInductive, PTL DEF Spec

-----------------------------------------------------------------------------
(* TYPES *)

OfTheHub ==
  /\ secret \in Secret /\ major \in Major
  /\ rows \subseteq [program : Program, identity : Identity, secret : Secret,
                     major : Major, played : Secret \X Major]
  /\ floor \subseteq [identity : Identity, secret : Secret, major : Major,
                      played : Secret \X Major]
  /\ floor_runs \in 0..MaxFloorRuns
  /\ blips \in 0..MaxBlips

\* What the fields of a node's record r hold, which depends on its stage.
OfANode(r) ==
  /\ r.stage \in Stages
  /\ r.image \in Major
  /\ r.secret \in Secret \cup {None}
  /\ r.done \in 0..Len(Identities)
  /\ r.failure \in Failures \cup {None}
  /\ r.stage \in {"config", "candidates"} => r.queue = <<>> /\ r.done = 0
  /\ r.stage \in {"evaluate", "report"} =>
       r.queue \in Seq(Program) /\ r.queue # <<>> /\ Len(r.queue) <= Limit
  /\ r.stage = "todo" =>
       r.queue \in Seq(Identity) /\ Len(r.queue) <= r.done /\ r.done # Len(Identities)
  /\ r.stage = "floor" => r.queue \in Seq(Identity) /\ Len(r.queue) <= Len(Identities)

Typed == OfTheHub /\ \A n \in Node : OfANode(node[n])

\* Coverage orders the programs that are wanted, ties by program id.
LEMMA BeforeOrders ==
  ASSUME OfTheHub
  PROVE  /\ IsFiniteSet(Wanted) /\ Wanted \subseteq Program
         /\ \A p, q \in Program : p # q => Before(p, q) \/ Before(q, p)
         /\ \A p, q, r \in Program : Before(p, q) /\ Before(q, r) => Before(p, r)
         /\ \A p \in Program : ~Before(p, p)
<1> DEFINE c(p) == Cardinality(Covered(p))
<1>1. \A p \in Program : c(p) \in Nat
  <2>1. \A p \in Program : Covered(p) \subseteq Identity
    BY DEF OfTheHub, Covered, CoveredIn
  <2>2. QED
    BY <2>1, IdentitiesAreFinite, FS_Subset, FS_CardinalityType
<1>2. \A p, q \in Program : Before(p, q) <=> c(p) < c(q) \/ (c(p) = c(q) /\ Rank[p] < Rank[q])
  BY DEF Before
<1>3. \A p \in Program : Rank[p] \in Nat
  BY VerifiedAssumption
<1>4. \A p, q \in Program : Rank[p] = Rank[q] => p = q
  BY VerifiedAssumption DEF IsInjective
<1> HIDE DEF c
<1>5. \A p, q \in Program : p # q => Before(p, q) \/ Before(q, p)
  BY <1>1, <1>2, <1>3, <1>4
<1>6. \A p, q, r \in Program : Before(p, q) /\ Before(q, r) => Before(p, r)
  BY <1>1, <1>2, <1>3
<1>7. \A p \in Program : ~Before(p, p)
  BY <1>1, <1>2, <1>3
<1>8. Wanted \subseteq Program
  BY DEF Wanted
<1>9. IsFiniteSet(Wanted)
  BY <1>8, VerifiedAssumption, FS_Subset
<1>10. QED
  BY <1>5, <1>6, <1>7, <1>8, <1>9

\* So there is a sequence of them in that order: the place of a program is the
\* number of those before it, and as many places are taken as there are programs.
LEMMA WantedCanBeSorted ==
  ASSUME OfTheHub
  PROVE  \E q \in SetToSeqs(Wanted) : \A i, j \in DOMAIN q : i < j => Before(q[i], q[j])
<1> DEFINE N == Cardinality(Wanted)
           ahead(p) == {q \in Wanted : Before(q, p)}
           place == [p \in Wanted |-> Cardinality(ahead(p)) + 1]
<1>1. N \in Nat
  BY BeforeOrders, FS_CardinalityType
<1>2. ASSUME NEW p \in Wanted
      PROVE  /\ IsFiniteSet(ahead(p)) /\ Cardinality(ahead(p)) \in Nat
             /\ Cardinality(ahead(p)) < N
  <2>1. ahead(p) \subseteq Wanted /\ p \notin ahead(p)
    BY BeforeOrders
  <2>2. IsFiniteSet(ahead(p)) /\ Cardinality(ahead(p)) <= N /\ Cardinality(ahead(p)) # N
    BY <2>1, BeforeOrders, FS_Subset
  <2>3. Cardinality(ahead(p)) \in Nat
    BY <2>2, FS_CardinalityType
  <2> HIDE DEF ahead, N
  <2>4. QED
    BY <1>1, <2>2, <2>3
<1>3. ASSUME NEW p \in Wanted, NEW q \in Wanted, Before(p, q)
      PROVE  place[p] < place[q]
  <2>1. ahead(p) \subseteq ahead(q) /\ p \in ahead(q) /\ p \notin ahead(p)
    BY <1>3, BeforeOrders
  <2>2. /\ Cardinality(ahead(p)) <= Cardinality(ahead(q))
        /\ Cardinality(ahead(p)) # Cardinality(ahead(q))
    BY <1>2, <2>1, FS_Subset
  <2>3. Cardinality(ahead(p)) \in Nat /\ Cardinality(ahead(q)) \in Nat
    BY <1>2
  <2>4. place[p] = Cardinality(ahead(p)) + 1 /\ place[q] = Cardinality(ahead(q)) + 1
    OBVIOUS
  <2> HIDE DEF ahead, place
  <2>5. QED
    BY <2>2, <2>3, <2>4
<1>4. ASSUME NEW p \in Wanted
      PROVE  place[p] \in 1..N
  <2>1. place[p] = Cardinality(ahead(p)) + 1
    OBVIOUS
  <2> HIDE DEF ahead, place, N
  <2>2. QED
    BY <1>1, <1>2, <2>1
<1>5. \A p, q \in Wanted : place[p] = place[q] => p = q
  <2> SUFFICES ASSUME NEW p \in Wanted, NEW q \in Wanted, p # q
               PROVE  place[p] # place[q]
    OBVIOUS
  <2>1. Before(p, q) \/ Before(q, p)
    BY BeforeOrders
  <2>2. place[p] \in Int /\ place[q] \in Int
    BY <1>1, <1>4
  <2>3. place[p] < place[q] \/ place[q] < place[p]
    BY <1>3, <2>1
  <2> HIDE DEF place
  <2>4. QED
    BY <2>2, <2>3
<1>6. place \in Surjection(Wanted, 1..N)
  <2>1. place \in [Wanted -> 1..N]
    BY <1>4
  <2>2. place \in Injection(Wanted, 1..N)
    BY <1>5, <2>1 DEF Injection, IsInjective
  <2>3. IsFiniteSet(1..N) /\ Cardinality(1..N) = N
    BY <1>1, FS_Interval
  <2> HIDE DEF place
  <2>4. QED
    BY <2>2, <2>3, FS_Injection
<1> DEFINE s == [i \in 1..N |-> CHOOSE p \in Wanted : place[p] = i]
<1>7. \A i \in 1..N : s[i] \in Wanted /\ place[s[i]] = i
  <2> HIDE DEF place, N
  <2>1. \A i \in 1..N : \E p \in Wanted : place[p] = i
    BY <1>6 DEF Surjection
  <2>2. QED
    BY <2>1
<1> HIDE DEF place
<1>8. s \in [1..N -> Wanted] /\ DOMAIN s = 1..N
  BY <1>7
<1> HIDE DEF s
<1>9. \A i, j \in 1..N : i # j => s[i] # s[j]
  BY <1>7
<1>10. ASSUME NEW i \in 1..N, NEW j \in 1..N, i < j
       PROVE  Before(s[i], s[j])
  <2>1. s[i] \in Wanted /\ s[j] \in Wanted /\ place[s[i]] = i /\ place[s[j]] = j
    BY <1>7
  <2>2. s[i] # s[j]
    BY <1>10, <2>1
  <2>3. ~Before(s[j], s[i])
    BY <1>3, <1>1, <1>10, <2>1
  <2>4. QED
    BY <2>1, <2>2, <2>3, BeforeOrders
<1>11. s \in SetToSeqs(Wanted)
  BY <1>8, <1>9 DEF SetToSeqs
<1>12. QED
  BY <1>8, <1>10, <1>11

\* What the hub answers: as many of the wanted programs as the limit lets it.
LEMMA CandidatesFacts ==
  ASSUME OfTheHub
  PROVE  /\ Candidates \in Seq(Program) /\ Len(Candidates) <= Limit
         /\ \A i \in 1..Len(Candidates) : Candidates[i] \in Wanted
<1> DEFINE out == CHOOSE q \in SetToSeqs(Wanted) :
                    \A i, j \in DOMAIN q : i < j => Before(q[i], q[j])
           k == IF Len(out) > Limit THEN Limit ELSE Len(out)
<1>1. out \in SetToSeqs(Wanted)
  BY WantedCanBeSorted
<1>2. Candidates = SubSeq(out, 1, k)
  BY DEF Candidates
<1> HIDE DEF out
<1>3. Cardinality(Wanted) \in Nat /\ out \in [1..Cardinality(Wanted) -> Wanted]
  BY <1>1, BeforeOrders, FS_CardinalityType DEF SetToSeqs
<1>4. out \in Seq(Wanted) /\ Len(out) \in Nat
  BY <1>3
<1>5. k \in 0..Len(out) /\ k <= Limit
  BY <1>4, VerifiedAssumption
<1> HIDE DEF k
<1>6. /\ SubSeq(out, 1, k) \in Seq(Wanted) /\ Len(SubSeq(out, 1, k)) = k
      /\ \A i \in 1..k : SubSeq(out, 1, k)[i] = out[i]
  BY <1>4, <1>5
<1>7. Candidates \in Seq(Program)
  BY <1>2, <1>6, BeforeOrders
<1>8. QED
  BY <1>2, <1>4, <1>5, <1>6, <1>7

\* A step of node n leaves the others alone and it with a record of its fields.
Moves(n) ==
  /\ \A m \in Node \ {n} : node'[m] = node[m]
  /\ OfANode(node'[n])

LEMMA FreshIsTyped ==
  ASSUME BoardInv, NEW n \in Node, NEW i \in Major, node' = [node EXCEPT ![n] = Fresh(i)]
  PROVE  Moves(n)
<1>1. node'[n] = Fresh(i) /\ \A m \in Node \ {n} : node'[m] = node[m]
  BY DEF BoardInv, Shaped
<1>2. OfANode(Fresh(i))
  BY IdentitiesAreFinite DEF OfANode, Fresh, Stages
<1>3. QED
  BY <1>1, <1>2 DEF Moves

LEMMA NewPassIsTyped ==
  ASSUME BoardInv, Typed, NEW n \in Node, NewPass(n)
  PROVE  Moves(n)
BY FreshIsTyped DEF NewPass, Typed, OfANode

LEMMA NextProgramIsTyped ==
  ASSUME BoardInv, Typed, NEW n \in Node, node[n].stage = "report", NextProgram(n)
  PROVE  Moves(n)
<1> DEFINE r == node[n]
           q == Tail(node[n].queue)
<1>1. CASE NewPass(n)
  BY <1>1, NewPassIsTyped
<1>2. CASE /\ q # <<>>
           /\ node' = [node EXCEPT ![n].stage = "evaluate", ![n].queue = q,
                                   ![n].done = 0, ![n].failure = None]
  <2>1. OfANode(r) /\ r.stage = "report"
    BY DEF Typed
  <2>2. r.queue \in Seq(Program) /\ r.queue # <<>> /\ Len(r.queue) <= Limit
    BY <2>1 DEF OfANode
  <2>3. q \in Seq(Program) /\ Len(q) <= Limit
    BY <2>2, VerifiedAssumption
  <2>4. r = [stage |-> r.stage, image |-> r.image, secret |-> r.secret,
             queue |-> r.queue, done |-> r.done, failure |-> r.failure]
    BY DEF BoardInv, Shaped
  <2> HIDE DEF q
  <2>5. /\ \A m \in Node \ {n} : node'[m] = node[m]
        /\ node'[n] = [r EXCEPT !.stage = "evaluate", !.queue = q, !.done = 0, !.failure = None]
    BY <1>2 DEF BoardInv, Shaped
  <2> HIDE DEF r
  <2>6. /\ node'[n].stage = "evaluate" /\ node'[n].image = r.image
        /\ node'[n].secret = r.secret /\ node'[n].queue = q
        /\ node'[n].done = 0 /\ node'[n].failure = None
    BY <2>4, <2>5
  <2>7. OfANode(node'[n])
    BY <1>2, <2>1, <2>3, <2>6, IdentitiesAreFinite DEF OfANode, Stages
  <2>8. QED
    BY <2>5, <2>7 DEF Moves
<1>3. QED
  BY <1>1, <1>2 DEF NextProgram

LEMMA FailureIsTyped ==
  ASSUME BoardInv, Typed, NEW n \in Node, node[n].stage = "evaluate", NEW f \in Failures,
         Fails(n, f)
  PROVE  Moves(n)
<1> DEFINE r == node[n]
<1>1. OfANode(r) /\ r.stage = "evaluate"
  BY DEF Typed
<1>2. r = [stage |-> r.stage, image |-> r.image, secret |-> r.secret,
           queue |-> r.queue, done |-> r.done, failure |-> r.failure]
  BY DEF BoardInv, Shaped
<1>3. /\ \A m \in Node \ {n} : node'[m] = node[m]
      /\ node'[n] = [r EXCEPT !.stage = "report", !.failure = f]
  BY DEF BoardInv, Shaped, Fails
<1> HIDE DEF r
<1>4. /\ node'[n].stage = "report" /\ node'[n].image = r.image
      /\ node'[n].secret = r.secret /\ node'[n].queue = r.queue
      /\ node'[n].done = r.done /\ node'[n].failure = f
  BY <1>2, <1>3
<1>5. OfANode(node'[n])
  BY <1>1, <1>4 DEF OfANode, Stages
<1>6. QED
  BY <1>3, <1>5 DEF Moves

LEMMA AdvanceIsTyped ==
  ASSUME BoardInv, Typed, NEW n \in Node, node[n].stage = "evaluate", Advance(n)
  PROVE  Moves(n)
<1> DEFINE r == node[n]
           d == node[n].done + 1
           st == IF d = Len(Identities) THEN "report" ELSE "evaluate"
<1>1. OfANode(r) /\ r.stage = "evaluate" /\ r.done # Len(Identities)
  BY DEF Typed, BoardInv, Progress
<1>2. r = [stage |-> r.stage, image |-> r.image, secret |-> r.secret,
           queue |-> r.queue, done |-> r.done, failure |-> r.failure]
  BY DEF BoardInv, Shaped
<1>3. d \in 0..Len(Identities) /\ st \in {"report", "evaluate"}
  BY <1>1, IdentitiesAreFinite DEF OfANode
<1>4. node' = [node EXCEPT ![n].done = d, ![n].stage = st]
  BY DEF Advance
<1> HIDE DEF d, st
<1>5. /\ \A m \in Node \ {n} : node'[m] = node[m]
      /\ node'[n] = [r EXCEPT !.done = d, !.stage = st]
  BY <1>4 DEF BoardInv, Shaped
<1> HIDE DEF r
<1>6. /\ node'[n].stage = st /\ node'[n].image = r.image
      /\ node'[n].secret = r.secret /\ node'[n].queue = r.queue
      /\ node'[n].done = d /\ node'[n].failure = r.failure
  BY <1>2, <1>5
<1>7. OfANode(node'[n])
  BY <1>1, <1>3, <1>6 DEF OfANode, Stages
<1>8. QED
  BY <1>5, <1>7 DEF Moves

\* A node fetches the configuration, to go for candidates or for the floor.
LEMMA ConfigIsTyped ==
  ASSUME BoardInv, Typed, NEW n \in Node, GetConfig(n) \/ StartFloor(n)
  PROVE  Moves(n)
<1> DEFINE r == node[n]
           s == secret
<1>0. PICK st \in {"candidates", "todo"} :
        node' = [node EXCEPT ![n].stage = st, ![n].secret = secret]
  BY DEF GetConfig, StartFloor
<1>1. OfANode(r) /\ r.stage = "config" /\ s \in Secret
  BY DEF Typed, OfTheHub, GetConfig, StartFloor
<1>2. r = [stage |-> r.stage, image |-> r.image, secret |-> r.secret,
           queue |-> r.queue, done |-> r.done, failure |-> r.failure]
  BY DEF BoardInv, Shaped
<1>3. /\ \A m \in Node \ {n} : node'[m] = node[m]
      /\ node'[n] = [r EXCEPT !.stage = st, !.secret = s]
  BY <1>0 DEF BoardInv, Shaped
<1> HIDE DEF r, s
<1>4. /\ node'[n].stage = st /\ node'[n].image = r.image
      /\ node'[n].secret = s /\ node'[n].queue = r.queue
      /\ node'[n].done = r.done /\ node'[n].failure = r.failure
  BY <1>2, <1>3
<1>5. r.queue = <<>> /\ r.done = 0 /\ Len(Identities) \in Nat \ {0}
  BY <1>1, IdentitiesAreFinite DEF OfANode
<1>6. <<>> \in Seq(Identity) /\ Len(<<>>) = 0
  OBVIOUS
<1>7. OfANode(node'[n])
  <2>1. CASE st = "candidates"
    BY <1>1, <1>4, <1>5, <2>1 DEF OfANode, Stages
  <2>2. CASE st = "todo"
    <3>1. Len(Identities) # 0 /\ Len(r.queue) <= r.done /\ r.queue \in Seq(Identity)
      BY <1>5, <1>6
    <3>2. QED
      BY <1>1, <1>4, <1>5, <2>2, <3>1 DEF OfANode, Stages
  <2>3. QED
    BY <2>1, <2>2
<1>8. QED
  BY <1>3, <1>7 DEF Moves

LEMMA CandidatesAreTyped ==
  ASSUME BoardInv, Typed, NEW n \in Node, GetCandidates(n)
  PROVE  Moves(n)
<1> DEFINE r == node[n]
           q == Candidates
<1>1. CASE NewPass(n)
  BY <1>1, NewPassIsTyped
<1>2. CASE q # <<>> /\ node' = [node EXCEPT ![n].stage = "evaluate", ![n].queue = q]
  <2>1. OfANode(r)
    BY DEF Typed
  <2>2. r = [stage |-> r.stage, image |-> r.image, secret |-> r.secret,
             queue |-> r.queue, done |-> r.done, failure |-> r.failure]
    BY DEF BoardInv, Shaped
  <2>3. q \in Seq(Program) /\ Len(q) <= Limit
    BY CandidatesFacts DEF Typed
  <2> HIDE DEF q
  <2>4. /\ \A m \in Node \ {n} : node'[m] = node[m]
        /\ node'[n] = [r EXCEPT !.stage = "evaluate", !.queue = q]
    BY <1>2 DEF BoardInv, Shaped
  <2> HIDE DEF r
  <2>5. /\ node'[n].stage = "evaluate" /\ node'[n].image = r.image
        /\ node'[n].secret = r.secret /\ node'[n].queue = q
        /\ node'[n].done = r.done /\ node'[n].failure = r.failure
    BY <2>2, <2>4
  <2>6. OfANode(node'[n])
    BY <1>2, <2>1, <2>3, <2>5 DEF OfANode, Stages
  <2>7. QED
    BY <2>4, <2>6 DEF Moves
<1>3. QED
  BY <1>1, <1>2 DEF GetCandidates

LEMMA AddTodoIsTyped ==
  ASSUME BoardInv, Typed, NEW n \in Node, node[n].stage = "todo", NEW wanted,
         AddTodo(n, wanted)
  PROVE  Moves(n)
<1> DEFINE r == node[n]
           d == node[n].done + 1
           q == IF wanted THEN Append(node[n].queue, Current(n)) ELSE node[n].queue
           st == IF d = Len(Identities) THEN "floor" ELSE "todo"
<1>1. OfANode(r) /\ r.stage = "todo"
  BY DEF Typed
<1>2. r = [stage |-> r.stage, image |-> r.image, secret |-> r.secret,
           queue |-> r.queue, done |-> r.done, failure |-> r.failure]
  BY DEF BoardInv, Shaped
<1>3. /\ r.queue \in Seq(Identity) /\ Len(r.queue) <= r.done
      /\ r.done \in 0..Len(Identities) /\ r.done # Len(Identities)
  BY <1>1 DEF OfANode
<1>4. Current(n) \in Identity
  <2>1. r.done + 1 \in 1..Len(Identities)
    BY <1>3, IdentitiesAreFinite
  <2>2. QED
    BY <2>1, IdentitiesAreFinite DEF Current
<1>5. d = r.done + 1
  OBVIOUS
<1>6. q \in Seq(Identity) /\ Len(q) <= d
  <2>1. Append(r.queue, Current(n)) \in Seq(Identity)
        /\ Len(Append(r.queue, Current(n))) = Len(r.queue) + 1 /\ Len(r.queue) \in Nat
    BY <1>3, <1>4
  <2>2. q = Append(r.queue, Current(n)) \/ q = r.queue
    OBVIOUS
  <2>3. r.done \in Nat
    BY <1>3, IdentitiesAreFinite
  <2> DEFINE a == Append(r.queue, Current(n))
             b == r.queue
  <2>4. CASE q = a
    <3>1. Len(a) = Len(b) + 1 /\ Len(b) \in Nat /\ a \in Seq(Identity) /\ Len(b) <= r.done
      BY <1>3, <2>1
    <3> HIDE DEF a, b, q, d, r
    <3>2. QED
      BY <1>5, <2>3, <2>4, <3>1
  <2>5. CASE q = b
    <3>1. Len(b) \in Nat /\ b \in Seq(Identity) /\ Len(b) <= r.done
      BY <1>3, <2>1
    <3> HIDE DEF b, q, d, r
    <3>2. QED
      BY <1>5, <2>3, <2>5, <3>1
  <2>6. QED
    BY <2>2, <2>4, <2>5
<1>7. d \in 0..Len(Identities) /\ Len(Identities) \in Nat
  BY <1>3, IdentitiesAreFinite
<1> HIDE DEF d
<1>8. \/ st = "floor" /\ d = Len(Identities)
      \/ st = "todo" /\ d # Len(Identities)
  OBVIOUS
<1>9. node' = [node EXCEPT ![n].done = d, ![n].queue = q, ![n].stage = st]
  BY DEF AddTodo, d
<1> HIDE DEF q, st
<1>10. /\ \A m \in Node \ {n} : node'[m] = node[m]
       /\ node'[n] = [r EXCEPT !.done = d, !.queue = q, !.stage = st]
  BY <1>9 DEF BoardInv, Shaped
<1> HIDE DEF r
<1>11. /\ node'[n].stage = st /\ node'[n].image = r.image
       /\ node'[n].secret = r.secret /\ node'[n].queue = q
       /\ node'[n].done = d /\ node'[n].failure = r.failure
  BY <1>2, <1>10
<1>12. OfANode(node'[n])
  BY <1>1, <1>6, <1>7, <1>8, <1>11 DEF OfANode, Stages
<1>13. QED
  BY <1>10, <1>12 DEF Moves

LEMMA PostFloorIsTyped ==
  ASSUME BoardInv, Typed, NEW n \in Node, PostFloor(n)
  PROVE  Moves(n)
<1> DEFINE r == node[n]
           q == Tail(node[n].queue)
<1>1. OfANode(r) /\ r.stage = "floor" /\ r.queue # <<>>
  BY DEF Typed, PostFloor, FloorDue
<1>2. r = [stage |-> r.stage, image |-> r.image, secret |-> r.secret,
           queue |-> r.queue, done |-> r.done, failure |-> r.failure]
  BY DEF BoardInv, Shaped
<1>3. r.queue \in Seq(Identity) /\ Len(r.queue) <= Len(Identities)
  BY <1>1 DEF OfANode
<1>4. q \in Seq(Identity) /\ Len(q) <= Len(Identities)
  BY <1>1, <1>3, IdentitiesAreFinite
<1>5. node' = [node EXCEPT ![n].queue = q]
  BY DEF PostFloor
<1> HIDE DEF q
<1>6. /\ \A m \in Node \ {n} : node'[m] = node[m]
      /\ node'[n] = [r EXCEPT !.queue = q]
  BY <1>5 DEF BoardInv, Shaped
<1> HIDE DEF r
<1>7. /\ node'[n].stage = r.stage /\ node'[n].image = r.image
      /\ node'[n].secret = r.secret /\ node'[n].queue = q
      /\ node'[n].done = r.done /\ node'[n].failure = r.failure
  BY <1>2, <1>6
<1>8. OfANode(node'[n])
  BY <1>1, <1>4, <1>7 DEF OfANode, Stages
<1>9. QED
  BY <1>6, <1>8 DEF Moves

LEMMA NodesAreTyped ==
  ASSUME BoardInv, Typed, NEW n \in Node, StartFloor(n) \/ Work(n) \/ Environment(n)
  PROVE  Moves(n)
<1>1. CASE StartFloor(n) \/ GetConfig(n)
  BY <1>1, ConfigIsTyped
<1>2. CASE EvaluationFails(n) \/ PostRefused(n) \/ PullFails(n) \/ PostLost(n)
  <2>1. node[n].stage = "evaluate" /\ \E f \in Failures : Fails(n, f)
    BY <1>2 DEF EvaluationFails, PostRefused, PullFails, PostLost, Posts, Failures
  <2>2. QED
    BY <2>1, FailureIsTyped
<1>3. CASE Post(n)
  BY <1>3, AdvanceIsTyped DEF Post, Posts
<1>4. CASE Report(n) \/ ReportRefused(n) \/ ReportLost(n)
  BY <1>4, NextProgramIsTyped DEF Report, ReportRefused, ReportLost
<1>5. CASE CheckCovered(n) \/ CheckCoveredLost(n)
  BY <1>5, AddTodoIsTyped DEF CheckCovered, CheckCoveredLost
<1>6. CASE PostFloorRefused(n) \/ FloorSucceeds(n) \/ HubUnreachable(n) \/ FloorFails(n)
           \/ Kill(n)
  BY <1>6, NewPassIsTyped DEF PostFloorRefused, FloorSucceeds, HubUnreachable, FloorFails, Kill
<1>7. CASE Upgrade(n)
  <2>1. node[n].image \in Major /\ node[n].image < MaxMajor
    BY <1>7 DEF Upgrade, Typed, OfANode
  <2>2. node[n].image + 1 \in Major
    BY <2>1, VerifiedAssumption DEF Major
  <2>3. QED
    BY <1>7, <2>2, FreshIsTyped DEF Upgrade
<1>8. QED
  BY <1>1, <1>2, <1>3, <1>4, <1>5, <1>6, <1>7, CandidatesAreTyped, PostFloorIsTyped
     DEF Work, Environment

\* What a node stores is a row.
LEMMA StoredRowsAreTyped ==
  ASSUME BoardInv, Typed, NEW n \in Node, node[n].stage = "evaluate",
         Accepts(node[n].secret, node[n].image), Store(n)
  PROVE  rows' \subseteq [program : Program, identity : Identity, secret : Secret,
                          major : Major, played : Secret \X Major]
<1> DEFINE p == This(n)
           i == Current(n)
           s == node[n].secret
           m == node[n].image
           new == [program |-> p, identity |-> i, secret |-> s, major |-> major,
                   played |-> <<s, m>>]
<1>1. p \in Program
  <2>1. node[n].queue \in Seq(Program) /\ node[n].queue # <<>>
    BY DEF Typed, OfANode
  <2>2. QED
    BY <2>1 DEF This
<1>2. i \in Identity
  <2>1. node[n].done + 1 \in 1..Len(Identities)
    BY IdentitiesAreFinite DEF BoardInv, Progress
  <2>2. QED
    BY <2>1, IdentitiesAreFinite DEF Current
<1>3. s \in Secret /\ m \in Major /\ major \in Major
  BY DEF Accepts, Typed, OfTheHub, OfANode
<1>4. rows' = rows \/ rows' = rows \cup {new}
  BY DEF Store, RowsWith
<1> HIDE DEF p, i, s, m
<1>5. new \in [program : Program, identity : Identity, secret : Secret,
               major : Major, played : Secret \X Major]
  BY <1>1, <1>2, <1>3
<1>6. QED
  BY <1>4, <1>5 DEF Typed, OfTheHub

LEMMA StoredFloorIsTyped ==
  ASSUME BoardInv, Typed, NEW n \in Node, FloorDue(n),
         Accepts(node[n].secret, node[n].image), StoreFloor(n)
  PROVE  floor' \subseteq [identity : Identity, secret : Secret, major : Major,
                           played : Secret \X Major]
<1> DEFINE i == Head(node[n].queue)
           s == node[n].secret
           m == node[n].image
           new == [identity |-> i, secret |-> s, major |-> major, played |-> <<s, m>>]
<1>1. i \in Identity
  <2>1. node[n].queue \in Seq(Identity) /\ node[n].queue # <<>>
    BY DEF FloorDue, Typed, OfANode
  <2>2. QED
    BY <2>1
<1>2. s \in Secret /\ m \in Major /\ major \in Major
  BY DEF Accepts, Typed, OfTheHub, OfANode
<1>3. floor' = floor \/ floor' = floor \cup {new}
  BY DEF StoreFloor
<1> HIDE DEF i, s, m
<1>4. new \in [identity : Identity, secret : Secret, major : Major,
               played : Secret \X Major]
  BY <1>1, <1>2
<1>5. QED
  BY <1>3, <1>4 DEF Typed, OfTheHub

LEMMA HubIsTyped ==
  ASSUME BoardInv, Typed, [Next]_vars
  PROVE  OfTheHub'
<1>1. secret' \in Secret /\ major' \in Major
  <2>1. \/ UNCHANGED <<secret, major>>
        \/ secret < MaxSecret /\ secret' = secret + 1 /\ major' = major
        \/ major < MaxMajor /\ major' = major + 1 /\ secret' = secret
    BY DEF Next, RotateSecret, BumpMajor, StartFloor, Work, Environment, GetConfig,
           GetCandidates, EvaluationFails, Post, PostRefused, Report, ReportRefused,
           CheckCovered, PostFloor, PostFloorRefused, FloorSucceeds, HubUnreachable,
           PullFails, PostLost, ReportLost, CheckCoveredLost, FloorFails, Upgrade, Kill,
           vars, hub
  <2>2. QED
    BY <2>1, VerifiedAssumption DEF Typed, OfTheHub, Secret, Major
<1>2. rows' \subseteq [program : Program, identity : Identity, secret : Secret,
                       major : Major, played : Secret \X Major]
  <2>1. \/ UNCHANGED rows
        \/ \E n \in Node : /\ node[n].stage = "evaluate"
                           /\ Accepts(node[n].secret, node[n].image) /\ Store(n)
    BY DEF Next, RotateSecret, BumpMajor, StartFloor, Work, Environment, GetConfig,
           GetCandidates, EvaluationFails, Post, PostRefused, Report, ReportRefused,
           CheckCovered, PostFloor, PostFloorRefused, FloorSucceeds, HubUnreachable,
           PullFails, PostLost, ReportLost, CheckCoveredLost, FloorFails, Upgrade, Kill,
           Posts, vars, hub
  <2>2. QED
    BY <2>1, StoredRowsAreTyped DEF Typed, OfTheHub
<1>3. floor' \subseteq [identity : Identity, secret : Secret, major : Major,
                        played : Secret \X Major]
  <2>1. \/ UNCHANGED floor
        \/ \E n \in Node : /\ FloorDue(n)
                           /\ Accepts(node[n].secret, node[n].image) /\ StoreFloor(n)
    BY DEF Next, RotateSecret, BumpMajor, StartFloor, Work, Environment, GetConfig,
           GetCandidates, EvaluationFails, Post, PostRefused, Report, ReportRefused,
           CheckCovered, PostFloor, PostFloorRefused, FloorSucceeds, HubUnreachable,
           PullFails, PostLost, ReportLost, CheckCoveredLost, FloorFails, Upgrade, Kill,
           vars, hub
  <2>2. QED
    BY <2>1, StoredFloorIsTyped DEF Typed, OfTheHub
<1>4. floor_runs' \in 0..MaxFloorRuns
  <2>1. UNCHANGED floor_runs \/ (floor_runs < MaxFloorRuns /\ floor_runs' = floor_runs + 1)
    BY DEF Next, RotateSecret, BumpMajor, StartFloor, Work, Environment, vars
  <2>2. QED
    BY <2>1, VerifiedAssumption DEF Typed, OfTheHub
<1>5. blips' \in 0..MaxBlips
  <2>1. UNCHANGED blips \/ Blip
    BY DEF Next, RotateSecret, BumpMajor, StartFloor, Work, Environment, GetConfig,
           GetCandidates, EvaluationFails, Post, PostRefused, Report, ReportRefused,
           CheckCovered, PostFloor, PostFloorRefused, FloorSucceeds, HubUnreachable,
           PullFails, PostLost, ReportLost, CheckCoveredLost, FloorFails, Upgrade, Kill,
           vars
  <2>2. QED
    BY <2>1, VerifiedAssumption DEF Blip, Typed, OfTheHub
<1>6. QED
  BY <1>1, <1>2, <1>3, <1>4, <1>5 DEF OfTheHub

LEMMA TypedInductive ==
  ASSUME BoardInv, Typed, [Next]_vars
  PROVE  Typed'
<1>1. CASE RotateSecret \/ BumpMajor \/ UNCHANGED vars
  <2>1. UNCHANGED node
    BY <1>1 DEF RotateSecret, BumpMajor, vars
  <2>2. QED
    BY <2>1, HubIsTyped DEF Typed
<1>2. CASE \E n \in Node : StartFloor(n) \/ Work(n) \/ Environment(n)
  <2>1. PICK n \in Node : Moves(n)
    BY <1>2, NodesAreTyped
  <2>2. \A m \in Node : OfANode(node'[m])
    BY <2>1 DEF Moves, Typed
  <2>3. QED
    BY <2>2, HubIsTyped DEF Typed
<1>3. QED
  BY <1>1, <1>2 DEF Next

LEMMA InitTyped == Init => Typed
<1> SUFFICES ASSUME Init
             PROVE  Typed
  OBVIOUS
<1>1. OfTheHub
  BY VerifiedAssumption DEF Init, OfTheHub, Secret, Major
<1>2. OfANode(Fresh(1))
  BY VerifiedAssumption, IdentitiesAreFinite DEF OfANode, Fresh, Stages, Major
<1>3. QED
  BY <1>1, <1>2 DEF Init, Typed

(* The hub's tables and the nodes hold what they should, for any number of nodes,
   programs, identities and changes: what a node has in hand is programs in a pass,
   never more than the limit, and identities while it computes the floor
   (worker/server.py main, worker/verify.py, hub/verify.py). *)
THEOREM TypeCorrect == Spec => []TypeOK
<1>1. BoardInv /\ Typed => TypeOK
  <2> SUFFICES ASSUME BoardInv, Typed
               PROVE  TypeOK
    OBVIOUS
  <2>1. ASSUME NEW n \in Node
        PROVE  /\ node[n].stage \in Stages
               /\ node[n].image \in Major
               /\ node[n].secret \in Secret \cup {None}
               /\ \/ node[n].queue \in Seq(Program) /\ Len(node[n].queue) <= Limit
                  \/ node[n].queue \in Seq(Identity) /\ Len(node[n].queue) <= Len(Identities)
               /\ node[n].done \in 0..Len(Identities)
               /\ node[n].failure \in Failures \cup {None}
    <3> DEFINE r == node[n]
    <3>1. OfANode(r)
      BY DEF Typed
    <3> HIDE DEF r
    <3>2. r.done \in Nat /\ r.done <= Len(Identities) /\ Len(Identities) \in Nat
      BY <3>1, IdentitiesAreFinite DEF OfANode
    <3>3. CASE r.stage \in {"config", "candidates"}
      <4>1. r.queue = <<>>
        BY <3>1, <3>3 DEF OfANode
      <4>2. r.queue \in Seq(Program) /\ Len(r.queue) <= Limit
        BY <4>1, VerifiedAssumption
      <4>3. QED
        BY <3>1, <4>2 DEF OfANode, r
    <3>4. CASE r.stage \in {"evaluate", "report"}
      BY <3>1, <3>4 DEF OfANode, r
    <3>5. CASE r.stage = "todo"
      <4>1. r.queue \in Seq(Identity) /\ Len(r.queue) <= r.done
        BY <3>1, <3>5 DEF OfANode
      <4>2. Len(r.queue) <= Len(Identities)
        BY <3>2, <4>1
      <4>3. QED
        BY <3>1, <4>1, <4>2 DEF OfANode, r
    <3>6. CASE r.stage = "floor"
      BY <3>1, <3>6 DEF OfANode, r
    <3>7. QED
      BY <3>1, <3>3, <3>4, <3>5, <3>6 DEF OfANode, Stages
  <2>2. QED
    BY <2>1 DEF TypeOK, BoardInv, Typed, OfTheHub
<1>2. QED
  BY <1>1, InitBoard, BoardInductive, InitTyped, TypedInductive, PTL DEF Spec
=============================================================================

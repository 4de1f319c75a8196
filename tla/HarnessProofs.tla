----------------------------- MODULE HarnessProofs -----------------------------
(***************************************************************************)
(* Proofs about what the evolve loop keeps and what it scores with.  First  *)
(* the archive under any client, for every identity set, program set and    *)
(* score range; then one evaluation, for any batch, pipes, machine and      *)
(* request, and whatever the bots do.                                       *)
(***************************************************************************)
EXTENDS ArchiveSpec, EvalBatch, TLAPS

-----------------------------------------------------------------------------
(* THE ARCHIVE *)

(* ArchiveInv adds to the properties the one fact they need: a union elite
   exists only for an objective of several identities. *)
UnionCellOnlyForSets == union # NoCell => Cardinality(Identity) > 1

ArchiveInv ==
  /\ TypeOK
  /\ UnionCellOnlyForSets
  /\ HoldsTheBest
  /\ NoEliteDominated

-----------------------------------------------------------------------------
(* Evidence is a function from some identities to integer scores. *)
LEMMA EvidenceFacts ==
  ASSUME NEW ev \in Evidence
  PROVE  /\ DOMAIN ev \subseteq Identity
         /\ \A i \in DOMAIN ev : ev[i] \in Int
         /\ Identity \subseteq DOMAIN ev => ev \in FullEvidence
<1>1. PICK D \in (SUBSET Identity) \ {{}} : ev \in [D -> Score]
  BY DEF Evidence
<1>2. DOMAIN ev = D
  BY <1>1
<1>3. \A i \in D : ev[i] \in Int
  BY <1>1, ConstantsAssumption
<1>4. Identity \subseteq DOMAIN ev => D = Identity
  BY <1>2
<1>5. QED
  BY <1>1, <1>2, <1>3, <1>4 DEF FullEvidence

(* Evidence over every identity is evidence. *)
LEMMA FullIsEvidence ==
  ASSUME NEW ev \in FullEvidence
  PROVE  DOMAIN ev = Identity /\ \A i \in Identity : ev[i] \in Int
BY ConstantsAssumption DEF FullEvidence

(* insert keeps the types of the archive. *)
LEMMA InsertType ==
  ASSUME ArchiveTypeOK, NEW d \in Digest, NEW ev \in Evidence, insert(d, ev)
  PROVE  ArchiveTypeOK'
<1> DEFINE elite == [digest |-> d, dev_evidence |-> ev]
<1>1. elite \in Elite
  BY DEF Elite
<1>2. cells' \in [Identity -> Elite \cup {NoCell}]
  BY <1>1 DEF ArchiveTypeOK, insert
<1>3. ASSUME NEW i \in Identity, cells'[i] # NoCell
      PROVE  i \in DOMAIN cells'[i].dev_evidence
  <2>1. CASE i \in Takes(d, ev)
    <3>1. cells'[i] = elite
      BY <2>1 DEF insert
    <3>2. i \in DOMAIN ev
      BY <2>1 DEF Takes, Improves, Ties, Covers
    <3>3. QED
      BY <3>1, <3>2
  <2>2. CASE i \notin Takes(d, ev)
    BY <2>2, <1>3 DEF insert, ArchiveTypeOK
  <2>3. QED
    BY <2>1, <2>2
<1>4. union' \in [digest : Digest, dev_evidence : FullEvidence] \cup {NoCell}
  <2>1. CASE ImprovesUnion(ev)
    BY <2>1, EvidenceFacts DEF insert, ImprovesUnion
  <2>2. CASE ~ImprovesUnion(ev)
    BY <2>2 DEF insert, ArchiveTypeOK
  <2>3. QED
    BY <2>1, <2>2
<1>5. QED
  BY <1>2, <1>3, <1>4 DEF ArchiveTypeOK

(* Type correctness of the archive under any client. *)
THEOREM ArchiveTyped == OfferSpec => []TypeOK
<1>1. OfferInit => TypeOK
  BY DEF OfferInit, ArchiveInit, TypeOK, ArchiveTypeOK
<1>2. TypeOK /\ [OfferNext]_offerVars => TypeOK'
  <2> SUFFICES ASSUME TypeOK, [OfferNext]_offerVars
               PROVE  TypeOK'
    OBVIOUS
  <2>1. ASSUME NEW d \in Digest, NEW ev \in Evidence, Insert(d, ev)
        PROVE  TypeOK'
    <3>1. ArchiveTypeOK'
      BY <2>1, InsertType DEF TypeOK, Insert
    <3>2. offered' \subseteq Elite
      BY <2>1 DEF TypeOK, Insert, Offer, Elite
    <3>3. QED
      BY <3>1, <3>2 DEF TypeOK
  <2>2. CASE UNCHANGED offerVars
    BY <2>2 DEF offerVars, TypeOK, ArchiveTypeOK
  <2>3. QED
    BY <2>1, <2>2 DEF OfferNext
<1>3. QED
  BY <1>1, <1>2, PTL DEF OfferSpec

-----------------------------------------------------------------------------
(* Each cell holds the best program inserted for it, no elite is dominated by
   another, and a union elite needs several identities: the invariant that
   carries both results. *)

\* A program that takes a cell on a tie or a gain improved something.
LEMMA TakerImproves ==
  ASSUME ArchiveTypeOK, NEW d \in Digest, NEW ev \in Evidence,
         \/ Takes(d, ev) # {}
         \/ ImprovesUnion(ev)
  PROVE  \/ \E k \in Identity : Improves(ev, k)
         \/ ImprovesUnion(ev)
BY DEF Takes, Improved

\* What an insertion does to the elites.
LEMMA ElitesAfterInsert ==
  ASSUME ArchiveTypeOK, NEW d \in Digest, NEW ev \in Evidence, insert(d, ev)
  PROVE  \A a \in Elites' :
           \/ /\ a = Offer(d, ev)
              /\ \/ \E k \in Identity : Improves(ev, k)
                 \/ ImprovesUnion(ev)
           \/ \E i \in Identity : cells[i] = a /\ i \notin Takes(d, ev) /\ a \in Elites
           \/ union = a /\ ~ImprovesUnion(ev) /\ a \in Elites
<1> SUFFICES ASSUME NEW a \in Elites'
             PROVE  \/ /\ a = Offer(d, ev)
                       /\ \/ \E k \in Identity : Improves(ev, k)
                          \/ ImprovesUnion(ev)
                    \/ \E i \in Identity :
                         cells[i] = a /\ i \notin Takes(d, ev) /\ a \in Elites
                    \/ union = a /\ ~ImprovesUnion(ev) /\ a \in Elites
  OBVIOUS
<1>1. ASSUME NEW i \in Identity, a = cells'[i], i \in Takes(d, ev)
      PROVE  /\ a = Offer(d, ev)
             /\ \/ \E k \in Identity : Improves(ev, k)
                \/ ImprovesUnion(ev)
  BY <1>1, TakerImproves DEF insert, Offer
<1>2. ASSUME NEW i \in Identity, a = cells'[i], i \notin Takes(d, ev)
      PROVE  cells[i] = a /\ i \notin Takes(d, ev) /\ a \in Elites
  BY <1>2 DEF insert, Elites
<1>3. CASE a = union' /\ ImprovesUnion(ev)
  BY <1>3 DEF insert, Offer
<1>4. CASE a = union' /\ ~ImprovesUnion(ev)
  BY <1>4 DEF insert, Elites
<1>5. QED
  BY <1>1, <1>2, <1>3, <1>4 DEF Elites

\* insert is a running maximum on every cell.
LEMMA InsertKeepsBest ==
  ASSUME TypeOK, UnionCellOnlyForSets, HoldsTheBest,
         NEW d \in Digest, NEW ev \in Evidence, Insert(d, ev)
  PROVE  HoldsTheBest'
<1>0. insert(d, ev) /\ offered' = offered \cup {Offer(d, ev)} /\ ArchiveTypeOK
  BY DEF Insert, TypeOK
<1>1. (Elites \subseteq offered)'
  BY <1>0, ElitesAfterInsert DEF HoldsTheBest
<1>2. ASSUME NEW i \in Identity
      PROVE  BestOn(i)'
  <2> SUFFICES ASSUME NEW o \in offered', Covers(o.dev_evidence, i)
               PROVE  cells'[i] # NoCell /\ ScoreAt(i)' >= o.dev_evidence[i]
    BY DEF BestOn, Covers
  <2>1. o = Offer(d, ev) \/ o \in offered
    BY <1>0
  <2>2. o \in Elite /\ Offer(d, ev) \in Elite
    BY <2>1 DEF TypeOK, Elite, Offer
  <2>3. o.dev_evidence \in Evidence /\ o.dev_evidence[i] \in Int
    BY <2>2, EvidenceFacts DEF Elite, Covers
  <2>4. CASE i \in Takes(d, ev)
    <3>1. /\ cells'[i] = Offer(d, ev)
          /\ cells'[i] # NoCell
          /\ ScoreAt(i)' = ev[i]
      BY <1>0, <2>2, <2>4, NoCellAssumption DEF insert, Offer, ScoreAt
    <3>2. i \in DOMAIN ev /\ ev[i] \in Int
      BY <2>4, EvidenceFacts DEF Takes, Improves, Ties, Covers
    <3>3. CASE o = Offer(d, ev)
      BY <3>1, <3>2, <3>3 DEF Offer
    <3>4. CASE o \in offered
      <4>1. cells[i] # NoCell /\ ScoreAt(i) >= o.dev_evidence[i]
        BY <3>4 DEF HoldsTheBest, BestOn
      <4>2. ev[i] >= ScoreAt(i) /\ ScoreAt(i) \in Int
        <5>1. cells[i] \in Elite /\ i \in DOMAIN cells[i].dev_evidence
          BY <4>1 DEF TypeOK, ArchiveTypeOK
        <5>2. ScoreAt(i) \in Int
          BY <5>1, EvidenceFacts DEF Elite, ScoreAt
        <5>3. QED
          BY <2>4, <4>1, <3>2, <5>2 DEF Takes, Improves, Ties
      <4>3. QED
        BY <3>1, <3>2, <4>1, <4>2, <2>3
    <3>5. QED
      BY <2>1, <3>3, <3>4
  <2>5. CASE i \notin Takes(d, ev)
    <3>1. cells'[i] = cells[i] /\ ScoreAt(i)' = ScoreAt(i)
      BY <1>0, <2>5 DEF insert, ScoreAt
    <3>2. CASE o \in offered
      BY <3>1, <3>2 DEF HoldsTheBest, BestOn
    <3>3. CASE o = Offer(d, ev)
      <4>1. i \in DOMAIN ev /\ ev = o.dev_evidence
        BY <3>3 DEF Offer, Covers
      <4>2. cells[i] # NoCell /\ ~(ev[i] > ScoreAt(i))
        BY <2>5, <4>1 DEF Takes, Improves, Covers
      <4>3. ScoreAt(i) \in Int
        <5>1. cells[i] \in Elite /\ i \in DOMAIN cells[i].dev_evidence
          BY <4>2 DEF TypeOK, ArchiveTypeOK
        <5>2. QED
          BY <5>1, EvidenceFacts DEF Elite, ScoreAt
      <4>4. QED
        BY <2>3, <3>1, <4>1, <4>2, <4>3
    <3>4. QED
      BY <2>1, <3>2, <3>3
  <2>6. QED
    BY <2>4, <2>5
<1>3. BestOverall'
  <2> SUFFICES ASSUME Cardinality(Identity) > 1, NEW o \in offered',
                      Identity \subseteq DOMAIN o.dev_evidence
               PROVE  /\ union' # NoCell
                      /\ UnionMean(union'.dev_evidence) >= UnionMean(o.dev_evidence)
    BY DEF BestOverall
  <2>1. o = Offer(d, ev) \/ o \in offered
    BY <1>0
  <2>2. o \in Elite /\ Offer(d, ev) \in Elite
    BY <2>1 DEF TypeOK, Elite, Offer
  <2>3. UnionMean(o.dev_evidence) \in Int
    BY <2>2, EvidenceFacts, UnionMeanAssumption DEF Elite
  <2>4. union # NoCell => UnionMean(union.dev_evidence) \in Int
    BY UnionMeanAssumption DEF TypeOK, ArchiveTypeOK
  <2>5. CASE ImprovesUnion(ev)
    <3>1. union' = Offer(d, ev) /\ union' # NoCell
      BY <1>0, <2>2, <2>5, NoCellAssumption DEF insert, Offer
    <3>2. UnionMean(ev) \in Int
      BY <2>5, EvidenceFacts, UnionMeanAssumption DEF ImprovesUnion
    <3>3. CASE o = Offer(d, ev)
      BY <3>1, <3>2, <3>3 DEF Offer
    <3>4. CASE o \in offered
      <4>1. union # NoCell /\ UnionMean(union.dev_evidence) >= UnionMean(o.dev_evidence)
        BY <3>4 DEF HoldsTheBest, BestOverall
      <4>2. UnionMean(ev) > UnionMean(union.dev_evidence)
        BY <2>5, <4>1 DEF ImprovesUnion
      <4>3. QED
        BY <3>1, <3>2, <4>1, <4>2, <2>3, <2>4 DEF Offer
    <3>5. QED
      BY <2>1, <3>3, <3>4
  <2>6. CASE ~ImprovesUnion(ev)
    <3>1. union' = union
      BY <1>0, <2>6 DEF insert
    <3>2. CASE o \in offered
      BY <3>1, <3>2 DEF HoldsTheBest, BestOverall
    <3>3. CASE o = Offer(d, ev)
      <4>1. Identity \subseteq DOMAIN ev /\ ev = o.dev_evidence
        BY <3>3 DEF Offer
      <4>2. union # NoCell /\ ~(UnionMean(ev) > UnionMean(union.dev_evidence))
        BY <2>6, <4>1 DEF ImprovesUnion
      <4>3. QED
        BY <2>3, <2>4, <3>1, <4>1, <4>2
    <3>4. QED
      BY <2>1, <3>2, <3>3
  <2>7. QED
    BY <2>5, <2>6
<1>4. QED
  BY <1>1, <1>2, <1>3 DEF HoldsTheBest

\* The tie rule leaves no elite dominated by another.
LEMMA InsertKeepsUndominated ==
  ASSUME ArchiveInv, NEW d \in Digest, NEW ev \in Evidence, Insert(d, ev)
  PROVE  NoEliteDominated'
<1> DEFINE new == Offer(d, ev)
<1> SUFFICES ASSUME NEW a \in Elites', NEW b \in Elites',
                    a.digest # b.digest,
                    a.dev_evidence \in FullEvidence,
                    b.dev_evidence \in FullEvidence,
                    Dominates(b.dev_evidence, a.dev_evidence)
             PROVE  FALSE
  BY DEF NoEliteDominated
<1>1. insert(d, ev) /\ ArchiveTypeOK /\ HoldsTheBest
  BY DEF Insert, ArchiveInv, TypeOK
<1>2. /\ \A i \in Identity : /\ a.dev_evidence[i] \in Int
                             /\ b.dev_evidence[i] \in Int
                             /\ b.dev_evidence[i] >= a.dev_evidence[i]
      /\ DOMAIN a.dev_evidence = Identity
      /\ DOMAIN b.dev_evidence = Identity
      /\ UnionMean(b.dev_evidence) > UnionMean(a.dev_evidence)
      /\ UnionMean(b.dev_evidence) \in Int
      /\ UnionMean(a.dev_evidence) \in Int
  BY FullIsEvidence, UnionMeanAssumption DEF Dominates
\* An old elite does not dominate the new one: the new one improved something
\* the old one had already been offered for.
<1>3. CASE a = new /\ b \in Elites
  <2>1. b \in offered
    BY <1>1, <1>3 DEF HoldsTheBest
  <2>2. a.dev_evidence = ev
    BY <1>3 DEF Offer
  <2>3. CASE \E k \in Identity : Improves(ev, k)
    <3>1. PICK k \in Identity : Improves(ev, k)
      BY <2>3
    <3>2. cells[k] # NoCell /\ ScoreAt(k) >= b.dev_evidence[k]
      BY <1>1, <1>2, <2>1 DEF HoldsTheBest, BestOn, Covers
    <3>3. ScoreAt(k) \in Int
      <4>1. cells[k] \in Elite /\ k \in DOMAIN cells[k].dev_evidence
        BY <1>1, <3>2 DEF ArchiveTypeOK
      <4>2. QED
        BY <4>1, EvidenceFacts DEF Elite, ScoreAt
    <3>4. ev[k] > ScoreAt(k)
      BY <3>1, <3>2 DEF Improves
    <3>5. QED
      BY <1>2, <2>2, <3>2, <3>3, <3>4
  <2>4. CASE ImprovesUnion(ev)
    <3>1. /\ union # NoCell
          /\ UnionMean(union.dev_evidence) >= UnionMean(b.dev_evidence)
      BY <1>1, <1>2, <2>1, <2>4 DEF HoldsTheBest, BestOverall, ImprovesUnion
    <3>2. UnionMean(ev) > UnionMean(union.dev_evidence)
      BY <2>4, <3>1 DEF ImprovesUnion
    <3>3. UnionMean(union.dev_evidence) \in Int
      BY <1>1, <3>1, UnionMeanAssumption DEF ArchiveTypeOK
    <3>4. QED
      BY <1>2, <2>2, <3>1, <3>2, <3>3
  <2>5. CASE new \in Elites
    BY <1>2, <1>3, <2>5 DEF ArchiveInv, NoEliteDominated
  <2>6. QED
    BY <1>1, <1>3, <2>3, <2>4, <2>5, ElitesAfterInsert
\* The new program does not dominate an old elite that stays: it would have
\* tied that cell, and taken it.
<1>4. CASE b = new /\ a # new
  <2>1. b.dev_evidence = ev /\ b.digest = d
    BY <1>4 DEF Offer
  <2>2. CASE new \in Elites
    <3>1. a \in Elites
      BY <1>1, <1>4, ElitesAfterInsert
    <3>2. QED
      BY <1>2, <1>4, <2>2, <3>1 DEF ArchiveInv, NoEliteDominated
  <2>3. CASE new \notin Elites
    <3>1. (\E k \in Identity : Improves(ev, k)) \/ ImprovesUnion(ev)
      BY <1>1, <1>4, <2>3, ElitesAfterInsert
    <3>2. Improved(ev) # {}
      BY <3>1 DEF Improved
    <3>3. ASSUME NEW i \in Identity, cells[i] = a, i \notin Takes(d, ev), a \in Elites
          PROVE  FALSE
      <4>1. cells[i] # NoCell /\ ScoreAt(i) = a.dev_evidence[i]
        BY <3>3 DEF Elites, ScoreAt
      <4>2. Covers(ev, i)
        BY <1>2, <2>1 DEF Covers
      <4>3. ~(ev[i] > ScoreAt(i))
        BY <3>3, <4>2 DEF Takes, Improves
      <4>4. ev[i] = ScoreAt(i)
        BY <1>2, <2>1, <4>1, <4>3
      <4>5. Ties(d, ev, i)
        BY <2>1, <3>3, <4>1, <4>2, <4>4 DEF Ties
      <4>6. QED
        BY <3>2, <3>3, <4>5 DEF Takes
    <3>4. ASSUME union = a, ~ImprovesUnion(ev), a \in Elites
          PROVE  FALSE
      <4>1. union # NoCell /\ Cardinality(Identity) > 1
        BY <3>4 DEF Elites, ArchiveInv, UnionCellOnlyForSets
      <4>2. ~(UnionMean(ev) > UnionMean(union.dev_evidence))
        BY <1>2, <2>1, <3>4, <4>1 DEF ImprovesUnion
      <4>3. QED
        BY <1>2, <2>1, <3>4, <4>2
    <3>5. QED
      BY <1>1, <1>4, <3>3, <3>4, ElitesAfterInsert
  <2>4. QED
    BY <2>2, <2>3
<1>5. CASE a = new /\ b = new
  BY <1>5
<1>6. CASE a \in Elites /\ b \in Elites
  BY <1>2, <1>6 DEF ArchiveInv, NoEliteDominated
<1>7. QED
  BY <1>1, <1>3, <1>4, <1>5, <1>6, ElitesAfterInsert

\* ArchiveInv is inductive.
LEMMA ArchiveInvariance == OfferSpec => []ArchiveInv
<1>1. OfferInit => ArchiveInv
  BY DEF OfferInit, ArchiveInit, ArchiveInv, TypeOK, ArchiveTypeOK, UnionCellOnlyForSets,
         HoldsTheBest, NoEliteDominated, BestOn, BestOverall, Elites
<1>2. ArchiveInv /\ [OfferNext]_offerVars => ArchiveInv'
  <2> SUFFICES ASSUME ArchiveInv, [OfferNext]_offerVars
               PROVE  ArchiveInv'
    OBVIOUS
  <2>1. ASSUME NEW d \in Digest, NEW ev \in Evidence, Insert(d, ev)
        PROVE  ArchiveInv'
    <3>1. TypeOK'
      <4>1. ArchiveTypeOK'
        BY <2>1, InsertType DEF ArchiveInv, TypeOK, Insert
      <4>2. QED
        BY <2>1, <4>1 DEF ArchiveInv, TypeOK, Insert, Offer, Elite
    <3>2. UnionCellOnlyForSets'
      BY <2>1 DEF ArchiveInv, UnionCellOnlyForSets, Insert, insert, ImprovesUnion
    <3>3. HoldsTheBest'
      BY <2>1, InsertKeepsBest DEF ArchiveInv
    <3>4. NoEliteDominated'
      BY <2>1, InsertKeepsUndominated
    <3>5. QED
      BY <3>1, <3>2, <3>3, <3>4 DEF ArchiveInv
  <2>2. CASE UNCHANGED offerVars
    BY <2>2 DEF offerVars, ArchiveInv, TypeOK, ArchiveTypeOK, UnionCellOnlyForSets,
       HoldsTheBest, NoEliteDominated, BestOn, BestOverall, Elites, ScoreAt
  <2>3. QED
    BY <2>1, <2>2 DEF OfferNext
<1>3. QED
  BY <1>1, <1>2, PTL DEF OfferSpec

(* The archive keeps a running maximum on every cell (archive.py:60-83). *)
THEOREM ArchiveHoldsTheBest == OfferSpec => []HoldsTheBest
<1>1. ArchiveInv => HoldsTheBest
  BY DEF ArchiveInv
<1>2. QED
  BY <1>1, ArchiveInvariance, PTL

(* The tie rule achieves its purpose: no elite in the archive is dominated by
   another elite (archive.py:47-58, 85-87). *)
THEOREM ArchiveHasNoDominatedElite == OfferSpec => []NoEliteDominated
<1>1. ArchiveInv => NoEliteDominated
  BY DEF ArchiveInv
<1>2. QED
  BY <1>1, ArchiveInvariance, PTL

(* An insertion lowers no cell, and moves an occupant only if it raises some
   cell: ties alone never churn the archive (archive.py:68-87). *)
THEOREM ArchiveMovesOnlyOnAGain == OfferSpec => OccupantsMoveOnlyOnAGain
<1>1. TypeOK /\ [OfferNext]_offerVars =>
        [archiveVars' # archiveVars => RaisesSome /\ LowersNone]_offerVars
  <2> SUFFICES ASSUME TypeOK,
                      NEW d \in Digest, NEW ev \in Evidence, Insert(d, ev),
                      archiveVars' # archiveVars
               PROVE  RaisesSome /\ LowersNone
    BY DEF OfferNext
  <2> DEFINE new == Offer(d, ev)
  <2>0. insert(d, ev) /\ ArchiveTypeOK /\ new # NoCell
    BY NoCellAssumption DEF Insert, TypeOK, Offer, Elite
  <2>1. \A i \in Identity :
          /\ i \in DOMAIN ev => ev[i] \in Int
          /\ cells[i] # NoCell => ScoreAt(i) \in Int
    <3>1. ASSUME NEW i \in Identity, cells[i] # NoCell
          PROVE  ScoreAt(i) \in Int
      <4>1. cells[i] \in Elite /\ i \in DOMAIN cells[i].dev_evidence
        BY <2>0, <3>1 DEF ArchiveTypeOK
      <4>2. QED
        BY <4>1, EvidenceFacts DEF Elite, ScoreAt
    <3>2. QED
      BY <3>1, EvidenceFacts
  <2>2. \A i \in Identity :
          /\ i \in Takes(d, ev) => cells'[i] = new /\ ScoreAt(i)' = ev[i]
          /\ i \notin Takes(d, ev) => cells'[i] = cells[i] /\ ScoreAt(i)' = ScoreAt(i)
    BY <2>0 DEF insert, Offer, ScoreAt
  <2>3. (\E k \in Identity : Improves(ev, k)) \/ ImprovesUnion(ev)
    <3>1. Takes(d, ev) # {} \/ ImprovesUnion(ev)
      <4>1. ASSUME Takes(d, ev) = {}, ~ImprovesUnion(ev)
            PROVE  FALSE
        <5>1. cells' = [i \in Identity |-> cells[i]]
          BY <2>0, <4>1 DEF insert
        <5>2. cells' = cells /\ union' = union
          BY <2>0, <4>1, <5>1 DEF insert, ArchiveTypeOK
        <5>3. QED
          BY <5>2 DEF archiveVars
      <4>2. QED
        BY <4>1
    <3>2. QED
      BY <2>0, <3>1, TakerImproves
  <2>4. RaisesSome
    <3>1. ASSUME NEW k \in Identity, Improves(ev, k)
          PROVE  RaisesSome
      <4>1. k \in Takes(d, ev)
        BY <3>1 DEF Takes
      <4>2. QED
        BY <2>0, <2>2, <3>1, <4>1 DEF Improves, RaisesSome
    <3>2. CASE ImprovesUnion(ev)
      <4>1. union' = new
        BY <2>0, <3>2 DEF insert, Offer
      <4>2. QED
        BY <2>0, <3>2, <4>1 DEF RaisesSome, ImprovesUnion, Offer
    <3>3. QED
      BY <2>3, <3>1, <3>2
  <2>5. LowersNone
    <3>1. ASSUME NEW i \in Identity, cells[i] # NoCell
          PROVE  cells'[i] # NoCell /\ ScoreAt(i)' >= ScoreAt(i)
      <4>1. CASE i \in Takes(d, ev)
        <5>1. i \in DOMAIN ev /\ (ev[i] > ScoreAt(i) \/ ev[i] = ScoreAt(i))
          BY <3>1, <4>1 DEF Takes, Improves, Ties, Covers
        <5>2. QED
          BY <2>0, <2>1, <2>2, <3>1, <4>1, <5>1
      <4>2. CASE i \notin Takes(d, ev)
        BY <2>1, <2>2, <3>1, <4>2
      <4>3. QED
        BY <4>1, <4>2
    <3>2. ASSUME union # NoCell
          PROVE  /\ union' # NoCell
                 /\ UnionMean(union'.dev_evidence) >= UnionMean(union.dev_evidence)
      <4>1. UnionMean(union.dev_evidence) \in Int
        BY <2>0, <3>2, UnionMeanAssumption DEF ArchiveTypeOK
      <4>2. CASE ImprovesUnion(ev)
        <5>1. union' = new /\ UnionMean(ev) > UnionMean(union.dev_evidence)
          BY <2>0, <3>2, <4>2 DEF insert, Offer, ImprovesUnion
        <5>2. UnionMean(ev) \in Int
          BY <4>2, EvidenceFacts, UnionMeanAssumption DEF ImprovesUnion
        <5>3. QED
          BY <2>0, <4>1, <5>1, <5>2 DEF Offer
      <4>3. CASE ~ImprovesUnion(ev)
        BY <2>0, <3>2, <4>1, <4>3 DEF insert
      <4>4. QED
        BY <4>2, <4>3
    <3>3. QED
      BY <3>1, <3>2 DEF LowersNone
  <2>6. QED
    BY <2>4, <2>5
<1>2. QED
  BY <1>1, ArchiveTyped, PTL DEF OfferSpec, OccupantsMoveOnlyOnAGain

-----------------------------------------------------------------------------
(* THE BOX *)

LEMMA AtLeastOne ==
  ASSUME NEW x \in Int
  PROVE  Max({1, x}) = IF x > 1 THEN x ELSE 1
BY DEF Max

LEMMA LeastOfTwo ==
  ASSUME NEW x \in Int, NEW y \in Int
  PROVE  Min({x, y}) \in Int
<1>1. \E m \in {x, y} : \A n \in {x, y} : m =< n
  OBVIOUS
<1>2. Min({x, y}) \in {x, y}
  BY <1>1 DEF Min
<1>3. QED
  BY <1>2

LEMMA LeastOfThree ==
  ASSUME NEW x \in Int, NEW y \in Int, NEW z \in Int
  PROVE  Min({x, y, z}) \in Int /\ Min({x, y, z}) <= y
<1>1. \E m \in {x, y, z} : \A n \in {x, y, z} : m =< n
  OBVIOUS
<1>2. Min({x, y, z}) \in {x, y, z} /\ \A n \in {x, y, z} : Min({x, y, z}) =< n
  BY <1>1 DEF Min
<1>3. QED
  BY <1>2

(* Whatever the machine and the request, the box the host makes is budgeted. *)
LEMMA SizedBoxIsBudgeted ==
  ASSUME NEW c \in Nat \X Nat, NEW r \in Nat
  PROVE  LET b == SizeBox(r, c)
         IN  b.episodes * Budget <= b.memory \/ b.warning \/ b.episodes = 1
<1> DEFINE memory == (c[2] * 3) \div 4
           asked == Max({1, Min({r, N})})
           fits == Max({1, Min({c[1], memory \div Budget, N})})
           fixed == IF r = 0 THEN Min({DefaultEpisodes, N}) ELSE asked
<1>1. memory \in Nat /\ memory \div Budget \in Nat /\ (memory \div Budget) * 4 <= memory
  BY DEF Budget
<1>2. N \in Nat /\ N # 0 /\ c[1] \in Nat
  BY EvalBatchAssumption
<1>3. Min({r, N}) \in Int /\ Min({DefaultEpisodes, N}) \in Int
  <2>1. r \in Int /\ N \in Int /\ DefaultEpisodes \in Int
    BY <1>2 DEF DefaultEpisodes
  <2>2. QED
    BY <2>1, LeastOfTwo
<1>4. asked \in Int /\ fixed \in Int
  BY <1>3, AtLeastOne
<1>5. fits = 1 \/ fits * Budget <= memory
  <2> DEFINE least == Min({c[1], memory \div Budget, N})
  <2>1. least \in Int /\ least <= memory \div Budget
    <3>1. c[1] \in Int /\ memory \div Budget \in Int /\ N \in Int
      BY <1>1, <1>2
    <3>2. QED
      BY <3>1, LeastOfThree
  <2>2. fits = IF least > 1 THEN least ELSE 1
    BY <2>1, AtLeastOne
  <2>3. QED
    BY <1>1, <2>1, <2>2 DEF Budget
<1> HIDE DEF memory, asked, fits, fixed
<1>6. SizeBox(r, c) =
        CASE c = NoCapacity ->
               [episodes |-> fixed, memory |-> fixed * Budget, warning |-> FALSE]
          [] c # NoCapacity /\ r = 0 ->
               [episodes |-> fits, memory |-> memory, warning |-> FALSE]
          [] OTHER ->
               [episodes |-> asked, memory |-> memory, warning |-> asked * Budget > memory]
  BY DEF SizeBox, memory, asked, fits, fixed
<1>7. CASE c = NoCapacity
  BY <1>4, <1>6, <1>7 DEF Budget
<1>8. CASE c # NoCapacity /\ r = 0
  BY <1>5, <1>6, <1>8
<1>9. CASE c # NoCapacity /\ r # 0
  <2>1. SizeBox(r, c) =
          [episodes |-> asked, memory |-> memory, warning |-> asked * Budget > memory]
    BY <1>6, <1>9
  <2>2. asked * Budget \in Int /\ memory \in Int
    BY <1>1, <1>4 DEF Budget
  <2>3. asked * Budget <= memory \/ asked * Budget > memory
    BY <2>2
  <2> DEFINE b == SizeBox(r, c)
             over == asked * Budget > memory
  <2>0. b = [episodes |-> asked, memory |-> memory, warning |-> over]
    BY <2>1
  <2> HIDE DEF b, over
  <2>4. b.episodes = asked /\ b.memory = memory
    BY <2>0
  <2>5. b.warning = over
    BY <2>0
  <2> USE DEF b, over
  <2>6. CASE asked * Budget <= memory
    BY <2>4, <2>6
  <2>7. CASE asked * Budget > memory
    <3>1. b.warning
      BY <2>5, <2>7, Zenon
    <3>2. QED
      BY <3>1, Zenon
  <2>8. QED
    BY <2>3, <2>6, <2>7
<1>10. QED
  BY <1>7, <1>8, <1>9

(* The episodes side by side fit the box's memory, or the user is told, or there
   is only one (_size_box: "the default can never trip the warning"). *)
THEOREM TheBoxIsBudgeted == SpecBatch => []BoxIsBudgeted
<1>1. InitBatch => BoxIsBudgeted
  BY SizedBoxIsBudgeted, EvalBatchAssumption DEF InitBatch, BoxIsBudgeted
<1>2. NextBatch => box' = box
  BY DEF NextBatch, Host, Feed, Return, Drain, Pool, Read, StartPool, BreakPool,
         WriteResults, Exit, Completed, StartOther, EndOther, Warn, LoseOther,
         EpisodeStep, batchVars
<1>3. BoxIsBudgeted /\ [NextBatch]_allVars => BoxIsBudgeted'
  BY <1>2 DEF BoxIsBudgeted, allVars, batchVars
<1>4. QED
  BY <1>1, <1>3, PTL DEF SpecBatch

-----------------------------------------------------------------------------
(* THE EVIDENCE *)

Typed ==
    /\ driver \in {"alive", "dead"}
    /\ worker \in {"spawned", "armed", "done", "dead"}
    /\ others \in [Batch \ {Followed} -> {"queued", "playing", "played", "raised", "lost"}]
    /\ pool \in {"ok", "broken"}
    /\ DOMAIN results = Batch

\* While the driver lives a result is the result of its own episode, which will
\* not change any more; a broken pool leaves no episode open; and what the arena
\* has written is complete.
Recorded ==
    /\ Alive => \A i \in Batch : results[i] # NoResult =>
                   /\ results[i] \in {i} \X {"played", "failed"}
                   /\ Status(i) \in IF results[i][2] = "failed" THEN {"raised", "lost"} ELSE {"played"}
    /\ Alive /\ pool = "broken" => \A i \in Batch : Status(i) \in {"played", "raised", "lost"}
    /\ Alive /\ arena \in {"written", "exited"} => \A i \in Batch : results[i] # NoResult
    /\ outcome = "evidence" => Alive /\ arena = "exited"

IInv == Typed /\ Recorded

LEMMA StatusOf ==
  /\ Status(Followed) = "lost" <=> worker = "dead"
  /\ Status(Followed) = "played" <=> worker = "done"
  /\ \A i \in Batch \ {Followed} : Status(i) = others[i]
BY DEF Status

LEMMA InitIInv == InitBatch => IInv
<1> SUFFICES ASSUME InitBatch
             PROVE  IInv
  OBVIOUS
<1>1. Typed
  BY DEF InitBatch, Init, Typed
<1>2. Recorded
  BY DEF InitBatch, Recorded
<1>3. QED
  BY <1>1, <1>2 DEF IInv

(* A step of the followed episode: a dead driver stays dead, and while it lives
   a worker that is done, or dead, stays so. *)
LEMMA EpisodeGoesOn ==
  ASSUME Typed, EpisodeStep
  PROVE  /\ Typed'
         /\ Alive' => Alive /\ (worker \in {"done", "dead"} => worker' = worker)
         /\ arena \in {"written", "exited"} => driver' = driver
<1>1. /\ driver' \in {"alive", "dead"}
      /\ worker' \in {"spawned", "armed", "done", "dead"}
      /\ driver' = "alive" => driver = "alive" /\ (worker \in {"done", "dead"} => worker' = worker)
  <2> USE DEF Typed, processes, Playing
  <2>1. CASE WorkerArms
    BY <2>1 DEF WorkerArms, Armed
  <2>2. CASE DriverDies
    BY <2>2 DEF DriverDies, Orphaned, Gone
  <2>3. CASE WorkerDies
    BY <2>3 DEF WorkerDies
  <2>4. CASE Close
    BY <2>4 DEF Close
  <2>5. CASE driver' = driver /\ worker' = worker
    BY <2>5
  <2>6. BotArms \/ Timeout \/ GameFails \/ Bot => driver' = driver /\ worker' = worker
    BY DEF BotArms, Timeout, GameFails, Bot, BotReady, BotAnswers, BotRaises,
           BotHangs, BotLeaves
  <2>7. Worker => Close \/ (driver' = driver /\ worker' = worker)
    BY DEF Worker, Start, Reset, FirstAct, Play, InvalidAction, BotError,
           BotExited, ConnectionReset
  <2>8. QED
    BY <2>1, <2>2, <2>3, <2>4, <2>5, <2>6, <2>7 DEF EpisodeStep, Next
<1>2. QED
  BY <1>1 DEF EpisodeStep, batchVars, Typed, Alive

LEMMA EpisodeIsRecorded ==
  ASSUME IInv, EpisodeStep
  PROVE  IInv'
<1>1. /\ Typed'
      /\ Alive' => Alive /\ (worker \in {"done", "dead"} => worker' = worker)
      /\ arena \in {"written", "exited"} => driver' = driver
  BY EpisodeGoesOn DEF IInv
<1>2. UNCHANGED <<arena, others, pool, results, outcome>>
  BY DEF EpisodeStep, batchVars
<1>3. ASSUME Alive', NEW i \in Batch, Status(i) \in {"played", "raised", "lost"}
      PROVE  Status(i)' = Status(i)
  <2>1. CASE i = Followed
    <3>1. worker \in {"done", "dead"}
      BY <1>3, <2>1 DEF Status
    <3>2. worker' = worker
      BY <1>1, <1>3, <3>1
    <3>3. QED
      BY <2>1, <3>1, <3>2 DEF Status
  <2>2. CASE i # Followed
    BY <1>2, <2>2 DEF Status
  <2>3. QED
    BY <2>1, <2>2
<1>4. ASSUME Alive', NEW i \in Batch, results'[i] # NoResult
      PROVE  /\ results'[i] \in {i} \X {"played", "failed"}
             /\ Status(i)' \in IF results'[i][2] = "failed" THEN {"raised", "lost"} ELSE {"played"}
  <2>1. /\ results[i] \in {i} \X {"played", "failed"}
        /\ Status(i) \in IF results[i][2] = "failed" THEN {"raised", "lost"} ELSE {"played"}
    BY <1>1, <1>2, <1>4 DEF IInv, Recorded
  <2>2. Status(i)' = Status(i)
    BY <1>3, <1>4, <2>1
  <2>3. QED
    BY <1>2, <2>1, <2>2
<1>5. Alive' /\ pool' = "broken" => \A i \in Batch : Status(i)' \in {"played", "raised", "lost"}
  BY <1>1, <1>2, <1>3 DEF IInv, Recorded
<1>6. Alive' /\ arena' \in {"written", "exited"} => \A i \in Batch : results'[i] # NoResult
  BY <1>1, <1>2 DEF IInv, Recorded
<1>7. outcome' = "evidence" => Alive' /\ arena' = "exited"
  BY <1>1, <1>2 DEF IInv, Recorded, Alive
<1>8. QED
  BY <1>1, <1>4, <1>5, <1>6, <1>7 DEF IInv, Recorded

(* A step that leaves every episode and every result as they are. *)
LEMMA NothingRecorded ==
  ASSUME IInv, UNCHANGED <<vars, others, pool, results>>,
         arena' # arena => arena' = "playing" \/ (arena = "written" /\ arena' = "exited")
                           \/ ~Alive \/ (\A i \in Batch : results[i] # NoResult),
         outcome' = "evidence" => Alive /\ arena' = "exited"
  PROVE  IInv'
<1>1. UNCHANGED <<driver, worker, client>>
  BY DEF vars, processes
<1>2. \A i \in Batch : Status(i)' = Status(i)
  BY <1>1 DEF Status
<1>3. Alive' = Alive
  BY <1>1 DEF Alive
<1>4. Typed'
  BY <1>1 DEF IInv, Typed
<1>5. Recorded'
  BY <1>2, <1>3 DEF IInv, Recorded
<1>6. QED
  BY <1>4, <1>5 DEF IInv

(* Another episode of the batch goes on, and none that is over changes. *)
LEMMA OtherIsRecorded ==
  ASSUME IInv, NEW i \in Batch \ {Followed}, NEW s \in {"playing", "played", "raised", "lost"},
         others' = [others EXCEPT ![i] = s], others[i] \in {"queued", "playing"},
         UNCHANGED <<vars, arena, pool, results, outcome>>
  PROVE  IInv'
<1>1. UNCHANGED <<driver, worker, client>>
  BY DEF vars, processes
<1>2. Typed' /\ \A j \in Batch \ {Followed} : others'[j] = IF j = i THEN s ELSE others[j]
  BY <1>1 DEF IInv, Typed
<1>3. \A j \in Batch \ {i} : Status(j)' = Status(j)
  BY <1>1, <1>2 DEF Status
<1>4. Status(i) = others[i] /\ Alive' = Alive
  BY <1>1, StatusOf DEF Alive
<1>5. Alive => results[i] = NoResult /\ pool # "broken"
  BY <1>4 DEF IInv, Recorded
<1>6. Alive' => \A j \in Batch : results'[j] # NoResult =>
          /\ results'[j] \in {j} \X {"played", "failed"}
          /\ Status(j)' \in IF results'[j][2] = "failed" THEN {"raised", "lost"} ELSE {"played"}
  BY <1>3, <1>4, <1>5 DEF IInv, Recorded
<1>7. QED
  BY <1>2, <1>4, <1>5, <1>6 DEF IInv, Recorded

LEMMA BreakIsRecorded ==
  ASSUME IInv, BreakPool
  PROVE  IInv'
<1>1. /\ pool = "ok" /\ Alive /\ arena = "playing" /\ pool' = "broken"
      /\ others' = [i \in DOMAIN others |-> IF others[i] \in Answered THEN others[i] ELSE "lost"]
      /\ worker' = IF worker = "done" THEN worker ELSE "dead"
      /\ UNCHANGED <<driver, client, arena, results, outcome>>
  BY DEF BreakPool
<1>2. \A i \in Batch \ {Followed} :
         others'[i] = IF others[i] \in Answered THEN others[i] ELSE "lost"
  BY <1>1 DEF IInv, Typed
<1>3. Typed'
  <2>1. \A i \in Batch \ {Followed} : others'[i] \in {"played", "raised", "lost"}
    BY <1>2 DEF Answered
  <2>2. QED
    BY <1>1, <2>1 DEF IInv, Typed
<1>4. \A i \in Batch : Status(i)' = IF Status(i) \in Answered THEN Status(i) ELSE "lost"
  <2>1. Status(Followed)' = IF Status(Followed) \in Answered THEN Status(Followed) ELSE "lost"
    BY <1>1 DEF Status, Answered
  <2>2. \A i \in Batch \ {Followed} :
           Status(i)' = IF Status(i) \in Answered THEN Status(i) ELSE "lost"
    BY <1>2 DEF Status
  <2>3. QED
    BY <2>1, <2>2
<1>5. Alive' = Alive
  BY <1>1 DEF Alive
<1>6. Recorded'
  BY <1>1, <1>4, <1>5 DEF IInv, Recorded, Answered
<1>7. QED
  BY <1>3, <1>6 DEF IInv

LEMMA CompletionIsRecorded ==
  ASSUME IInv, NEW i \in Batch, Completed(i)
  PROVE  IInv'
<1>1. /\ Alive /\ arena = "playing"
      /\ Status(i) \in Answered \/ pool = "broken"
      /\ UNCHANGED <<driver, worker, client, arena, others, pool, outcome>>
  BY DEF Completed, vars, processes
<1>2. /\ DOMAIN results' = Batch
      /\ \A j \in Batch :
            results'[j] = IF j = i THEN <<i, IF Status(i) = "played" THEN "played" ELSE "failed">>
                                   ELSE results[j]
  BY DEF Completed, Collect, IInv, Typed
<1>3. Typed'
  BY <1>1, <1>2 DEF IInv, Typed
<1>4. (\A j \in Batch : Status(j)' = Status(j)) /\ Alive' = Alive
  BY <1>1 DEF Status, Alive
<1>5. Status(i) \in {"played", "raised", "lost"}
  BY <1>1 DEF IInv, Recorded, Completed, Answered
<1>6. QED
  BY <1>1, <1>2, <1>3, <1>4, <1>5 DEF IInv, Recorded

LEMMA StepIInv == IInv /\ [NextBatch]_allVars => IInv'
<1> SUFFICES ASSUME IInv, [NextBatch]_allVars
             PROVE  IInv'
  OBVIOUS
<1>1. CASE Feed \/ Drain \/ Read \/ Warn \/ StartPool
  BY <1>1, NothingRecorded
     DEF Feed, Drain, Read, Warn, StartPool, IInv, Recorded
<1>2. CASE Return
  BY <1>2, NothingRecorded DEF Return, pipes, Alive
<1>3. CASE WriteResults
  BY <1>3, NothingRecorded DEF WriteResults, pipes, IInv, Recorded
<1>4. CASE Exit
  BY <1>4, NothingRecorded DEF Exit, pipes, IInv, Recorded
<1>5. CASE BreakPool
  BY <1>5, BreakIsRecorded
<1>6. ASSUME NEW i \in Batch, Completed(i)
      PROVE  IInv'
  BY <1>6, CompletionIsRecorded
<1>7. ASSUME NEW i \in Batch \ {Followed}, StartOther(i) \/ EndOther(i) \/ LoseOther(i)
      PROVE  IInv'
  <2>1. /\ others[i] \in {"queued", "playing"}
        /\ \E s \in {"playing", "played", "raised", "lost"} : others' = [others EXCEPT ![i] = s]
        /\ UNCHANGED <<vars, arena, pool, results, outcome>>
    BY <1>7, StatusOf DEF StartOther, MayStart, EndOther, LoseOther, Answered
  <2>2. QED
    BY <2>1, OtherIsRecorded
<1>8. CASE EpisodeStep
  BY <1>8, EpisodeIsRecorded
<1>9. CASE UNCHANGED allVars
  BY <1>9, NothingRecorded DEF allVars, batchVars, IInv, Recorded
<1>10. QED
  BY <1>1, <1>2, <1>3, <1>4, <1>5, <1>6, <1>7, <1>8, <1>9 DEF NextBatch, Host, Pool

(* Evidence is the batch's: one result per entry and in its place, the entry's
   own, and a made-up one just where its worker raised or the pool broke first, in
   whatever order the episodes complete and whichever process dies
   (run_prepared). *)
THEOREM EvidenceIsItsBatch == SpecBatch => []EvidenceIsTheBatch
<1>1. IInv => EvidenceIsTheBatch
  <2> SUFFICES ASSUME IInv, outcome = "evidence", NEW i \in Batch
               PROVE  /\ results[i] \in {i} \X {"played", "failed"}
                      /\ results[i][2] = "failed" <=> Status(i) \in {"raised", "lost"}
    BY DEF EvidenceIsTheBatch
  <2>1. QED
    BY DEF IInv, Recorded
<1>2. QED
  BY <1>1, InitIInv, StepIInv, PTL DEF SpecBatch

-----------------------------------------------------------------------------
(* THE FOLLOWED EPISODE *)

\* Whoever has asked to die with its parent has no dead parent: a child left
\* behind has not asked yet, and will find its parent gone when it does.
OnlyTheUnarmedOutlive ==
    /\ driver = "dead" => worker \in {"spawned", "dead"}
    /\ worker = "dead" => bot \in {"none", "spawned", "dead"}
    /\ worker = "spawned" => bot = "none"

LEMMA EpisodeKeepsOrphans ==
  ASSUME Typed, OnlyTheUnarmedOutlive, Next
  PROVE  OnlyTheUnarmedOutlive'
<1> USE DEF OnlyTheUnarmedOutlive, Gone, processes, pipe
<1>1. CASE WorkerArms
  BY <1>1 DEF WorkerArms, Armed
<1>2. CASE BotArms
  BY <1>2 DEF BotArms, Armed
<1>3. CASE DriverDies
  <2>1. /\ driver' = "dead"
        /\ worker' = IF worker = "done" THEN "dead" ELSE Orphaned(worker)
        /\ bot' = IF worker' = "dead" THEN Orphaned(bot) ELSE bot
    BY <1>3 DEF DriverDies
  <2>2. worker' \in {"spawned", "dead"} /\ (worker' = "spawned" => worker = "spawned")
    BY <2>1 DEF Orphaned, Typed
  <2>3. Orphaned(bot) \in {"none", "spawned", "dead"}
    BY DEF Orphaned
  <2>4. QED
    BY <2>1, <2>2, <2>3
<1>4. CASE WorkerDies
  BY <1>4 DEF WorkerDies, Orphaned
<1>5. CASE Worker
  BY <1>5 DEF Worker, Start, Reset, FirstAct, Play, InvalidAction, BotError, BotExited,
              ConnectionReset, Close, Waiting, Playing
<1>6. CASE Timeout \/ GameFails
  BY <1>6 DEF Timeout, GameFails, Waiting, Playing
<1>7. CASE Bot
  BY <1>7 DEF Bot, BotReady, BotAnswers, BotRaises, BotHangs, BotLeaves
<1>8. QED
  BY <1>1, <1>2, <1>3, <1>4, <1>5, <1>6, <1>7 DEF Next

(* What the pool does to the followed episode's worker the worker could have
   done itself. *)
LEMMA BatchStepIsEpisodeStep ==
  ASSUME Typed, OnlyTheUnarmedOutlive, [NextBatch]_allVars
  PROVE  [Next]_vars
<1>1. CASE BreakPool
  <2>1. CASE worker = "done"
    BY <1>1, <2>1 DEF BreakPool, Orphaned, vars, processes, pipe, result
  <2>2. CASE worker = "dead"
    BY <1>1, <2>2
       DEF BreakPool, Orphaned, Gone, OnlyTheUnarmedOutlive, vars, processes, pipe, result
  <2>3. CASE worker \in {"spawned", "armed"}
    BY <1>1, <2>3 DEF BreakPool, WorkerDies, Next
  <2>4. QED
    BY <2>1, <2>2, <2>3 DEF Typed
<1>2. CASE UNCHANGED vars
  BY <1>2
<1>3. CASE EpisodeStep
  BY <1>3 DEF EpisodeStep
<1>4. QED
  BY <1>1, <1>2, <1>3
     DEF NextBatch, Host, Feed, Return, Drain, Pool, Read, StartPool, WriteResults, Exit,
         Completed, StartOther, EndOther, Warn, LoseOther, allVars

LEMMA OrphansInductive ==
  ASSUME Typed, OnlyTheUnarmedOutlive, [NextBatch]_allVars
  PROVE  OnlyTheUnarmedOutlive'
<1>1. CASE Next
  BY <1>1, EpisodeKeepsOrphans
<1>2. CASE UNCHANGED vars
  BY <1>2 DEF OnlyTheUnarmedOutlive, vars, processes
<1>3. QED
  BY <1>1, <1>2, BatchStepIsEpisodeStep

LEMMA InitOrphans == InitBatch => OnlyTheUnarmedOutlive
BY DEF InitBatch, Init, OnlyTheUnarmedOutlive

(* No process that has armed die_with_parent outlives its parent, in a batch of
   any size and whenever the pool breaks (arena/lifetime.py; the safety half of
   NothingOutlivesItsParent). *)
THEOREM NoArmedOrphan == SpecBatch => []OnlyTheUnarmedOutlive
<1>1. Typed /\ OnlyTheUnarmedOutlive /\ [NextBatch]_allVars => OnlyTheUnarmedOutlive'
  BY OrphansInductive
<1>2. IInv => Typed
  BY DEF IInv
<1>3. QED
  BY <1>1, <1>2, InitIInv, StepIInv, InitOrphans, PTL DEF SpecBatch

(* In a batch, the followed episode is an episode: the pool, the pipes and the
   other episodes only decide when it goes on and when its worker dies, which is
   what lets the module Episode be read alone (run_prepared). *)
THEOREM TheFollowedIsAnEpisode == SpecBatch => Init /\ [][Next]_vars
<1>1. InitBatch => Init
  BY DEF InitBatch
<1>2. Typed /\ OnlyTheUnarmedOutlive /\ [NextBatch]_allVars => [Next]_vars
  BY BatchStepIsEpisodeStep
<1>3. IInv => Typed
  BY DEF IInv
<1>4. QED
  BY <1>1, <1>2, <1>3, InitIInv, StepIInv, NoArmedOrphan, PTL DEF SpecBatch
================================================================================

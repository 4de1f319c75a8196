----------------------------- MODULE CellArchive -----------------------------
(***************************************************************************)
(* The MAP-Elites archive of the evolve loop (harness/archive.py): one cell *)
(* per identity, each meant to hold the best program seen on it, and one    *)
(* union cell for the best program over the whole identity set.             *)
(*                                                                          *)
(* A piece of evidence is reduced to its per-identity means: a function     *)
(* from the identities it covers to scores.  Scores are integers standing   *)
(* for the float means, of which the code uses only the order.  The mean    *)
(* over the whole union batch is the constant operator UnionMean, of which   *)
(* only strict monotonicity is assumed.                                     *)
(***************************************************************************)
EXTENDS Integers, FiniteSets

CONSTANTS
  Identity,       \* the identities of the objective
  Digest,         \* the keys programs are archived under
  Score,          \* the values a per-identity mean can take
  NoCell,         \* an empty cell
  UnionLabel,     \* UNION, the key of the union cell
  UnionMean(_)    \* aggregate.union_mean, of evidence covering every identity

FullEvidence == [Identity -> Score]

\* What an evaluation may return: a cold-start slice covers some identities.
Evidence == UNION {[D -> Score] : D \in (SUBSET Identity) \ {{}}}

\* At least as good on every identity, and better on one.
Dominates(e, f) ==
  /\ \A i \in Identity : e[i] >= f[i]
  /\ \E i \in Identity : e[i] > f[i]

ASSUME ConstantsAssumption ==
  /\ Score \subseteq Int
  /\ UnionLabel \notin Identity
  /\ IsFiniteSet(Identity)

\* The mean over a union batch is an integer here and strictly monotone.
ASSUME UnionMeanAssumption ==
  \A e \in FullEvidence :
    /\ UnionMean(e) \in Int
    /\ \A f \in FullEvidence : Dominates(e, f) => UnionMean(e) > UnionMean(f)

VARIABLES
  cells,      \* CellArchive.cells: the elite of each identity, or NoCell
  union       \* CellArchive.union: the elite of the union cell, or NoCell

archiveVars == <<cells, union>>

Elite == [digest : Digest, dev_evidence : Evidence]

ASSUME NoCellAssumption == NoCell \notin Elite

ArchiveTypeOK ==
  /\ cells \in [Identity -> Elite \cup {NoCell}]
  /\ \A i \in Identity : cells[i] # NoCell => i \in DOMAIN cells[i].dev_evidence
  /\ union \in [digest : Digest, dev_evidence : FullEvidence] \cup {NoCell}

\* Cell.score of an identity cell: its elite's mean on that identity.
ScoreAt(i) == cells[i].dev_evidence[i]

ArchiveInit ==
  /\ cells = [i \in Identity |-> NoCell]
  /\ union = NoCell

-----------------------------------------------------------------------------
(* CellArchive.insert *)

Covers(ev, i) == i \in DOMAIN ev

Improves(ev, i) ==
  /\ Covers(ev, i)
  /\ cells[i] = NoCell \/ ev[i] > ScoreAt(i)

Ties(digest, ev, i) ==
  /\ Covers(ev, i)
  /\ cells[i] # NoCell
  /\ ev[i] = ScoreAt(i)
  /\ cells[i].digest # digest

\* Slip: the union cell is looked at only when an identity cell improved.
ImprovesUnionWithACell(ev) ==
  /\ Cardinality(Identity) > 1
  /\ Identity \subseteq DOMAIN ev
  /\ \E i \in Identity : Improves(ev, i)
  /\ union = NoCell \/ UnionMean(ev) > UnionMean(union.dev_evidence)

ImprovesUnion(ev) ==
  /\ Cardinality(Identity) > 1
  /\ Identity \subseteq DOMAIN ev
  /\ union = NoCell \/ UnionMean(ev) > UnionMean(union.dev_evidence)

\* What insert returns: the keys of the cells the program strictly improves.
Improved(ev) ==
  {i \in Identity : Improves(ev, i)}
    \cup (IF ImprovesUnion(ev) THEN {UnionLabel} ELSE {})

\* Slip: tied cells are never taken.
TakesNoTie(digest, ev) == {i \in Identity : Improves(ev, i)}

\* The identity cells the program takes: those it improves, and, once it has
\* improved something, those it ties.
Takes(digest, ev) ==
  {i \in Identity : \/ Improves(ev, i)
                    \/ Improved(ev) # {} /\ Ties(digest, ev, i)}

insert(digest, ev) ==
  LET elite == [digest |-> digest, dev_evidence |-> ev]
  IN  /\ cells' = [i \in Identity |->
                     IF i \in Takes(digest, ev) THEN elite ELSE cells[i]]
      /\ union' = IF ImprovesUnion(ev) THEN elite ELSE union

=============================================================================

----------------------------- MODULE ArchiveSpec -----------------------------
(***************************************************************************)
(* The archive on its own, fed any program with any evidence in any order:  *)
(* the most general client of CellArchive.insert.  The same program may be  *)
(* scored twice and differently, since an episode is subject to wall-clock  *)
(* timeouts.                                                                *)
(***************************************************************************)
EXTENDS CellArchive

CONSTANT MaxInserts     \* bound: programs offered in one behaviour

VARIABLE offered        \* history: the <<digest, evidence>> pairs inserted

offerVars == <<cells, union, offered>>

Offer(d, ev) == [digest |-> d, dev_evidence |-> ev]

OfferInit ==
  /\ ArchiveInit
  /\ offered = {}

Insert(d, ev) ==
  /\ Cardinality(offered) < MaxInserts
  /\ insert(d, ev)
  /\ offered' = offered \cup {Offer(d, ev)}

OfferNext == \E d \in Digest, ev \in Evidence : Insert(d, ev)

OfferSpec == OfferInit /\ [][OfferNext]_offerVars

-----------------------------------------------------------------------------
TypeOK ==
  /\ ArchiveTypeOK
  /\ offered \subseteq Elite

\* The elites of the archive, whichever cell they sit in.
Elites == ({cells[i] : i \in Identity} \cup {union}) \ {NoCell}

\* A cell is as good as anything ever offered for it, and empty only if nothing
\* was.
BestOn(i) ==
  \A o \in offered :
    Covers(o.dev_evidence, i) =>
      cells[i] # NoCell /\ ScoreAt(i) >= o.dev_evidence[i]

BestOverall ==
  \A o \in offered :
    (Cardinality(Identity) > 1 /\ Identity \subseteq DOMAIN o.dev_evidence) =>
      union # NoCell /\ UnionMean(union.dev_evidence) >= UnionMean(o.dev_evidence)

(* Each cell holds the best program ever inserted for it, under the evidence
   it was inserted with, and the union cell the best by union mean among those
   that cover every identity: insert keeps a running maximum although it also
   moves occupants on ties (archive.py:60-88). *)
HoldsTheBest ==
  /\ Elites \subseteq offered
  /\ \A i \in Identity : BestOn(i)
  /\ BestOverall

(* No elite of the archive is dominated by another elite on the full identity
   set.  This is what taking tied cells is for: a dominated elite hands the
   mutator a parent that is behind the archive elsewhere (archive.py:47-58). *)
NoEliteDominated ==
  \A a, b \in Elites :
    ( /\ a.digest # b.digest
      /\ a.dev_evidence \in FullEvidence
      /\ b.dev_evidence \in FullEvidence )
    => ~Dominates(b.dev_evidence, a.dev_evidence)

(* An insertion that moves any occupant raises the score of some cell, and no
   insertion lowers the score of a filled cell or empties it: ties alone never
   churn the archive (archive.py:68-87). *)
RaisesSome ==
  \/ \E i \in Identity :
       cells'[i] # NoCell /\ (cells[i] = NoCell \/ ScoreAt(i)' > ScoreAt(i))
  \/ /\ union' # NoCell
     /\ \/ union = NoCell
        \/ UnionMean(union'.dev_evidence) > UnionMean(union.dev_evidence)

LowersNone ==
  /\ \A i \in Identity :
       cells[i] # NoCell => cells'[i] # NoCell /\ ScoreAt(i)' >= ScoreAt(i)
  /\ union # NoCell =>
       /\ union' # NoCell
       /\ UnionMean(union'.dev_evidence) >= UnionMean(union.dev_evidence)

OccupantsMoveOnlyOnAGain ==
  [][archiveVars' # archiveVars => RaisesSome /\ LowersNone]_offerVars

(* What the docstring of insert says of the tie rule: the program that takes a
   tied cell dominates the incumbent, "equal here, better elsewhere"
   (archive.py:47-49).  "Elsewhere" is another cell, whose occupant need not be
   the incumbent displaced here, so it does not hold: see the README. *)
TieTakesOnlyTheDominated ==
  [][\A i \in Identity :
       ( /\ cells[i] # NoCell
         /\ cells'[i] # cells[i]
         /\ ScoreAt(i)' = ScoreAt(i)
         /\ cells[i].dev_evidence \in FullEvidence
         /\ cells'[i].dev_evidence \in FullEvidence )
       => Dominates(cells'[i].dev_evidence, cells[i].dev_evidence)]_offerVars

=============================================================================

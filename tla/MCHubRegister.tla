---------------------------- MODULE MCHubRegister ----------------------------
(* Instance of HubRegister, read by Recognition, for TLC: two solutions, of which the second descends
   from the first; evidence of one identity and of both, that of the first
   solution differing where it overlaps; milestones shared, passed and not
   reached. *)
EXTENDS Recognition, TLC

CONSTANTS r1, r2, r3, s1, s2, arc, wiz

MCSymmetry == Permutations(Request)

On(i, level) == [b \in {i} \X Seed |-> level]

\* All batches of an identity have the same seeds: totals compare as means do.
MCMeanOf(levels) == SumFunction(levels)

MCFloor == arc :> 0 @@ wiz :> NoRow

MCRank == s1 :> 2 @@ s2 :> 1

MCParents == s1 :> {} @@ s2 :> {s1}

\* Two evaluations of s1 overlap and differ on arc; those of s2 repeat.
Evaluations ==
  s1 :> {On(arc, 2), On(arc, 1) @@ On(wiz, 1)}
    @@ s2 :> {On(arc, 1) @@ On(wiz, 0)}

=============================================================================

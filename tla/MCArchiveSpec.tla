---------------------------- MODULE MCArchiveSpec ----------------------------
(* Instance of ArchiveSpec for TLC. *)
EXTENDS ArchiveSpec, TLC, Functions

MeanOverUnion(ev) == SumFunction(ev)

Two == 0..1
Three == 0..2
Symmetry == Permutations(Identity) \cup Permutations(Digest)

=============================================================================

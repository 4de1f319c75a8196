---------------------------- MODULE MCEvolveLoop ----------------------------
(* Instance of EvolveLoop, watched by Monitor, for TLC: one program on the hub,
   whose tree is not the seed's. *)
EXTENDS Monitor, TLC, Functions

CONSTANTS seed, child, hub1

MCDigest == {seed, child, hub1}
MCHubTree == hub1 :> child
MeanOverUnion(ev) == SumFunction(ev)
Two == 0..1

=============================================================================

--------------------------- MODULE MCVerifiedTier ---------------------------
(* Instance of VerifiedTier for TLC: two identities, a program that crashes on
   the second of them and one that crashes on none. *)
EXTENDS VerifiedTier, TLC

CONSTANTS good, bad, arc, wiz

MCRank == good :> 2 @@ bad :> 1
MCIdentities == <<arc, wiz>>
MCBreaks == good :> {} @@ bad :> {wiz}

=============================================================================

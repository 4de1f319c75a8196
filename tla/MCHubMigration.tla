--------------------------- MODULE MCHubMigration ---------------------------
(* Instance of HubMigration for TLC: three images, of which two pool into one
   major and one is unclassified; a duplicate to collapse in every table; a
   scored row nobody can classify; a new file. *)
EXTENDS HubMigration, TLC

CONSTANTS atoms, baseline_atoms, verified_atoms, verified_attempts
CONSTANTS img1, img1b, local

MCMajorOf == img1 :> 1 @@ img1b :> 1 @@ local :> NoMajor

MCRow(c, n, i) == [cell |-> c, id |-> n, image |-> i]

LegacyAtoms == {MCRow("x", 1, img1), MCRow("x", 2, img1), MCRow("y", 3, img1)}
LegacyVerified == {MCRow("x", 1, img1), MCRow("x", 2, img1b), MCRow("y", 3, img1b)}
LegacyAudit == {MCRow("x", 1, local), MCRow("x", 2, img1)}

LegacyClassified ==
  atoms :> LegacyAtoms @@ baseline_atoms :> LegacyAtoms
    @@ verified_atoms :> LegacyVerified @@ verified_attempts :> LegacyAudit

LegacyUnclassified ==
  [LegacyClassified EXCEPT ![verified_atoms] = @ \cup {MCRow("y", 4, local)}]

AnyDatabase == {LegacyClassified, LegacyUnclassified, NoTable}
OneLegacy == {LegacyClassified}
OneNew == {NoTable}

=============================================================================

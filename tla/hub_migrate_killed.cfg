\* A worker is killed while it drops objective_digest.
CONSTANTS
  atoms = atoms
  baseline_atoms = baseline_atoms
  verified_atoms = verified_atoms
  verified_attempts = verified_attempts
  img1 = img1
  img1b = img1b
  local = local
  Worker = {w1, w2}
  AtomTables = {atoms, baseline_atoms}
  UniqueTables = {atoms}
  ScoredTables = {verified_atoms}
  AuditTables = {verified_attempts}
  Databases <- OneLegacy
  Cells = {"x", "y"}
  MajorOf <- MCMajorOf
  NoMajor = NoMajor
  CurrentMajor = 1
  NoTable = NoTable
  MaxCrashes = 1
SPECIFICATION SpecMigration
INVARIANT AtomsAreCarriedOver

\* Two workers boot over a legacy or a new database and either may be killed.
CONSTANTS
  atoms = atoms
  baseline_atoms = baseline_atoms
  verified_atoms = verified_atoms
  verified_attempts = verified_attempts
  img1 = img1
  img1b = img1b
  local = local
  Worker = {w1, w2}
  AtomTables = {atoms, baseline_atoms}
  UniqueTables = {atoms}
  ScoredTables = {verified_atoms}
  AuditTables = {verified_attempts}
  Databases <- AnyDatabase
  Cells = {"x", "y"}
  MajorOf <- MCMajorOf
  NoMajor = NoMajor
  CurrentMajor = 1
  NoTable = NoTable
  MaxCrashes = 1
SPECIFICATION SpecMigration
INVARIANTS VerifiedRowsAreNeverLost ServingIsMigrated RefusesUnclassified
  UnkilledBootsCarryAtomsOver
PROPERTY EventuallyServing
CHECK_DEADLOCK FALSE

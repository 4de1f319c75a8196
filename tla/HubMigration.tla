---------------------------- MODULE HubMigration ----------------------------
(***************************************************************************)
(* hub/store.py Store.init_schema, run by every uvicorn worker process at   *)
(* boot against one sqlite file.  Outside an explicit BEGIN IMMEDIATE,      *)
(* sqlite3 commits each DDL statement on its own, so every statement of     *)
(* the older migrations is a step other workers, or a crash, can follow;    *)
(* each table of the arena_major migration is one transaction.             *)
(*                                                                          *)
(* The dropped tables objectives and elite_pool have no reader and are left *)
(* out, as are tables no migration rewrites.                                *)
(***************************************************************************)
EXTENDS Integers

CONSTANTS
  Worker,          \* the worker processes of one hub
  AtomTables,      \* tables that lose objective_digest: atoms, baseline_atoms
  UniqueTables,    \* of these, the ones with a UNIQUE key in the new shape
  ScoredTables,    \* verified_atoms, verified_baseline_atoms
  AuditTables,     \* verified_attempts
  Databases,       \* legacy databases, each the rows of its tables
  Cells,           \* what a row is about: its key but for what is migrated
  MajorOf,         \* arena_version.major_for, over images
  NoMajor,         \* major_for of an unclassified image
  CurrentMajor,    \* ARENA_MAJOR
  NoTable,         \* no table, or no database file
  MaxCrashes       \* bound: processes killed while booting

VerifiedTables == ScoredTables \cup AuditTables
MigratedTables == AtomTables \cup VerifiedTables

\* A row has the rowid it was found under, 0 if a live worker wrote it, and, if
\* verified, the image it was played on.
Row == [cell : Cells, id : Nat, image : DOMAIN MajorOf]
Live == 0

ASSUME MigrationAssumption ==
  /\ UniqueTables \subseteq AtomTables
  /\ ScoredTables \cap AuditTables = {}
  /\ AtomTables \cap VerifiedTables = {}
  /\ MaxCrashes \in Nat
  /\ \A f \in Databases : f # NoTable =>
       /\ f \in [MigratedTables -> SUBSET Row]
       /\ \A t \in MigratedTables : \A r, q \in f[t] :
            r.id # Live /\ (q.id = r.id => q = r)

VARIABLES
  found,         \* the database before any boot, or NoTable for a new file
  present,       \* the tables that exist
  legacy,        \* those still in the old shape
  rows,          \* the rows of each table
  leftover,      \* the tables of which there is a <table>_old
  stranded,      \* the rows of each <table>_old
  program_id,    \* solutions: no table, no column, or a column being stamped
  pc,            \* where init_schema is, per worker
  table,         \* the table it migrates
  crashes

tables == <<present, legacy, rows, leftover, stranded>>
migrationVars == <<found, tables, program_id, pc, table, crashes>>

InitMigration ==
  /\ found \in Databases
  /\ IF found = NoTable
     THEN present = {} /\ rows = [t \in MigratedTables |-> {}] /\ program_id = "none"
     ELSE present = MigratedTables /\ rows = found /\ program_id = "absent"
  /\ legacy = present
  /\ leftover = {} /\ stranded = [t \in MigratedTables |-> {}]
  /\ pc = [w \in Worker |-> "schema"]
  /\ table = [w \in Worker |-> NoTable]
  /\ crashes = 0

Jump(w, label) == pc' = [pc EXCEPT ![w] = label]

-----------------------------------------------------------------------------
(* Inserting rows *)

\* What a UNIQUE key of the new shape compares.
NewKey(t, row) ==
  IF t \in VerifiedTables THEN <<row.cell, MajorOf[row.image]>> ELSE <<row.cell>>

HasUnique(t) == t \in UniqueTables \cup ScoredTables

SameKey(t, r, q) == HasUnique(t) /\ NewKey(t, r) = NewKey(t, q)

\* The rows of a table that no earlier one has the key of.
Earliest(t, table_rows) ==
  {r \in table_rows : \A q \in table_rows : SameKey(t, r, q) => r.id <= q.id}

\* INSERT OR IGNORE of rows in rowid order: the earliest row of a key stays.
InsertOrIgnore(t, into, new) ==
  into \cup {r \in Earliest(t, new) : \A q \in into : ~SameKey(t, r, q)}

\* executescript(_SCHEMA): CREATE TABLE IF NOT EXISTS, every table, committed.
CreateMissing ==
  /\ present' = MigratedTables
  /\ program_id' = IF program_id = "none" THEN "absent" ELSE program_id
  /\ UNCHANGED <<legacy, rows, leftover, stranded>>

Schema(w) ==
  /\ pc[w] = "schema"
  /\ CreateMissing
  /\ Jump(w, "objective")
  /\ UNCHANGED <<table, crashes>>

-----------------------------------------------------------------------------
(* _migrate_drop_objective_digest *)

\* The shape guard, read outside any transaction, one table after the other.
ReadShape(w, t) ==
  /\ pc[w] = "objective"
  /\ t \in AtomTables \cap legacy
  /\ table' = [table EXCEPT ![w] = t]
  /\ Jump(w, "rename")
  /\ UNCHANGED <<tables, program_id, crashes>>

\* Slip: a leftover t_old ends the boot, as it does in arena_major.
NothingToDropNorStranded(w) ==
  /\ pc[w] = "objective"
  /\ AtomTables \cap legacy = {}
  /\ Jump(w, IF leftover = {} THEN "column" ELSE "down")
  /\ UNCHANGED <<tables, program_id, table, crashes>>

NothingToDrop(w) ==
  /\ pc[w] = "objective"
  /\ AtomTables \cap legacy = {}
  /\ Jump(w, "column")
  /\ UNCHANGED <<tables, program_id, table, crashes>>

\* ALTER TABLE t RENAME TO t_old, committed at once; it raises if t is gone or
\* t_old is there, which ends the worker.
Rename(w) ==
  LET t == table[w]
  IN  /\ pc[w] = "rename"
      /\ \/ /\ t \in present \ leftover
            /\ present' = present \ {t} /\ leftover' = leftover \cup {t}
            /\ stranded' = [stranded EXCEPT ![t] = rows[t]]
            /\ rows' = [rows EXCEPT ![t] = {}]
            /\ legacy' = legacy \ {t}
            /\ Jump(w, "recreate")
         \/ /\ t \notin present \ leftover
            /\ Jump(w, "down")
            /\ UNCHANGED tables
      /\ UNCHANGED <<program_id, table, crashes>>

\* executescript(_SCHEMA) commits before and after.
Recreate(w) ==
  /\ pc[w] = "recreate"
  /\ CreateMissing
  /\ Jump(w, "copy")
  /\ UNCHANGED <<table, crashes>>

\* Slip: INSERT OR IGNORE of rows latest first.
InsertLatest(t, into, new) ==
  into \cup {r \in new : /\ \A q \in new : SameKey(t, r, q) => r.id >= q.id
                         /\ \A q \in into : ~SameKey(t, r, q)}

\* Slip: the rows are selected latest first.
CopyLatestFirst(w) ==
  LET t == table[w]
  IN  /\ pc[w] = "copy"
      /\ rows' = [rows EXCEPT ![t] = InsertLatest(t, rows[t], stranded[t])]
      /\ leftover' = leftover \ {t} /\ stranded' = [stranded EXCEPT ![t] = {}]
      /\ Jump(w, "objective")
      /\ UNCHANGED <<present, legacy, program_id, table, crashes>>

\* INSERT OR IGNORE ... SELECT ... FROM t_old and DROP TABLE t_old, committed
\* together by the with block.
CopyAndDrop(w) ==
  LET t == table[w]
  IN  /\ pc[w] = "copy"
      /\ rows' = [rows EXCEPT ![t] = InsertOrIgnore(t, rows[t], stranded[t])]
      /\ leftover' = leftover \ {t} /\ stranded' = [stranded EXCEPT ![t] = {}]
      /\ Jump(w, "objective")
      /\ UNCHANGED <<present, legacy, program_id, table, crashes>>

-----------------------------------------------------------------------------
(* _migrate_add_program_id *)

ReadColumns(w) ==
  /\ pc[w] = "column"
  /\ Jump(w, IF program_id = "absent" THEN "alter" ELSE "backfill")
  /\ UNCHANGED <<tables, program_id, table, crashes>>

\* Slip: a duplicate column is taken to mean the migration is complete.
AddColumnOrSkip(w) ==
  /\ pc[w] = "alter"
  /\ IF program_id = "absent"
     THEN program_id' = "null" /\ Jump(w, "backfill")
     ELSE Jump(w, "major") /\ UNCHANGED program_id
  /\ UNCHANGED <<tables, table, crashes>>

\* ALTER TABLE ADD COLUMN, committed at once; a duplicate column raises.  So
\* does a locked database, and with the same end: a worker down and restarted.
AddColumn(w) ==
  /\ pc[w] = "alter"
  /\ IF program_id = "absent"
     THEN program_id' = "null" /\ Jump(w, "backfill")
     ELSE Jump(w, "down") /\ UNCHANGED program_id
  /\ UNCHANGED <<tables, table, crashes>>

\* Stamp the rows still NULL and index the column, in one transaction.
Backfill(w) ==
  /\ pc[w] = "backfill"
  /\ program_id' = "stamped"
  /\ Jump(w, "major")
  /\ UNCHANGED <<tables, table, crashes>>

-----------------------------------------------------------------------------
(* _migrate_add_arena_major: one BEGIN IMMEDIATE transaction per table *)

Unclassified(t) ==
  \E row \in rows[t] : MajorOf[row.image] = NoMajor

Rekeyed(t) ==
  InsertOrIgnore(t, {}, {row \in rows[t] : MajorOf[row.image] # NoMajor})

\* Slip: scored rows of an unclassified image are skipped like audit rows.
RekeySkipping(w, t) ==
  /\ pc[w] = "major"
  /\ t \in VerifiedTables \cap legacy
  /\ rows' = [rows EXCEPT ![t] = Rekeyed(t)]
  /\ legacy' = legacy \ {t}
  /\ UNCHANGED <<present, leftover, stranded, program_id, pc, table, crashes>>

\* Slip: rows are carried over latest first.
RekeyLatestFirst(w, t) ==
  /\ pc[w] = "major"
  /\ t \in VerifiedTables \cap legacy
  /\ t \in AuditTables \/ ~Unclassified(t)
  /\ rows' = [rows EXCEPT ![t] = InsertLatest(t, {}, rows[t])]
  /\ legacy' = legacy \ {t}
  /\ UNCHANGED <<present, leftover, stranded, program_id, pc, table, crashes>>

\* Re-key a table from the image to its major.  A scored row that cannot be
\* classified raises and rolls back; an audit row is skipped.
Rekey(w, t) ==
  /\ pc[w] = "major"
  /\ t \in VerifiedTables \cap legacy
  /\ t \in AuditTables \/ ~Unclassified(t)
  /\ rows' = [rows EXCEPT ![t] = Rekeyed(t)]
  /\ legacy' = legacy \ {t}
  /\ UNCHANGED <<present, leftover, stranded, program_id, pc, table, crashes>>

RekeyRaises(w, t) ==
  /\ pc[w] = "major"
  /\ t \in ScoredTables \cap legacy
  /\ Unclassified(t)
  /\ Jump(w, "down")
  /\ UNCHANGED <<tables, program_id, table, crashes>>

StartServing(w) ==
  /\ pc[w] = "major"
  /\ VerifiedTables \cap legacy = {}
  /\ Jump(w, "serving")
  /\ UNCHANGED <<tables, program_id, table, crashes>>

-----------------------------------------------------------------------------
(* Workers *)

\* A worker serving requests inserts a row, or ignores one whose key is there;
\* the statement fails when the table is missing or in the old shape.
Write(w, t, c) ==
  /\ pc[w] = "serving"
  /\ t \in present \ legacy
  /\ \E i \in DOMAIN MajorOf :
       /\ MajorOf[i] = CurrentMajor
       /\ rows' = [rows EXCEPT ![t] =
            InsertOrIgnore(t, @, {[cell |-> c, id |-> Live, image |-> i]})]
  /\ UNCHANGED <<present, legacy, leftover, stranded, program_id, pc, table, crashes>>

\* The process is killed: its open transaction, if any, rolls back.
Crash(w) ==
  /\ crashes < MaxCrashes
  /\ pc[w] # "down"
  /\ crashes' = crashes + 1
  /\ Jump(w, "down")
  /\ UNCHANGED <<tables, program_id, table>>

\* uvicorn's supervisor, or the container's restart policy, starts it again.
Restart(w) ==
  /\ pc[w] = "down"
  /\ Jump(w, "schema")
  /\ UNCHANGED <<tables, program_id, table, crashes>>

Boot(w) ==
  \/ Schema(w)
  \/ \E t \in AtomTables : ReadShape(w, t)
  \/ NothingToDrop(w)
  \/ Rename(w)
  \/ Recreate(w)
  \/ CopyAndDrop(w)
  \/ ReadColumns(w)
  \/ AddColumn(w)
  \/ Backfill(w)
  \/ \E t \in VerifiedTables : Rekey(w, t)
  \/ \E t \in ScoredTables : RekeyRaises(w, t)
  \/ StartServing(w)
  \/ Restart(w)

Step(w) ==
  \/ Boot(w)
  \/ Crash(w)
  \/ \E t \in UniqueTables \cup VerifiedTables, c \in Cells : Write(w, t, c)

NextMigration == (\E w \in Worker : Step(w)) /\ UNCHANGED found

\* A booting process keeps running, and a dead one is restarted
\* (deploy/compose.yaml:4, restart: unless-stopped).
Fairness == \A w \in Worker : WF_migrationVars(Boot(w) /\ UNCHANGED found)

SpecMigration == InitMigration /\ [][NextMigration]_migrationVars /\ Fairness

-----------------------------------------------------------------------------
Labels == {"schema", "objective", "rename", "recreate", "copy", "column", "alter",
           "backfill", "major", "serving", "down"}

MigrationTypeOK ==
  /\ found \in Databases
  /\ legacy \subseteq present /\ present \subseteq MigratedTables
  /\ leftover \subseteq AtomTables
  /\ rows \in [MigratedTables -> SUBSET Row]
  /\ stranded \in [MigratedTables -> SUBSET Row]
  /\ program_id \in {"none", "absent", "null", "stamped"}
  /\ pc \in [Worker -> Labels]
  /\ table \in [Worker -> AtomTables \cup {NoTable}]
  /\ crashes \in 0..MaxCrashes

\* The legacy rows a migration has to carry: all but audit rows of an image no
\* one can classify, and, under a unique key, the earliest row of each key.
HasToCarry(t) ==
  Earliest(t, {row \in found[t] : t \in AuditTables => MajorOf[row.image] # NoMajor})

CarriedOver(t) == t \in present /\ HasToCarry(t) \subseteq rows[t]

(* At every instant, whatever workers boot, raise or are killed, and whatever
   is written meanwhile, each verified table holds every legacy row it has to:
   a killed or concurrent arena_major migration strands or destroys nothing
   (store.py:396-434). *)
VerifiedRowsAreNeverLost ==
  found # NoTable => \A t \in VerifiedTables :
    IF t \in legacy THEN rows[t] = found[t] ELSE CarriedOver(t)

(* A worker that serves does so over what every request needs, whichever worker
   did the work: each solution is stamped with its program_id, and each verified
   table is re-keyed and holds its rows (store.py:322-340, 457-530). *)
ServingIsMigrated ==
  (\E w \in Worker : pc[w] = "serving") =>
    /\ program_id = "stamped"
    /\ VerifiedTables \cap legacy = {}
    /\ found # NoTable => \A t \in VerifiedTables : CarriedOver(t)

FoundUnclassified(t) ==
  found # NoTable /\ \E row \in found[t] : MajorOf[row.image] = NoMajor

(* A scored row of an image without a major stays where it is, under the old
   key, and keeps the hub from serving: it is never placed on a board, nor
   dropped to let the hub start (store.py:440-447, 484-501). *)
RefusesUnclassified ==
  \A t \in ScoredTables :
    FoundUnclassified(t) =>
      /\ rows[t] = found[t]
      /\ \A w \in Worker : pc[w] # "serving"

\* A live worker wrote a row of the key the legacy row had.
Displaced(t, row) == \E q \in rows[t] : q.id = Live /\ SameKey(t, row, q)

AtomsCarriedOver(t) ==
  t \in present /\ \A row \in HasToCarry(t) : row \in rows[t] \/ Displaced(t, row)

\* A hub serves its legacy database and no worker is between RENAME and DROP.
ServedAtRest ==
  /\ found # NoTable
  /\ \E w \in Worker : pc[w] = "serving"
  /\ \A w \in Worker : pc[w] \notin {"recreate", "copy"}

(* store.py:273-278: dropping objective_digest collapses duplicate atoms to the
   earliest, and "every row is carried over losslessly" of baseline_atoms: once
   no worker is between its RENAME and its DROP, the live tables hold the
   legacy rows, or a row of the same key that was registered since. *)
AtomsAreCarriedOver == ServedAtRest => \A t \in AtomTables : AtomsCarriedOver(t)

(* Short of a kill, workers that boot at once lose no self-reported row, whichever
   of them raise and boot again (store.py:285-299). *)
UnkilledBootsCarryAtomsOver == crashes = 0 => AtomsAreCarriedOver

(* To the letter the earliest row of a key stays.  It does not hold: a worker
   that boots late renames the migrated table away, and a registration served
   before it copies the rows back takes their keys (see the README). *)
EarliestAtomsStay ==
  crashes = 0 /\ ServedAtRest => \A t \in AtomTables : CarriedOver(t)

(* store.py:324-327: adding program_id is "idempotent: the ADD is guarded on
   the column's absence", so a boot nobody kills, over rows that all have a
   major, does not die. It does
   not hold: see the README. *)
BootNeverRaises ==
  crashes = 0 => \A w \in Worker : pc[w] # "down"

(* Every worker ends up serving, if no scored row is unclassified: what raises in
   a boot that met another one, or a kill, is gone at the next boot
   (deploy/compose.yaml:4). *)
EventuallyServing ==
  (\A t \in ScoredTables : ~FoundUnclassified(t)) =>
    <>[](\A w \in Worker : pc[w] = "serving")

=============================================================================

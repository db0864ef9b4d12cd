--------------------------- MODULE AcceptanceSnapshot ---------------------------
(***************************************************************************)
(* The snapshot of the acceptance database: create_snapshot.py inspects a  *)
(* database that may be in use, dumps it and describes the dump in a       *)
(* manifest; restore.ps1 verifies the two files and takes them, container  *)
(* by container, into an empty volume.  Creators and operators die, an     *)
(* operator tries again or beside another, files are altered, volumes are  *)
(* removed.                                                                *)
(*                                                                         *)
(* One creator writes to the directory at a time, and the dump does not    *)
(* change under the container that loads it.  Tables have rows of policies,*)
(* of their region rules and of collection runs; the other tables, columns *)
(* and owners, and what the scan looks for, are not told apart.            *)
(***************************************************************************)
EXTENDS Integers, FiniteSets, Sequences

CONSTANTS Absent,         \* no file, no revision, nobody at work
          Unreadable,     \* a file written in part
          Row,            \* policies
          Stable,         \* STABLE_IDENTITIES
          EXPECTED_ROW_COUNTS,
          Operator,
          MaxWrites,      \* bound: imports into the inspected database
          MaxAttempts     \* bound: attempts to create or to restore, each

(* The accepted data has collection runs: an empty database is not it.     *)
ASSUME AcceptanceAssumption ==
  /\ Absent \notin {"acceptance", "head"}
  /\ EXPECTED_ROW_COUNTS.collection_runs \in Nat \ {0}

VARIABLES inspected, \* rows of the database a snapshot is made of
          writes,
          creator, creations,
          shelf,     \* the snapshot directory: partial, dump, manifest
          dumps,     \* history: what was ever dumped
          restorer, restores,
          volume     \* the database volume of the acceptance environment

acceptanceVars == <<inspected, writes, creator, creations, shelf, dumps, restorer, restores, volume>>

ALLOWLIST_TABLES == <<"collection_runs", "policies", "policy_region_rules">>

Counts(rows) == [collection_runs |-> rows.runs, policies |-> Cardinality(DOMAIN rows.policies),
                 policy_region_rules |-> Cardinality(rows.rules)]
NoRows == [policies |-> <<>>, rules |-> {}, runs |-> 0]
IsStable(rows) == Stable \subseteq DOMAIN rows.policies

-----------------------------------------------------------------------------
(* The database in use: an import stores a policy, new or newer, with or   *)
(* without rules, in one transaction; its run is recorded in another.      *)

Written == writes < MaxWrites /\ writes' = writes + 1
UnchangedFiles == UNCHANGED <<creator, creations, shelf, dumps, restorer, restores, volume>>

PolicyWritten(p, regional) ==
  /\ Written
  /\ inspected' = [inspected EXCEPT
       !.policies = [q \in DOMAIN @ \cup {p} |-> IF q = p THEN writes' ELSE @[q]],
       !.rules = IF regional THEN @ \cup {p} ELSE @ \ {p}]
  /\ UnchangedFiles

RunWritten ==
  /\ Written
  /\ inspected' = [inspected EXCEPT !.runs = @ + 1]
  /\ UnchangedFiles

-----------------------------------------------------------------------------
(* create_snapshot.py: statements that commit by themselves, then a dump   *)
(* of one moment, then the files.                                          *)

UnchangedElse == UNCHANGED <<inspected, writes, restorer, restores, volume>>

CreationEnds == creator' = Absent
CreationGoesOn(step) == creator' = [creator EXCEPT !.step = step]

(* inspect_database: table after table, then the stable identities *)
StartCreation ==
  /\ creator = Absent /\ creations < MaxAttempts
  /\ creations' = creations + 1
  /\ creator' = [step |-> "counting", todo |-> ALLOWLIST_TABLES, counts |-> <<>>]
  /\ UNCHANGED <<shelf, dumps>> /\ UnchangedElse

CountTable ==
  /\ creator # Absent /\ creator.step = "counting" /\ creator.todo # <<>>
  /\ LET table == Head(creator.todo)
     IN creator' = [creator EXCEPT !.todo = Tail(@),
                      !.counts = [t \in DOMAIN @ \cup {table} |->
                                    IF t = table THEN Counts(inspected)[t] ELSE @[t]]]
  /\ UNCHANGED <<creations, shelf, dumps>> /\ UnchangedElse

MeetsBaseline(counts) ==
  \A t \in {"policies", "collection_runs"} : counts[t] = EXPECTED_ROW_COUNTS[t]

CheckBaseline ==
  /\ creator # Absent /\ creator.step = "counting" /\ creator.todo = <<>>
  /\ IF IsStable(inspected) /\ MeetsBaseline(creator.counts) /\ shelf.manifest = Absent
     THEN CreationGoesOn("dumping") ELSE CreationEnds
  /\ UNCHANGED <<creations, shelf, dumps>> /\ UnchangedElse

(* create_dump *)
DumpTables ==
  /\ creator # Absent /\ creator.step = "dumping"
  /\ IF shelf.dump = Absent /\ shelf.partial = Absent
     THEN /\ shelf' = [shelf EXCEPT !.partial = inspected]
          /\ dumps' = dumps \cup {inspected}
          /\ CreationGoesOn("dumped")
     ELSE CreationEnds /\ UNCHANGED <<shelf, dumps>>
  /\ UNCHANGED creations /\ UnchangedElse

DumpFails ==
  /\ creator # Absent /\ creator.step = "dumped"
  /\ shelf' = [shelf EXCEPT !.partial = Absent]
  /\ CreationEnds
  /\ UNCHANGED <<creations, dumps>> /\ UnchangedElse

ReplaceDump ==
  /\ creator # Absent /\ creator.step = "dumped"
  /\ shelf' = [shelf EXCEPT !.dump = shelf.partial, !.partial = Absent]
  /\ creator' = [step |-> "describing", counts |-> creator.counts, dump |-> shelf.partial]
  /\ UNCHANGED <<creations, dumps>> /\ UnchangedElse

(* write_manifest; its file is written in place, so that an error leaves   *)
(* nothing, a part or the whole of it, and no dump.                        *)
SnapshotManifest == [counts |-> creator.counts, dump |-> creator.dump]

WriteSnapshotManifest ==
  /\ creator # Absent /\ creator.step = "describing"
  /\ shelf' = [shelf EXCEPT !.manifest = SnapshotManifest]
  /\ CreationEnds
  /\ UNCHANGED <<creations, dumps>> /\ UnchangedElse

WriteFails ==
  /\ creator # Absent /\ creator.step = "describing"
  /\ \E left \in {Absent, Unreadable, SnapshotManifest} :
       shelf' = [shelf EXCEPT !.manifest = left, !.dump = Absent]
  /\ CreationEnds
  /\ UNCHANGED <<creations, dumps>> /\ UnchangedElse

(* The creator dies, or refuses the worktree, the tables and columns, what *)
(* the scan finds, or the admission manifest.                              *)
CreatorDies ==
  /\ creator # Absent
  /\ \E left \in IF creator.step = "describing" THEN {Absent, Unreadable} ELSE {shelf.manifest} :
       shelf' = [shelf EXCEPT !.manifest = left]
  /\ CreationEnds
  /\ UNCHANGED <<creations, dumps>> /\ UnchangedElse

NoFilesOnShelf == [partial |-> Absent, dump |-> Absent, manifest |-> Absent]

(* The directory is emptied after an attempt that left something. *)
ClearShelf ==
  /\ creator = Absent /\ shelf # NoFilesOnShelf
  /\ shelf' = NoFilesOnShelf
  /\ restorer' = [o \in Operator |-> [restorer[o] EXCEPT !.calm = FALSE]]
  /\ UNCHANGED <<creator, creations, dumps, inspected, writes, restores, volume>>

-----------------------------------------------------------------------------
(* restore.ps1: each step is a container, and a step that refuses ends it. *)

Idle == {"resting", "refused", "dead", "started"}
Moves_to(o, step) ==
  restorer' = [q \in Operator |-> IF q = o THEN [restorer[o] EXCEPT !.step = step] ELSE restorer[q]]
IfThen(o, condition, step) == Moves_to(o, IF condition THEN step ELSE "refused")
UnchangedRest == UNCHANGED <<inspected, writes, creator, creations, shelf, dumps, restores>>

IsBaselineData(rows) ==
  /\ Counts(rows) = EXPECTED_ROW_COUNTS
  /\ IsStable(rows) /\ rows.rules \subseteq DOMAIN rows.policies

(* verify_snapshot.py *)
IsSnapshot(files) ==
  /\ files.manifest \notin {Absent, Unreadable} /\ files.dump # Absent
  /\ MeetsBaseline(files.manifest.counts)
  /\ files.dump = files.manifest.dump

(* calm: history, nobody and nothing else interferes from here on *)
VerifySnapshot(o) ==
  /\ restorer[o].step \in {"resting", "refused", "dead"} /\ restores < MaxAttempts
  /\ restores' = restores + 1
  /\ restorer' = [q \in Operator |->
       IF q # o THEN [restorer[q] EXCEPT !.calm = FALSE]
       ELSE [step |-> IF IsSnapshot(shelf) THEN "verified" ELSE "refused",
             dump |-> shelf.dump,
             calm |-> /\ \A p \in Operator \ {o} : restorer[p].step \in Idle
                      /\ IsSnapshot(shelf) /\ IsBaselineData(shelf.dump)
                      /\ volume.revision = Absent]]
  /\ UNCHANGED <<inspected, writes, creator, creations, shelf, dumps, volume>>

(* schema-bootstrap: prepare, alembic upgrade, prepare again.  An upgrade  *)
(* of a schema that is there or further on does nothing.                   *)
SchemaIsReady == volume.revision = "acceptance" /\ volume.rows = NoRows

Prepare(o) ==
  /\ restorer[o].step = "verified"
  /\ IfThen(o, volume.revision = Absent \/ SchemaIsReady, "prepared")
  /\ UNCHANGED volume /\ UnchangedRest

Upgrade(o) ==
  /\ restorer[o].step = "prepared"
  /\ volume' = [volume EXCEPT !.revision = IF @ = Absent THEN "acceptance" ELSE @]
  /\ Moves_to(o, "upgraded")
  /\ UnchangedRest

PrepareAgain(o) ==
  /\ restorer[o].step = "upgraded"
  /\ IfThen(o, SchemaIsReady, "ready")
  /\ UNCHANGED volume /\ UnchangedRest

(* mutant: the revision counts as data *)
MayLoadUntouched(o) ==
  shelf.dump = restorer[o].dump /\ SchemaIsReady /\ volume.revision = Absent

(* restore.sh: hash, tables, revision, no rows *)
MayLoad(o) == shelf.dump = restorer[o].dump /\ SchemaIsReady

RestoreChecks(o) ==
  /\ restorer[o].step = "ready"
  /\ IfThen(o, MayLoad(o), "checked")
  /\ UNCHANGED volume /\ UnchangedRest

(* mutant: not in a single transaction *)
LoadedByTable(o) ==
  {[volume EXCEPT !.rows = rows, !.loads = @ + 1] :
     rows \in {restorer[o].dump, [restorer[o].dump EXCEPT !.rules = {}]}}

(* pg_restore --single-transaction: keys that are there already, or a      *)
(* failure, roll it back.                                                  *)
Loaded(o) == {[volume EXCEPT !.rows = restorer[o].dump, !.loads = @ + 1]}

RestoreLoads(o) ==
  /\ restorer[o].step = "checked"
  /\ \/ volume.rows = NoRows /\ volume' \in Loaded(o) /\ Moves_to(o, "loaded")
     \/ volume.rows # NoRows /\ UNCHANGED volume /\ Moves_to(o, "refused")
  /\ UnchangedRest

RestoreCounts(o) ==
  /\ restorer[o].step = "loaded"
  /\ IfThen(o, Counts(volume.rows).policies = EXPECTED_ROW_COUNTS.policies, "restored")
  /\ UNCHANGED volume /\ UnchangedRest

(* mutant: only what the manifest was checked for *)
IsRestoredByManifest(v) == v.revision = "acceptance" /\ MeetsBaseline(Counts(v.rows))

(* verify_restored_database.py *)
IsRestored(v) == v.revision = "acceptance" /\ IsBaselineData(v.rows)

VerifyRestored(o) ==
  /\ restorer[o].step = "restored"
  /\ IfThen(o, IsRestored(volume), "proved")
  /\ UNCHANGED volume /\ UnchangedRest

Migrate(o) ==
  /\ restorer[o].step = "proved"
  /\ volume' = [volume EXCEPT !.revision = "head"]
  /\ Moves_to(o, "migrated")
  /\ UnchangedRest

StartServices(o) ==
  /\ restorer[o].step = "migrated"
  /\ Moves_to(o, "started")
  /\ UNCHANGED volume /\ UnchangedRest

(* A container or the script fails by itself. *)
RestorerDies(o) ==
  /\ restorer[o].step \notin Idle
  /\ restorer' = [restorer EXCEPT ![o] = [step |-> "dead", dump |-> @.dump, calm |-> FALSE]]
  /\ UNCHANGED volume /\ UnchangedRest

-----------------------------------------------------------------------------
(* From outside: another file takes the place of the dump, the volume is   *)
(* removed.                                                                *)
DumpAltered ==
  /\ shelf.dump \in dumps
  /\ \A o \in Operator : restorer[o].step # "checked"
  /\ shelf' = [shelf EXCEPT !.dump.runs = @ + MaxWrites + 1]
  /\ restorer' = [o \in Operator |-> [restorer[o] EXCEPT !.calm = FALSE]]
  /\ UNCHANGED <<inspected, writes, creator, creations, dumps, restores, volume>>

Fresh == [revision |-> Absent, rows |-> NoRows, loads |-> 0]

RemoveVolume ==
  /\ volume # Fresh /\ \A o \in Operator : restorer[o].step \in Idle
  /\ volume' = Fresh
  /\ restorer' = [o \in Operator |-> [step |-> "resting", dump |-> Absent, calm |-> FALSE]]
  /\ UnchangedRest

-----------------------------------------------------------------------------
AcceptanceInit ==
  /\ inspected = [policies |-> [p \in Stable |-> 0], rules |-> Stable, runs |-> 1]
  /\ writes = 0
  /\ creator = Absent /\ creations = 0
  /\ shelf = NoFilesOnShelf
  /\ dumps = {}
  /\ restorer = [o \in Operator |-> [step |-> "resting", dump |-> Absent, calm |-> FALSE]]
  /\ restores = 0 /\ volume = Fresh

AcceptanceNext ==
  \/ \E p \in Row, regional \in BOOLEAN : PolicyWritten(p, regional)
  \/ RunWritten
  \/ StartCreation \/ CountTable \/ CheckBaseline
  \/ DumpTables \/ DumpFails \/ ReplaceDump \/ WriteSnapshotManifest \/ WriteFails
  \/ CreatorDies \/ ClearShelf
  \/ \E o \in Operator :
       \/ VerifySnapshot(o) \/ Prepare(o) \/ Upgrade(o) \/ PrepareAgain(o)
       \/ RestoreChecks(o) \/ RestoreLoads(o) \/ RestoreCounts(o) \/ VerifyRestored(o)
       \/ Migrate(o) \/ StartServices(o) \/ RestorerDies(o)
  \/ DumpAltered \/ RemoveVolume

AcceptanceSpec == AcceptanceInit /\ [][AcceptanceNext]_acceptanceVars

-----------------------------------------------------------------------------
(* Properties *)

(* A volume holds nothing, or the whole of one dump, loaded once: whoever  *)
(* restores beside whom and dies where, and whatever becomes of the files  *)
(* (restore.sh, --single-transaction).                                     *)
VolumeHoldsOneDump ==
  volume.rows = NoRows \/ (volume.rows \in dumps /\ volume.loads = 1)

(* Services start over data that is the baseline, although it was inspected*)
(* before it was dumped and imports went on in between.                    *)
StartedIsBaseline ==
  \A o \in Operator : restorer[o].step = "started" => IsBaselineData(volume.rows)

(* A restore that verifies a good snapshot over no volume, with nobody     *)
(* beside it and no failure, is never refused on its way.                  *)
QuietRestorePasses ==
  \A o \in Operator : restorer[o].calm => restorer[o].step # "refused"

(* Restoring a snapshot, in all: one whole dump, services only over the    *)
(* baseline, and no guard in the way of a good snapshot.                   *)
RestoreIsWhole == VolumeHoldsOneDump /\ StartedIsBaseline /\ QuietRestorePasses
=============================================================================

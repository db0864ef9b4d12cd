----------------------------- MODULE PublicRelease -----------------------------
(***************************************************************************)
(* The public dataset from PostgreSQL to a user: a release is gated by the *)
(* collection runs, exported, verified, installed on trial, uploaded and   *)
(* verified again before the latest pointer names it; a rollback moves the *)
(* pointer back; a user downloads what the pointer names and installs it.  *)
(* Collections go on, uploads and downloads fail half way, and a download  *)
(* may deliver something else than was uploaded.                           *)
(*                                                                         *)
(* A file is what it says; hashes and sizes of files are equal only for    *)
(* equal files.  What is stored of a policy is its columns and, in another *)
(* table, its region rules.                                                *)
(***************************************************************************)
EXTENDS ProgramContract

CONSTANTS Damaged,           \* a file of which something else arrived
          Policy, SourceOf,  \* stored policies, each of an included source
          Contents,          \* what a collection may store of one:
                             \* [program, warnings, safe]
          ReleaseVersion,
          MaxRuns,           \* bound: collections
          MaxDownloads,      \* bound: downloads of a user
          MaxDamage          \* bound: deliveries that are damaged

Source == {SourceOf[p] : p \in Policy}

(* A stored program has the fields of NormalizedProgram. *)
ProgramFields == {"start", "end", "schedule", "status", "period", "age_min", "age_max", "age",
                  "categories", "regions", "scope", "rules", "quality"}
ASSUME ContentsAssumption ==
  \A content \in Contents : ProgramFields \subseteq DOMAIN content.program

VARIABLES columns, ruleRows, \* the tables of policies and of their rules
          lastRun, ran,      \* the latest collection run of each source
          job,               \* the release workflow: one at a time
          directory,         \* files of its output directory
          rollback,          \* the rollback workflow
          release,           \* assets of each release
          latest,            \* the latest pointer
          user, local,       \* a user's download, and the files it has
          downloads, damage,
          installed          \* what the user has activated

releaseVars == <<columns, ruleRows, lastRun, ran, job, directory, rollback, release,
                 latest, user, local, downloads, damage, installed>>
database == <<columns, ruleRows, lastRun, ran>>
userVars == <<user, local, downloads, damage, installed>>

Nothing == [step |-> "idle"]
NoFiles == [dataset |-> None, manifest |-> None, pointer |-> None]

-----------------------------------------------------------------------------
(* Collections: the rows of a source are written, then its run is finished.*)

Store(p, content) ==
  [program  |-> [content.program EXCEPT !.quality = Classify(content.program, content.warnings)],
   warnings |-> content.warnings, safe |-> content.safe]

Collect(s, clean) ==
  /\ ran < MaxRuns
  /\ ran' = ran + 1
  /\ lastRun' = [lastRun EXCEPT ![s] = [id |-> ran', clean |-> clean]]
  /\ \E found \in [{p \in Policy : SourceOf[p] = s} -> Contents \cup {None}] :
       /\ columns' = [p \in Policy |-> IF p \notin DOMAIN found THEN columns[p]
                                       ELSE IF found[p] = None THEN None
                                       ELSE Store(p, found[p])]
       /\ ruleRows' = [p \in Policy |-> IF p \notin DOMAIN found \/ found[p] = None
                                        THEN ruleRows[p] ELSE found[p].program.rules]
  /\ UNCHANGED <<job, directory, rollback, release, latest>> /\ UNCHANGED userVars

-----------------------------------------------------------------------------
(* Export: promote_public_dataset *)

(* A version that has a release is refused. *)
StartRelease(v) ==
  /\ job = Nothing
  /\ release[v] = {}
  /\ directory' = NoFiles
  /\ job' = [step |-> "evidence", version |-> v]
  /\ UNCHANGED <<rollback, release, latest>> /\ UNCHANGED database /\ UNCHANGED userVars

AssertPromotableRuns ==
  /\ job.step = "evidence"
  /\ \A s \in Source : lastRun[s] # None /\ lastRun[s].clean
  /\ job' = [job EXCEPT !.step = "policies"]
  /\ UNCHANGED <<directory, rollback, release, latest>>
  /\ UNCHANGED database /\ UNCHANGED userVars

Public == {p \in Policy : columns[p] # None /\ columns[p].program.quality # "invalid"}

LoadColumns ==
  /\ job.step = "policies"
  /\ Public # {}
  /\ job' = [step |-> "rules", version |-> job.version,
             columns |-> [p \in Public |-> columns[p]]]
  /\ UNCHANGED <<directory, rollback, release, latest>>
  /\ UNCHANGED database /\ UNCHANGED userVars

(* mutant: the stored status goes with the policy *)
ToProgramStored(stored, rules) == [stored.program EXCEPT !.rules = rules]

(* The rules join the columns; the status is what the program deserves     *)
(* without the warnings of its normalization, which are not stored.        *)
ToProgram(stored, rules) ==
  LET candidate == [stored.program EXCEPT !.rules = rules]
  IN [candidate EXCEPT !.quality = Classify(candidate, {})]

LoadRecords ==
  /\ job.step = "rules"
  /\ LET programs == [p \in DOMAIN job.columns |-> ToProgram(job.columns[p], ruleRows[p])]
     IN /\ \A p \in DOMAIN programs : SchemaIssues(programs[p]) = {} /\ IsProgram(programs[p])
        /\ job' = [step |-> "records", version |-> job.version, programs |-> programs,
                   safe |-> {p \in DOMAIN programs : job.columns[p].safe}]
  /\ UNCHANGED <<directory, rollback, release, latest>>
  /\ UNCHANGED database /\ UNCHANGED userVars

(* write_release keeps the safe records; dataset first, then manifest. *)
SelectSafe(programs, safe) == [p \in safe |-> programs[p]]
Manifest(version, dataset) ==
  [version |-> version, dataset |-> dataset, rows |-> Cardinality(DOMAIN dataset),
   sources |-> {SourceOf[p] : p \in DOMAIN dataset}]

WriteDataset ==
  /\ job.step = "records"
  /\ job.safe # {}
  /\ directory' = [directory EXCEPT !.dataset = SelectSafe(job.programs, job.safe)]
  /\ job' = [step |-> "dataset", version |-> job.version]
  /\ UNCHANGED <<rollback, release, latest>> /\ UNCHANGED database /\ UNCHANGED userVars

WriteManifest ==
  /\ job.step = "dataset"
  /\ directory' = [directory EXCEPT !.manifest = Manifest(job.version, directory.dataset)]
  /\ job' = [job EXCEPT !.step = "manifest"]
  /\ UNCHANGED <<rollback, release, latest>> /\ UNCHANGED database /\ UNCHANGED userVars

(* mutant: sources that are missing are not looked for *)
CoversSourcesAny(manifest) == manifest.sources \subseteq Source

CoversSources(manifest) == manifest.sources = Source

(* mutant: a dataset of as many rows is taken *)
VerifiedByCount(files) ==
  /\ files.manifest \notin {None, Damaged}
  /\ files.dataset # None
  /\ files.dataset # Damaged => Cardinality(DOMAIN files.dataset) = files.manifest.rows

(* verify_release: the files belong together and hold programs. *)
Verified(files) ==
  /\ files.manifest \notin {None, Damaged}
  /\ files.dataset = files.manifest.dataset
  /\ \A p \in DOMAIN files.dataset : SchemaIssues(files.dataset[p]) = {} /\ IsProgram(files.dataset[p])

BuildPointer ==
  /\ job.step = "manifest"
  /\ CoversSources(directory.manifest)
  /\ Verified(directory)
  /\ directory' = [directory EXCEPT !.pointer = [version |-> job.version, manifest |-> directory.manifest]]
  /\ job' = [job EXCEPT !.step = "promoted"]
  /\ UNCHANGED <<rollback, release, latest>> /\ UNCHANGED database /\ UNCHANGED userVars

-----------------------------------------------------------------------------
(* The rest of the release workflow *)

(* An installation validates every record without warnings; one it rejects *)
(* ends it.                                                                *)
IsImportable(dataset) ==
  \A p \in DOMAIN dataset : Validate(dataset[p], {}) # "invalid"

InstallOnTrial ==
  /\ job.step = "promoted"
  /\ job' = [job EXCEPT !.step = IF IsImportable(directory.dataset) THEN "installed" ELSE "refused"]
  /\ UNCHANGED <<directory, rollback, release, latest>>
  /\ UNCHANGED database /\ UNCHANGED userVars

(* The assets go up one after the other; the workflow may end in between.  *)
Upload(asset) ==
  /\ job.step = "installed"
  /\ asset \in {"dataset", "manifest"}
  /\ release' = [release EXCEPT ![job.version] =
                   @ \cup {[name |-> asset, file |-> directory[asset]]}]
  /\ release' # release
  /\ UNCHANGED <<job, directory, rollback, latest>>
  /\ UNCHANGED database /\ UNCHANGED userVars

Assets(v) ==
  [name \in {"dataset", "manifest", "pointer"} |->
     IF \E a \in release[v] : a.name = name
     THEN (CHOOSE a \in release[v] : a.name = name).file ELSE None]

(* mutant: the upload is not verified *)
AdvanceLatestUnverified ==
  /\ job.step = "installed"
  /\ latest' = directory.pointer
  /\ job' = Nothing
  /\ UNCHANGED <<directory, rollback, release>> /\ UNCHANGED database /\ UNCHANGED userVars

(* Downloaded again and verified, then named by the latest pointer. *)
AdvanceLatest ==
  /\ job.step = "installed"
  /\ Verified(Assets(job.version))
  /\ latest' = directory.pointer
  /\ job' = Nothing
  /\ UNCHANGED <<directory, rollback, release>> /\ UNCHANGED database /\ UNCHANGED userVars

(* Any check that fails and any error ends the workflow; what it uploaded  *)
(* stays.                                                                  *)
ReleaseEnds ==
  /\ job \notin {Nothing, [step |-> "refused"]}
  /\ job' = Nothing
  /\ UNCHANGED <<directory, rollback, release, latest>>
  /\ UNCHANGED database /\ UNCHANGED userVars

(* The rollback workflow runs beside a release. *)
VerifyRollback(v) ==
  /\ rollback = None
  /\ Verified(Assets(v))
  /\ rollback' = [version |-> v, manifest |-> Assets(v).manifest]
  /\ UNCHANGED <<job, directory, release, latest>>
  /\ UNCHANGED database /\ UNCHANGED userVars

MoveLatest ==
  /\ rollback # None
  /\ latest' = rollback
  /\ rollback' = None
  /\ UNCHANGED <<job, directory, release>> /\ UNCHANGED database /\ UNCHANGED userVars

-----------------------------------------------------------------------------
(* A user *)

(* What arrives: the file, or something else. *)
Arrives(file, got) ==
  \/ got = file /\ UNCHANGED damage
  \/ got = Damaged /\ damage < MaxDamage /\ damage' = damage + 1

Workflows == <<job, directory, rollback, release, latest>>

(* Every file is kept under a name of its own: the dataset under that of   *)
(* its version, manifest and pointer under one for all versions.           *)
DownloadPointer ==
  /\ user = Nothing /\ downloads < MaxDownloads
  /\ latest # None
  /\ user' = [step |-> "pointer", pointer |-> latest]
  /\ downloads' = downloads + 1
  /\ UNCHANGED <<local, damage, installed>> /\ UNCHANGED database /\ UNCHANGED Workflows

DownloadManifest ==
  /\ user.step = "pointer"
  /\ \E got \in {Assets(user.pointer.version).manifest, Damaged} :
       /\ Arrives(Assets(user.pointer.version).manifest, got)
       /\ local' = [local EXCEPT !.manifest = got]
       /\ user' = IF got = user.pointer.manifest THEN [user EXCEPT !.step = "manifest"] ELSE Nothing
  /\ UNCHANGED <<downloads, installed>> /\ UNCHANGED database /\ UNCHANGED Workflows

DownloadDataset ==
  /\ user.step = "manifest"
  /\ \E got \in {Assets(user.pointer.version).dataset, Damaged} :
       /\ Arrives(Assets(user.pointer.version).dataset, got)
       /\ local' = [manifest |-> local.manifest,
                    dataset |-> [local.dataset EXCEPT ![user.pointer.version] = got]]
  /\ user' = Nothing
  /\ UNCHANGED <<downloads, installed>> /\ UNCHANGED database /\ UNCHANGED Workflows

DownloadEnds ==
  /\ user # Nothing
  /\ user' = Nothing
  /\ UNCHANGED <<local, downloads, damage, installed>>
  /\ UNCHANGED database /\ UNCHANGED Workflows

(* mutant: the bytes of the dataset are not compared *)
IsWholeAny(manifest, dataset) ==
  manifest \notin {None, Damaged} /\ dataset # None

(* verify_public_dataset *)
IsWhole(manifest, dataset) ==
  manifest \notin {None, Damaged} /\ dataset = manifest.dataset

(* Whatever a download left behind may be installed: the manifest and the  *)
(* dataset it names.  The installer reads the dataset to verify it and     *)
(* again to import it; the user downloads nothing in between.              *)
Install ==
  /\ user = Nothing
  /\ local.manifest \notin {None, Damaged}
  /\ LET dataset == local.dataset[local.manifest.version]
     IN /\ IsWhole(local.manifest, dataset)
        /\ installed' = IF dataset # Damaged /\ ~IsImportable(dataset) THEN [refused |-> local.manifest]
                        ELSE [version |-> local.manifest.version, dataset |-> dataset]
  /\ UNCHANGED <<user, local, downloads, damage>>
  /\ UNCHANGED database /\ UNCHANGED Workflows

-----------------------------------------------------------------------------
ReleaseInit ==
  /\ columns = [p \in Policy |-> None] /\ ruleRows = [p \in Policy |-> <<>>]
  /\ lastRun = [s \in Source |-> None] /\ ran = 0
  /\ job = Nothing /\ directory = NoFiles /\ rollback = None
  /\ release = [v \in ReleaseVersion |-> {}] /\ latest = None
  /\ user = Nothing
  /\ local = [manifest |-> None, dataset |-> [v \in ReleaseVersion |-> None]]
  /\ downloads = 0 /\ damage = 0 /\ installed = None

ReleaseWorkflow ==
  \/ \E v \in ReleaseVersion : StartRelease(v)
  \/ AssertPromotableRuns \/ LoadColumns \/ LoadRecords
  \/ WriteDataset \/ WriteManifest \/ BuildPointer \/ InstallOnTrial
  \/ Upload("dataset") \/ Upload("manifest") \/ AdvanceLatest \/ ReleaseEnds
User == DownloadPointer \/ DownloadManifest \/ DownloadDataset \/ DownloadEnds \/ Install

ReleaseNext ==
  \/ \E s \in Source, clean \in BOOLEAN : Collect(s, clean)
  \/ ReleaseWorkflow
  \/ (\E v \in ReleaseVersion : VerifyRollback(v)) \/ MoveLatest
  \/ User

ReleaseSpec == ReleaseInit /\ [][ReleaseNext]_releaseVars

-----------------------------------------------------------------------------
(* Properties *)

(* What the latest pointer names is there: both assets, which belong       *)
(* together, under the manifest the pointer has, with rows of every        *)
(* included source.  Uploads end half way, rollbacks run beside releases,  *)
(* and a source whose rows are gone, torn or unsafe keeps the pointer      *)
(* where it is.                                                            *)
LatestIsWhole ==
  latest # None => /\ Assets(latest.version).manifest = latest.manifest
                   /\ Assets(latest.version).dataset = latest.manifest.dataset
                   /\ {SourceOf[p] : p \in DOMAIN latest.manifest.dataset} = Source

(* What a user activates is a release, whatever arrived of it and whatever *)
(* earlier downloads left behind; and whatever was exported, of columns    *)
(* and rules read in two statements, an installation accepts: no release   *)
(* is verified and then refused.                                           *)
InstalledWasReleased ==
  /\ installed # None => /\ "version" \in DOMAIN installed
                         /\ installed.dataset = Assets(installed.version).dataset
  /\ job # Nothing => job.step # "refused"
=============================================================================

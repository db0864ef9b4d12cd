---------------------------- MODULE ReleaseProofs ----------------------------
(***************************************************************************)
(* Proofs about the way of the data to its users.  PublicRelease: what the *)
(* latest pointer names is whole, and what a user installs was released.   *)
(* AcceptanceSnapshot, for any number of operators, rows and attempts: a   *)
(* restored volume is empty or holds one dump, services start over the     *)
(* baseline only, and no guard stops an undisturbed restore of a good      *)
(* snapshot.  RuntimeGate: what an import stores was decided, against      *)
(* columns of the snapshots on record and, but for one window, rules of    *)
(* the same import.  ReviewAdmission: what an apply writes is what         *)
(* was audited, all of it or no success.  Judgement, for whatever may be   *)
(* asked: the normalizer keeps the contract, the comparison is cautious,   *)
(* a verdict on a region is sound in any tree, search and recommendation   *)
(* agree, and what enters has evidence of its own.                         *)
(***************************************************************************)
EXTENDS PublicRelease, AcceptanceSnapshot, Judgement, SequenceFacts,
        FiniteSetTheorems, TLAPS

-----------------------------------------------------------------------------
(* Programs *)

(* What the constructor of NormalizedProgram lets through has no semantic  *)
(* issue for the validator: the two write down the same contract.          *)
LEMMA ProgramHasNoIssue ==
  ASSUME NEW p, IsProgram(p)
  PROVE  SemanticIssues(p) = {}
<1>1. /\ \A k \in DOMAIN p.rules : RuleIsSound(p.rules[k])
      /\ RegionContract(p.scope, p.rules)
      /\ ~Reversed(p.start, p.end) /\ ~Reversed(p.age_min, p.age_max)
  BY DEF IsProgram
<1>2. \A k \in DOMAIN p.rules : p.rules[k].resolution = "matched" => k \in Matched(p)
  BY <1>1 DEF Matched, IsMatched, RuleIsSound
<1>3. \A k \in Matched(p) : k \in DOMAIN p.rules /\ p.rules[k].resolution = "matched"
  BY DEF Matched, IsMatched
<1>4. \A j, k \in Matched(p) : SameRegion(p, j, k) => j = k
  BY <1>1, <1>3 DEF RegionContract, SameRegion
<1>5. RegionContractIssues(p) = {}
  <2>1. ~(\E k \in DOMAIN p.rules : p.rules[k].resolution = "matched" /\ p.rules[k].region = None)
    BY <1>1 DEF RuleIsSound
  <2>2. ~(\E j, k \in Matched(p) : j # k /\ SameRegion(p, j, k) /\ SameRelation(p, j, k))
    BY <1>4
  <2>3. \A k \in DOMAIN p.rules : p.rules[k].resolution # "matched" =>
          p.rules[k].region = None /\ p.rules[k].source # None
    BY <1>1 DEF RuleIsSound
  <2>4. ~(p.scope = "nationwide" /\ p.rules # <<>>)
    BY <1>1 DEF RegionContract
  <2>5. ~(p.scope = "regional" /\ Included(p) = {})
    BY <1>1, <1>2 DEF RegionContract, Included
  <2>6. ~(p.scope = "unknown" /\ Matched(p) # {})
    BY <1>1, <1>3 DEF RegionContract
  <2>7. ~(\E j, k \in Matched(p) : SameRegion(p, j, k) /\ ~SameRelation(p, j, k))
    BY <1>4 DEF SameRelation
  <2>. QED
    BY <2>1, <2>2, <2>3, <2>4, <2>5, <2>6, <2>7 DEF RegionContractIssues, Issue
<1>. QED
  BY <1>1, <1>5 DEF SemanticIssues, Issue

(* The contract of a normalized program is written twice, as issues of the *)
(* validator (core/validator.py) and as the constructor of                 *)
(* NormalizedProgram (core/models.py): whatever a program holds, one finds *)
(* nothing exactly when the other accepts.                                 *)
THEOREM ContractIsOne ==
  ASSUME NEW p
  PROVE  SchemaIssues(p) \cup SemanticIssues(p) = {} <=> IsProgram(p)
<1>1. ASSUME IsProgram(p) PROVE SchemaIssues(p) \cup SemanticIssues(p) = {}
  <2>1. SemanticIssues(p) = {} BY <1>1, ProgramHasNoIssue
  <2>2. SchemaIssues(p) = {} BY <1>1 DEF IsProgram, SchemaIssues, Issue
  <2>. QED BY <2>1, <2>2
<1>2. ASSUME SchemaIssues(p) \cup SemanticIssues(p) = {} PROVE IsProgram(p)
  <2>1. /\ IsAge(p.age_min) /\ IsAge(p.age_max) /\ IsInjective(p.rules)
    BY <1>2 DEF SchemaIssues, Issue
  <2>2. /\ ~Reversed(p.start, p.end) /\ ~Reversed(p.age_min, p.age_max)
        /\ RegionContractIssues(p) = {}
    BY <1>2 DEF SemanticIssues, Issue
  <2> DEFINE Unresolved == {k \in DOMAIN p.rules : p.rules[k].resolution # "matched"}
  <2>3. /\ ~\E k \in DOMAIN p.rules : p.rules[k].resolution = "matched" /\ p.rules[k].region = None
        /\ ~\E j, k \in Matched(p) : j # k /\ SameRegion(p, j, k) /\ SameRelation(p, j, k)
        /\ ~\E k \in Unresolved : p.rules[k].region # None
        /\ ~\E k \in Unresolved : p.rules[k].source = None
        /\ ~(p.scope = "nationwide" /\ p.rules # <<>>)
        /\ ~(p.scope = "regional" /\ Included(p) = {})
        /\ ~(p.scope = "unknown" /\ Matched(p) # {})
        /\ ~\E j, k \in Matched(p) : SameRegion(p, j, k) /\ ~SameRelation(p, j, k)
    BY <2>2 DEF RegionContractIssues, Issue
  <2>4. \A k \in DOMAIN p.rules : RuleIsSound(p.rules[k]) BY <2>3 DEF RuleIsSound
  <2>5. Matched(p) = {k \in DOMAIN p.rules : p.rules[k].resolution = "matched"}
    BY <2>3 DEF Matched, IsMatched
  <2>6. \A j, k \in Matched(p) : p.rules[j].region = p.rules[k].region => j = k
    BY <2>3 DEF SameRegion
  <2>7. p.scope = "regional" => \E k \in Matched(p) : p.rules[k].relation = "include"
    BY <2>3 DEF Included
  <2>8. RegionContract(p.scope, p.rules)
    BY <2>3, <2>5, <2>6, <2>7 DEF RegionContract
  <2>. QED BY <2>1, <2>2, <2>4, <2>8 DEF IsProgram
<1>. QED BY <1>1, <1>2


(* A dataset without a program the validator rejects. *)
Importable(program) == Validate(program, {}) # "invalid"

(* What the export makes of a stored policy and lets through is importable.*)
LEMMA ExportedIsImportable ==
  ASSUME NEW stored, NEW rules, ProgramFields \subseteq DOMAIN stored.program,
         SchemaIssues(ToProgram(stored, rules)) = {}, IsProgram(ToProgram(stored, rules))
  PROVE  Importable(ToProgram(stored, rules))
<1>. DEFINE candidate == [stored.program EXCEPT !.rules = rules]
            program == ToProgram(stored, rules)
<1>1. program = [candidate EXCEPT !.quality = Classify(candidate, {})]
  BY DEF ToProgram
<1>2. ProgramFields \subseteq DOMAIN candidate
  OBVIOUS
<1>. HIDE DEF candidate, program
<1>3. \A x \in ProgramFields \ {"quality"} : program[x] = candidate[x]
  BY <1>1, <1>2
<1>4. program.quality = Classify(candidate, {})
  BY <1>1, <1>2 DEF ProgramFields
<1>5. /\ program.start = candidate.start /\ program.end = candidate.end
      /\ program.schedule = candidate.schedule /\ program.status = candidate.status
      /\ program.period = candidate.period /\ program.age_min = candidate.age_min
      /\ program.age_max = candidate.age_max /\ program.age = candidate.age
      /\ program.categories = candidate.categories /\ program.regions = candidate.regions
      /\ program.scope = candidate.scope /\ program.rules = candidate.rules
  BY <1>3 DEF ProgramFields
<1>6. /\ SchemaIssues(program) = SchemaIssues(candidate)
      /\ QualityGapIssues(program) = QualityGapIssues(candidate)
      /\ SemanticIssues(program) = SemanticIssues(candidate)
  BY <1>5 DEF SchemaIssues, QualityGapIssues, SemanticIssues, RegionContractIssues, Matched,
              Included, SameRegion, SameRelation
<1>7. program.quality = Classify(program, {})
  BY <1>4, <1>6 DEF Classify
<1>8. SchemaIssues(program) = {} /\ IsProgram(program)
  BY DEF program
<1>9. Classify(program, {}) # "invalid"
  BY <1>8, ProgramHasNoIssue DEF Classify
<1>. QED
  BY <1>7, <1>8, <1>9 DEF Importable, Validate, program

-----------------------------------------------------------------------------
(* The inductive invariant *)

(* What may be uploaded as the manifest of v: it covers every source, and  *)
(* an installation accepts what it names.                                  *)
Good(v, m) == /\ m = Manifest(v, m.dataset)
              /\ m.sources = Source
              /\ IsImportable(m.dataset)

(* Both assets of v are there, under manifest m. *)
Whole(v, m) == /\ m \notin {None, Damaged}
               /\ Good(v, m)
               /\ Assets(v).manifest = m
               /\ Assets(v).dataset = m.dataset

RowsInv == \A p \in Policy : columns[p] # None => ProgramFields \subseteq DOMAIN columns[p].program

(* The release workflow, step by step. *)
EarlySteps == {"evidence", "policies", "dataset", "manifest", "promoted", "installed"}
JobForm ==
  \/ job = Nothing
  \/ job.step \in EarlySteps /\ job = [step |-> job.step, version |-> job.version]
  \/ job.step = "rules" /\ job = [step |-> "rules", version |-> job.version, columns |-> job.columns]
  \/ /\ job.step = "records"
     /\ job = [step |-> "records", version |-> job.version, programs |-> job.programs, safe |-> job.safe]
Exports ==
  /\ job.step = "rules" =>
       \A p \in DOMAIN job.columns : ProgramFields \subseteq DOMAIN job.columns[p].program
  /\ job.step = "records" =>
       /\ job.safe \subseteq DOMAIN job.programs
       /\ \A p \in DOMAIN job.programs : Importable(job.programs[p])
Writes ==
  /\ job.step \in {"dataset", "manifest", "promoted", "installed"} => IsImportable(directory.dataset)
  /\ job.step \in {"manifest", "promoted", "installed"} =>
       directory.manifest = Manifest(job.version, directory.dataset)
  /\ job.step \in {"promoted", "installed"} =>
       /\ directory.manifest.sources = Source
       /\ directory.pointer = [version |-> job.version, manifest |-> directory.manifest]
DirectoryForm ==
  directory = [dataset |-> directory.dataset, manifest |-> directory.manifest,
               pointer |-> directory.pointer]

(* The assets of a release are the files of the workflow that uploads them.*)
IsAsset(a) == a = [name |-> a.name, file |-> a.file] /\ a.name \in {"dataset", "manifest"}
Uploads ==
  job # Nothing =>
    /\ job.version \in ReleaseVersion
    /\ job.step # "installed" => release[job.version] = {}
    /\ \A a \in release[job.version] : a.file = directory[a.name]
OneOfEach(S) == \A a, b \in S : a.name = b.name => a = b
ReleaseInv ==
  \A v \in ReleaseVersion :
    /\ \A a \in release[v] : IsAsset(a)
    /\ OneOfEach(release[v])
    /\ \A a \in release[v] : a.name = "manifest" => Good(v, a.file)

(* What points at a release points at a whole one. *)
IsPointer(x) == /\ x = [version |-> x.version, manifest |-> x.manifest]
                /\ x.version \in ReleaseVersion
                /\ Whole(x.version, x.manifest)
Pointers == /\ latest # None => IsPointer(latest)
            /\ rollback # None => IsPointer(rollback)
UserInv ==
  /\ \/ user = Nothing
     \/ /\ user = [step |-> user.step, pointer |-> user.pointer]
        /\ user.step \in {"pointer", "manifest"}
        /\ IsPointer(user.pointer)
  /\ local = [manifest |-> local.manifest, dataset |-> local.dataset]
  /\ local.manifest \notin {None, Damaged} =>
       /\ local.manifest.version \in ReleaseVersion
       /\ Whole(local.manifest.version, local.manifest)
InstalledInv ==
  installed # None =>
    /\ installed = [version |-> installed.version, dataset |-> installed.dataset]
    /\ installed.version \in ReleaseVersion
    /\ Whole(installed.version, Assets(installed.version).manifest)
    /\ installed.dataset = Assets(installed.version).dataset

PipelineForm == /\ columns = [p \in Policy |-> columns[p]]
                /\ release = [v \in ReleaseVersion |-> release[v]]
WorkflowInv == JobForm /\ DirectoryForm /\ Exports /\ Writes /\ Uploads
PublicInv == /\ PipelineForm /\ RowsInv /\ WorkflowInv /\ ReleaseInv
             /\ Pointers /\ UserInv /\ InstalledInv

-----------------------------------------------------------------------------
(* Assets *)

(* The asset of a name is the one asset that has it. *)
LEMMA TheOneOfItsName ==
  ASSUME NEW S, OneOfEach(S), NEW a \in S
  PROVE  (CHOOSE b \in S : b.name = a.name) = a
BY DEF OneOfEach

LEMMA AssetOfItsName ==
  ASSUME NEW v \in ReleaseVersion, ReleaseInv, NEW a \in release[v]
  PROVE  Assets(v)[a.name] = a.file
<1>1. a.name \in {"dataset", "manifest"} /\ OneOfEach(release[v])
  BY DEF ReleaseInv, IsAsset
<1>. QED
  BY <1>1, TheOneOfItsName DEF Assets

LEMMA NoAssetNoFile ==
  ASSUME NEW v, NEW name \in {"dataset", "manifest"}, \A a \in release[v] : a.name # name
  PROVE  Assets(v)[name] = None
BY DEF Assets

(* A manifest that is there is an asset, and good. *)
LEMMA ManifestIsAnAsset ==
  ASSUME NEW v \in ReleaseVersion, ReleaseInv, Assets(v).manifest # None
  PROVE  /\ \E a \in release[v] : a.name = "manifest" /\ a.file = Assets(v).manifest
         /\ Good(v, Assets(v).manifest)
<1>1. PICK a \in release[v] : a.name = "manifest"
  BY NoAssetNoFile
<1>2. Assets(v).manifest = a.file
  BY <1>1, AssetOfItsName
<1>. QED
  BY <1>1, <1>2 DEF ReleaseInv

(* An upload adds an asset that was not there and is the file of the       *)
(* directory.                                                              *)
LEMMA UploadAdds ==
  ASSUME PublicInv, NEW asset, Upload(asset)
  PROVE  /\ asset \in {"dataset", "manifest"}
         /\ job.version \in ReleaseVersion
         /\ release' = [v \in ReleaseVersion |->
                         IF v = job.version
                         THEN release[v] \cup {[name |-> asset, file |-> directory[asset]]}
                         ELSE release[v]]
         /\ \A a \in release[job.version] : a.name # asset
<1>1. job # Nothing /\ asset \in {"dataset", "manifest"}
  BY DEF Upload, Nothing
<1>2. /\ job.version \in ReleaseVersion
      /\ \A a \in release[job.version] : a.file = directory[a.name]
  BY <1>1 DEF PublicInv, WorkflowInv, Uploads
<1>3. release' = [v \in ReleaseVersion |->
                    IF v = job.version
                    THEN release[v] \cup {[name |-> asset, file |-> directory[asset]]}
                    ELSE release[v]]
  BY <1>2 DEF Upload, PublicInv, PipelineForm
<1>4. ASSUME NEW a \in release[job.version], a.name = asset
      PROVE  FALSE
  <2>1. a = [name |-> asset, file |-> directory[asset]]
    BY <1>2, <1>4 DEF PublicInv, ReleaseInv, IsAsset
  <2>2. release' = [v \in ReleaseVersion |-> release[v]]
    BY <2>1, <1>3
  <2>. QED
    BY <2>2 DEF Upload, PublicInv, PipelineForm
<1>. QED
  BY <1>1, <1>2, <1>3, <1>4

(* Only an upload changes the assets, and it keeps the form of each.       *)
IsUpload == Upload("dataset") \/ Upload("manifest")

LEMMA ReleaseInvStep ==
  ASSUME PublicInv, UNCHANGED release \/ IsUpload
  PROVE  ReleaseInv'
<1>1. CASE UNCHANGED release
  BY <1>1 DEF PublicInv, ReleaseInv, OneOfEach
<1>2. ASSUME NEW asset, Upload(asset)
      PROVE  ReleaseInv'
  <2>. DEFINE new == [name |-> asset, file |-> directory[asset]]
  <2>1. /\ asset \in {"dataset", "manifest"}
        /\ job.version \in ReleaseVersion
        /\ release' = [v \in ReleaseVersion |->
                         IF v = job.version THEN release[v] \cup {new} ELSE release[v]]
        /\ \A a \in release[job.version] : a.name # asset
    BY <1>2, UploadAdds
  <2>2. job.step = "installed" /\ job # Nothing
    BY <1>2 DEF Upload, Nothing
  <2>3. asset = "manifest" => Good(job.version, directory[asset])
    <3>1. /\ IsImportable(directory.dataset)
          /\ directory.manifest = Manifest(job.version, directory.dataset)
          /\ directory.manifest.sources = Source
      BY <2>2 DEF PublicInv, WorkflowInv, Writes
    <3>2. directory.manifest.dataset = directory.dataset
      BY <3>1 DEF Manifest
    <3>. QED
      BY <3>1, <3>2 DEF Good
  <2>4. ReleaseInv
    BY DEF PublicInv
  <2>5. IsAsset(new)
    BY <2>1 DEF IsAsset
  <2>6. \A v \in ReleaseVersion : \A a \in release'[v] :
          a \in release[v] \/ (v = job.version /\ a = new)
    BY <2>1
  <2>. HIDE DEF new
  <2>7. new.name = asset /\ new.file = directory[asset]
    BY DEF new
  <2>8. ASSUME NEW v \in ReleaseVersion
        PROVE  /\ \A a \in release'[v] : IsAsset(a)
               /\ OneOfEach(release'[v])
               /\ \A a \in release'[v] : a.name = "manifest" => Good(v, a.file)
    BY <2>1, <2>3, <2>4, <2>5, <2>6, <2>7 DEF ReleaseInv, OneOfEach
  <2>. QED
    BY <2>8 DEF ReleaseInv
<1>. QED
  BY <1>1, <1>2 DEF IsUpload

(* What is whole stays so: an upload to it finds the assets there.         *)
LEMMA WholeStays ==
  ASSUME PublicInv, UNCHANGED release \/ IsUpload,
         NEW v \in ReleaseVersion, NEW m, Whole(v, m)
  PROVE  Whole(v, m)'
<1>1. CASE UNCHANGED release
  BY <1>1 DEF Whole, Assets
<1>2. ASSUME NEW asset, Upload(asset)
      PROVE  Whole(v, m)'
  <2>. DEFINE new == [name |-> asset, file |-> directory[asset]]
  <2>1. /\ asset \in {"dataset", "manifest"}
        /\ job.version \in ReleaseVersion
        /\ release' = [w \in ReleaseVersion |->
                         IF w = job.version THEN release[w] \cup {new} ELSE release[w]]
        /\ \A a \in release[job.version] : a.name # asset
    BY <1>2, UploadAdds
  <2>2. job.step = "installed" /\ job # Nothing
    BY <1>2 DEF Upload, Nothing
  <2>3. CASE v # job.version
    BY <2>1, <2>3 DEF Whole, Assets
  <2>4. CASE v = job.version
    <3>1. PICK a \in release[v] : a.name = "manifest" /\ a.file = m
      BY ManifestIsAnAsset DEF Whole, PublicInv
    <3>2. m = directory.manifest /\ m.dataset = directory.dataset
      BY <3>1, <2>2, <2>4 DEF PublicInv, WorkflowInv, Uploads, Writes, Manifest
    <3>3. asset = "dataset" /\ new.file = m.dataset
      BY <2>1, <2>4, <3>1, <3>2
    <3>4. ReleaseInv'
      BY <1>2, ReleaseInvStep, <2>1 DEF IsUpload
    <3>5. a \in release'[v] /\ new \in release'[v] /\ new.name = "dataset"
      BY <2>1, <3>1, <3>3, <2>4
    <3>6. Assets(v)'.manifest = m /\ Assets(v)'.dataset = m.dataset
      <4>1. OneOfEach(release'[v])
        BY <3>4 DEF ReleaseInv
      <4>2. /\ (CHOOSE b \in release'[v] : b.name = a.name) = a
            /\ (CHOOSE b \in release'[v] : b.name = new.name) = new
        BY <4>1, <3>5, TheOneOfItsName
      <4>. QED
        BY <4>2, <3>1, <3>3, <3>5 DEF Assets
    <3>. QED
      BY <3>6 DEF Whole
  <2>. QED
    BY <2>3, <2>4
<1>. QED
  BY <1>1, <1>2 DEF IsUpload

-----------------------------------------------------------------------------
(* The release workflow *)

(* Every step is an upload or leaves the assets alone. *)
LEMMA OnlyUploads ==
  ASSUME [ReleaseNext]_releaseVars
  PROVE  UNCHANGED release \/ IsUpload
BY DEF ReleaseNext, releaseVars, ReleaseWorkflow, User, IsUpload, StartRelease,
       AssertPromotableRuns, LoadColumns, LoadRecords, WriteDataset, WriteManifest,
       BuildPointer, InstallOnTrial, AdvanceLatest, ReleaseEnds, Collect, VerifyRollback,
       MoveLatest, DownloadPointer, DownloadManifest, DownloadDataset, DownloadEnds, Install,
       Workflows

(* A step that leaves the workflow and its directory alone. *)
LEMMA WorkflowIdle ==
  ASSUME PublicInv, UNCHANGED <<job, directory, release>>
  PROVE  WorkflowInv'
<1>1. WorkflowInv
  BY DEF PublicInv
<1>2. JobForm' /\ DirectoryForm' /\ Exports'
  BY <1>1 DEF WorkflowInv, JobForm, DirectoryForm, Exports
<1>3. Writes' /\ Uploads'
  BY <1>1 DEF WorkflowInv, Writes, Uploads
<1>. QED
  BY <1>2, <1>3 DEF WorkflowInv

(* No step of the workflow but an upload sees assets of its version. *)
LEMMA UploadsStart ==
  ASSUME PublicInv, UNCHANGED release, job' # Nothing, job # Nothing,
         job.step # "installed", job'.version = job.version
  PROVE  Uploads'
<1>1. job.version \in ReleaseVersion /\ release[job.version] = {}
  BY DEF PublicInv, WorkflowInv, Uploads
<1>2. release'[job'.version] = {}
  BY <1>1
<1>. QED
  BY <1>1, <1>2 DEF Uploads

LEMMA WorkflowStep ==
  ASSUME PublicInv, ReleaseWorkflow
  PROVE  WorkflowInv'
<1>. USE DEF EarlySteps
<1>1. WorkflowInv /\ PipelineForm /\ RowsInv
  BY DEF PublicInv
<1>2. Nothing.step = "idle"
  BY DEF Nothing
<1>3. ASSUME NEW v \in ReleaseVersion, StartRelease(v)
      PROVE  WorkflowInv'
  <2>1. /\ job' = [step |-> "evidence", version |-> v] /\ directory' = NoFiles
        /\ release'[v] = {}
    BY <1>3 DEF StartRelease
  <2>2. JobForm' /\ DirectoryForm'
    BY <2>1 DEF JobForm, DirectoryForm, NoFiles
  <2>3. Exports' /\ Writes' /\ Uploads'
    BY <2>1 DEF Exports, Writes, Uploads
  <2>. QED
    BY <2>2, <2>3 DEF WorkflowInv
<1>4. CASE AssertPromotableRuns
  <2>1. job.step = "evidence" /\ job # Nothing
    BY <1>4, <1>2 DEF AssertPromotableRuns
  <2>2. job = [step |-> "evidence", version |-> job.version]
    BY <2>1, <1>1 DEF WorkflowInv, JobForm
  <2>3. job' = [step |-> "policies", version |-> job.version]
    BY <1>4, <2>2 DEF AssertPromotableRuns
  <2>4. UNCHANGED <<release, directory>>
    BY <1>4 DEF AssertPromotableRuns
  <2>5. JobForm' /\ DirectoryForm' /\ Exports' /\ Writes'
    BY <2>3, <2>4, <1>1 DEF WorkflowInv, JobForm, DirectoryForm, Exports, Writes
  <2>6. Uploads'
    BY <2>1, <2>3, <2>4, UploadsStart, <1>2
  <2>. QED
    BY <2>5, <2>6 DEF WorkflowInv
<1>5. CASE LoadColumns
  <2>1. job.step = "policies" /\ job # Nothing
    BY <1>5, <1>2 DEF LoadColumns
  <2>3. job' = [step |-> "rules", version |-> job.version,
                columns |-> [p \in Public |-> columns[p]]]
    BY <1>5 DEF LoadColumns
  <2>4. UNCHANGED <<release, directory>>
    BY <1>5 DEF LoadColumns
  <2>5. JobForm' /\ DirectoryForm' /\ Writes'
    BY <2>3, <2>4, <1>1 DEF WorkflowInv, JobForm, DirectoryForm, Writes
  <2>6. Exports'
    BY <2>3, <1>1 DEF Exports, RowsInv, Public
  <2>7. Uploads'
    BY <2>1, <2>3, <2>4, UploadsStart, <1>2
  <2>. QED
    BY <2>5, <2>6, <2>7 DEF WorkflowInv
<1>6. CASE LoadRecords
  <2>. DEFINE programs == [p \in DOMAIN job.columns |-> ToProgram(job.columns[p], ruleRows[p])]
              safe == {p \in DOMAIN programs : job.columns[p].safe}
  <2>1. job.step = "rules" /\ job # Nothing
    BY <1>6, <1>2 DEF LoadRecords
  <2>2. /\ job' = [step |-> "records", version |-> job.version, programs |-> programs, safe |-> safe]
        /\ \A p \in DOMAIN programs : SchemaIssues(programs[p]) = {} /\ IsProgram(programs[p])
    BY <1>6 DEF LoadRecords
  <2>3. UNCHANGED <<release, directory>>
    BY <1>6 DEF LoadRecords
  <2>4. ASSUME NEW p \in DOMAIN programs
        PROVE  Importable(programs[p])
    <3>1. ProgramFields \subseteq DOMAIN job.columns[p].program
      BY <1>1, <2>1 DEF WorkflowInv, Exports
    <3>2. programs[p] = ToProgram(job.columns[p], ruleRows[p])
      OBVIOUS
    <3>. QED
      BY <3>1, <3>2, <2>2, ExportedIsImportable
  <2>5. safe \subseteq DOMAIN programs
    OBVIOUS
  <2>. HIDE DEF programs, safe
  <2>6. JobForm' /\ DirectoryForm' /\ Writes'
    BY <2>2, <2>3, <1>1 DEF WorkflowInv, JobForm, DirectoryForm, Writes
  <2>7. Exports'
    BY <2>2, <2>4, <2>5 DEF Exports
  <2>8. Uploads'
    BY <2>1, <2>2, <2>3, UploadsStart, <1>2
  <2>. QED
    BY <2>6, <2>7, <2>8 DEF WorkflowInv
<1>7. CASE WriteDataset
  <2>. DEFINE dataset == SelectSafe(job.programs, job.safe)
  <2>1. job.step = "records" /\ job # Nothing
    BY <1>7, <1>2 DEF WriteDataset
  <2>2. job' = [step |-> "dataset", version |-> job.version] /\ UNCHANGED release
    BY <1>7 DEF WriteDataset
  <2>3. directory' = [dataset |-> dataset, manifest |-> directory.manifest,
                      pointer |-> directory.pointer]
    BY <1>7, <1>1 DEF WriteDataset, WorkflowInv, DirectoryForm
  <2>4. IsImportable(dataset)
    <3>1. /\ job.safe \subseteq DOMAIN job.programs
          /\ \A p \in DOMAIN job.programs : Importable(job.programs[p])
      BY <1>1, <2>1 DEF WorkflowInv, Exports
    <3>. QED
      BY <3>1 DEF IsImportable, SelectSafe, Importable
  <2>. HIDE DEF dataset
  <2>5. JobForm' /\ DirectoryForm' /\ Exports' /\ Writes'
    BY <2>2, <2>3, <2>4 DEF JobForm, DirectoryForm, Exports, Writes
  <2>6. Uploads'
    BY <2>1, <2>2, UploadsStart, <1>2
  <2>. QED
    BY <2>5, <2>6 DEF WorkflowInv
<1>8. CASE WriteManifest
  <2>. DEFINE manifest == Manifest(job.version, directory.dataset)
  <2>1. job.step = "dataset" /\ job # Nothing
    BY <1>8, <1>2 DEF WriteManifest
  <2>2. job = [step |-> "dataset", version |-> job.version]
    BY <2>1, <1>1 DEF WorkflowInv, JobForm
  <2>3. job' = [step |-> "manifest", version |-> job.version] /\ UNCHANGED release
    BY <1>8, <2>2 DEF WriteManifest
  <2>4. directory' = [dataset |-> directory.dataset, manifest |-> manifest,
                      pointer |-> directory.pointer]
    BY <1>8, <1>1 DEF WriteManifest, WorkflowInv, DirectoryForm
  <2>5. IsImportable(directory'.dataset) /\ directory'.manifest = Manifest(job'.version, directory'.dataset)
    BY <1>1, <2>1, <2>3, <2>4 DEF WorkflowInv, Writes
  <2>. HIDE DEF manifest
  <2>6. JobForm' /\ DirectoryForm' /\ Exports' /\ Writes'
    BY <2>3, <2>4, <2>5 DEF JobForm, DirectoryForm, Exports, Writes
  <2>7. Uploads'
    BY <2>1, <2>3, UploadsStart, <1>2
  <2>. QED
    BY <2>6, <2>7 DEF WorkflowInv
<1>9. CASE BuildPointer
  <2>1. job.step = "manifest" /\ job # Nothing
    BY <1>9, <1>2 DEF BuildPointer
  <2>2. job = [step |-> "manifest", version |-> job.version]
    BY <2>1, <1>1 DEF WorkflowInv, JobForm
  <2>3. job' = [step |-> "promoted", version |-> job.version] /\ UNCHANGED release
    BY <1>9, <2>2 DEF BuildPointer
  <2>4. directory' = [dataset |-> directory.dataset, manifest |-> directory.manifest,
                      pointer |-> [version |-> job.version, manifest |-> directory.manifest]]
    BY <1>9, <1>1 DEF BuildPointer, WorkflowInv, DirectoryForm
  <2>5. /\ IsImportable(directory.dataset)
        /\ directory.manifest = Manifest(job.version, directory.dataset)
        /\ directory.manifest.sources = Source
    BY <1>1, <2>1, <1>9 DEF WorkflowInv, Writes, BuildPointer, CoversSources
  <2>6. JobForm' /\ DirectoryForm' /\ Exports'
    BY <2>3, <2>4 DEF JobForm, DirectoryForm, Exports
  <2>7. Writes'
    BY <2>3, <2>4, <2>5 DEF Writes
  <2>8. Uploads'
    BY <2>1, <2>3, UploadsStart, <1>2
  <2>. QED
    BY <2>6, <2>7, <2>8 DEF WorkflowInv
<1>10. CASE InstallOnTrial
  <2>1. job.step = "promoted" /\ job # Nothing
    BY <1>10, <1>2 DEF InstallOnTrial
  <2>2. job = [step |-> "promoted", version |-> job.version]
    BY <2>1, <1>1 DEF WorkflowInv, JobForm
  <2>3. IsImportable(directory.dataset)
    BY <1>1, <2>1 DEF WorkflowInv, Writes
  <2>4. job' = [step |-> "installed", version |-> job.version] /\ UNCHANGED <<release, directory>>
    BY <1>10, <2>2, <2>3 DEF InstallOnTrial
  <2>5. JobForm' /\ DirectoryForm' /\ Exports'
    BY <2>4, <1>1 DEF WorkflowInv, JobForm, DirectoryForm, Exports
  <2>6. Writes'
    BY <2>1, <2>4, <1>1 DEF WorkflowInv, Writes
  <2>7. Uploads'
    BY <2>1, <2>4, UploadsStart, <1>2
  <2>. QED
    BY <2>5, <2>6, <2>7 DEF WorkflowInv
<1>11. ASSUME NEW asset, Upload(asset)
       PROVE  WorkflowInv'
  <2>. DEFINE new == [name |-> asset, file |-> directory[asset]]
  <2>1. /\ job.version \in ReleaseVersion
        /\ release' = [v \in ReleaseVersion |->
                         IF v = job.version THEN release[v] \cup {new} ELSE release[v]]
    BY <1>11, UploadAdds
  <2>2. UNCHANGED <<job, directory>> /\ job.step = "installed" /\ job # Nothing
    BY <1>11, <1>2 DEF Upload
  <2>3. JobForm' /\ DirectoryForm' /\ Exports'
    BY <2>2, <1>1 DEF WorkflowInv, JobForm, DirectoryForm, Exports
  <2>4. Writes'
    BY <2>2, <1>1 DEF WorkflowInv, Writes
  <2>5. \A a \in release[job.version] : a.file = directory[a.name]
    BY <1>1, <2>2 DEF WorkflowInv, Uploads
  <2>6. \A a \in release'[job.version] : a.file = directory[a.name]
    BY <2>1, <2>5
  <2>7. Uploads'
    BY <2>1, <2>2, <2>6 DEF Uploads
  <2>. QED
    BY <2>3, <2>4, <2>7 DEF WorkflowInv
<1>12. CASE AdvanceLatest \/ ReleaseEnds
  <2>1. job' = Nothing /\ UNCHANGED directory
    BY <1>12 DEF AdvanceLatest, ReleaseEnds
  <2>. QED
    BY <2>1, <1>1, <1>2 DEF WorkflowInv, JobForm, DirectoryForm, Exports, Writes, Uploads
<1>. QED
  BY <1>3, <1>4, <1>5, <1>6, <1>7, <1>8, <1>9, <1>10, <1>11, <1>12 DEF ReleaseWorkflow

LEMMA WorkflowInvStep ==
  ASSUME PublicInv, [ReleaseNext]_releaseVars
  PROVE  WorkflowInv'
<1>1. ReleaseWorkflow \/ UNCHANGED <<job, directory, release>>
  BY DEF ReleaseNext, releaseVars, User, Collect, VerifyRollback, MoveLatest, DownloadPointer,
         DownloadManifest, DownloadDataset, DownloadEnds, Install, Workflows
<1>. QED
  BY <1>1, WorkflowStep, WorkflowIdle

-----------------------------------------------------------------------------
(* Rows, pointers, users *)

LEMMA RowsInvStep ==
  ASSUME PublicInv, [ReleaseNext]_releaseVars
  PROVE  PipelineForm' /\ RowsInv'
<1>1. PipelineForm'
  <2>1. columns' = [p \in Policy |-> columns'[p]]
    <3>1. CASE UNCHANGED columns
      BY <3>1 DEF PublicInv, PipelineForm
    <3>2. CASE \E s \in Source, clean \in BOOLEAN : Collect(s, clean)
      BY <3>2 DEF Collect
    <3>. QED
      BY <3>1, <3>2 DEF ReleaseNext, releaseVars, ReleaseWorkflow, User, StartRelease,
         AssertPromotableRuns, LoadColumns, LoadRecords, WriteDataset, WriteManifest,
         BuildPointer, InstallOnTrial, Upload, AdvanceLatest, ReleaseEnds, VerifyRollback,
         MoveLatest, DownloadPointer, DownloadManifest, DownloadDataset, DownloadEnds, Install,
         database
  <2>2. release' = [v \in ReleaseVersion |-> release'[v]]
    <3>1. CASE UNCHANGED release
      BY <3>1 DEF PublicInv, PipelineForm
    <3>2. ASSUME NEW asset, Upload(asset)
          PROVE  release' = [v \in ReleaseVersion |-> release'[v]]
      BY <3>2, UploadAdds
    <3>. QED
      BY <3>1, <3>2, OnlyUploads DEF IsUpload
  <2>. QED
    BY <2>1, <2>2 DEF PipelineForm
<1>2. RowsInv'
  <2>1. RowsInv
    BY DEF PublicInv
  <2>2. CASE UNCHANGED columns
    BY <2>1, <2>2 DEF RowsInv
  <2>3. ASSUME NEW s \in Source, NEW clean \in BOOLEAN, Collect(s, clean)
        PROVE  RowsInv'
    <3>1. PICK found \in [{p \in Policy : SourceOf[p] = s} -> Contents \cup {None}] :
            columns' = [p \in Policy |-> IF p \notin DOMAIN found THEN columns[p]
                                          ELSE IF found[p] = None THEN None
                                          ELSE Store(p, found[p])]
      BY <2>3 DEF Collect
    <3>2. ASSUME NEW p \in Policy, NEW content \in Contents
          PROVE  ProgramFields \subseteq DOMAIN Store(p, content).program
      BY ContentsAssumption DEF Store
    <3>3. ASSUME NEW p \in Policy, columns'[p] # None
          PROVE  ProgramFields \subseteq DOMAIN columns'[p].program
      <4>1. CASE p \notin DOMAIN found
        BY <3>1, <3>3, <4>1, <2>1 DEF RowsInv
      <4>2. CASE p \in DOMAIN found
        <5>1. found[p] \in Contents \cup {None} /\ found[p] # None
          BY <3>1, <3>3, <4>2
        <5>. QED
          BY <3>1, <3>2, <4>2, <5>1
      <4>. QED
        BY <4>1, <4>2
    <3>. QED
      BY <3>3 DEF RowsInv
  <2>. QED
    BY <2>2, <2>3 DEF ReleaseNext, releaseVars, ReleaseWorkflow, User, StartRelease,
       AssertPromotableRuns, LoadColumns, LoadRecords, WriteDataset, WriteManifest,
       BuildPointer, InstallOnTrial, Upload, AdvanceLatest, ReleaseEnds, VerifyRollback,
       MoveLatest, DownloadPointer, DownloadManifest, DownloadDataset, DownloadEnds, Install,
       database
<1>. QED
  BY <1>1, <1>2

LEMMA PointerStays ==
  ASSUME PublicInv, UNCHANGED release \/ IsUpload, NEW x, IsPointer(x)
  PROVE  IsPointer(x)'
BY WholeStays DEF IsPointer

(* What is verified where it was uploaded may be pointed at. *)
LEMMA VerifiedIsWhole ==
  ASSUME PublicInv, NEW v \in ReleaseVersion, Verified(Assets(v))
  PROVE  IsPointer([version |-> v, manifest |-> Assets(v).manifest])
<1>1. /\ Assets(v).manifest \notin {None, Damaged}
      /\ Assets(v).dataset = Assets(v).manifest.dataset
  BY DEF Verified
<1>2. Good(v, Assets(v).manifest)
  BY <1>1, ManifestIsAnAsset DEF PublicInv
<1>. QED
  BY <1>1, <1>2 DEF IsPointer, Whole

LEMMA PointersStep ==
  ASSUME PublicInv, [ReleaseNext]_releaseVars
  PROVE  Pointers'
<1>1. UNCHANGED release \/ IsUpload
  BY OnlyUploads
<1>2. ASSUME NEW x, IsPointer(x)
      PROVE  IsPointer(x)'
  BY <1>1, <1>2, PointerStays
<1>3. Pointers
  BY DEF PublicInv
<1>4. CASE UNCHANGED <<latest, rollback>>
  <2>1. PICK l, r : l = latest /\ r = rollback
    OBVIOUS
  <2>2. (l # None => IsPointer(l)') /\ (r # None => IsPointer(r)')
    BY <2>1, <1>2, <1>3 DEF Pointers
  <2>3. latest' = l /\ rollback' = r
    BY <1>4, <2>1
  <2>. QED
    BY <2>2, <2>3 DEF Pointers
<1>5. CASE AdvanceLatest
  <2>1. job.step = "installed" /\ job # Nothing /\ Verified(Assets(job.version))
    BY <1>5 DEF AdvanceLatest, Nothing
  <2>2. job.version \in ReleaseVersion
    BY <2>1 DEF PublicInv, WorkflowInv, Uploads
  <2>3. PICK v \in ReleaseVersion : v = job.version
    BY <2>2
  <2>4. PICK l : l = [version |-> v, manifest |-> Assets(v).manifest]
    OBVIOUS
  <2>5. IsPointer(l)
    BY <2>1, <2>3, <2>4, VerifiedIsWhole
  <2>6. latest' = l
    <3>1. PICK a \in release[v] : a.name = "manifest" /\ a.file = Assets(v).manifest
      BY <2>1, <2>3, ManifestIsAnAsset DEF Verified, PublicInv
    <3>2. a.file = directory.manifest
      BY <2>1, <2>3, <3>1 DEF PublicInv, WorkflowInv, Uploads
    <3>3. directory.pointer = [version |-> job.version, manifest |-> directory.manifest]
      BY <2>1 DEF PublicInv, WorkflowInv, Writes
    <3>. QED
      BY <1>5, <2>3, <2>4, <3>1, <3>2, <3>3 DEF AdvanceLatest
  <2>7. PICK r : r = rollback
    OBVIOUS
  <2>8. r # None => IsPointer(r)'
    BY <2>7, <1>2, <1>3 DEF Pointers
  <2>9. IsPointer(l)' /\ rollback' = r
    BY <2>5, <1>2, <2>7, <1>5 DEF AdvanceLatest
  <2>. QED
    BY <2>6, <2>8, <2>9 DEF Pointers
<1>6. ASSUME NEW v \in ReleaseVersion, VerifyRollback(v)
      PROVE  Pointers'
  <2>1. PICK r : r = [version |-> v, manifest |-> Assets(v).manifest]
    OBVIOUS
  <2>2. rollback' = r /\ UNCHANGED latest
    BY <1>6, <2>1 DEF VerifyRollback
  <2>3. IsPointer(r)'
    BY <1>2, <1>6, <2>1, VerifiedIsWhole DEF VerifyRollback
  <2>4. PICK l : l = latest
    OBVIOUS
  <2>5. l # None => IsPointer(l)'
    BY <2>4, <1>2, <1>3 DEF Pointers
  <2>6. latest' = l
    BY <2>2, <2>4
  <2>. QED
    BY <2>2, <2>3, <2>5, <2>6 DEF Pointers
<1>7. CASE MoveLatest
  <2>1. PICK r : r = rollback
    OBVIOUS
  <2>2. latest' = r /\ rollback' = None /\ r # None
    BY <1>7, <2>1 DEF MoveLatest
  <2>3. IsPointer(r)'
    BY <1>2, <2>1, <2>2, <1>3 DEF Pointers
  <2>. QED
    BY <2>2, <2>3 DEF Pointers
<1>. QED
  BY <1>4, <1>5, <1>6, <1>7 DEF ReleaseNext, releaseVars, ReleaseWorkflow, User, Collect,
     StartRelease, AssertPromotableRuns, LoadColumns, LoadRecords, WriteDataset, WriteManifest,
     BuildPointer, InstallOnTrial, Upload, ReleaseEnds, DownloadPointer, DownloadManifest,
     DownloadDataset, DownloadEnds, Install, Workflows

(* What a user has of a manifest is the one of a whole release. *)
HasManifest(m) == m \notin {None, Damaged} => m.version \in ReleaseVersion /\ Whole(m.version, m)
IsDownload(d) == \/ d = Nothing
                 \/ /\ d = [step |-> d.step, pointer |-> d.pointer]
                    /\ d.step \in {"pointer", "manifest"}
                    /\ IsPointer(d.pointer)

LEMMA UserInvStep ==
  ASSUME PublicInv, [ReleaseNext]_releaseVars
  PROVE  UserInv'
<1>1. UNCHANGED release \/ IsUpload
  BY OnlyUploads
<1>2. ASSUME NEW x, IsPointer(x)
      PROVE  IsPointer(x)'
  BY <1>1, <1>2, PointerStays
<1>3. ASSUME NEW m, HasManifest(m)
      PROVE  HasManifest(m)'
  BY <1>1, <1>3, WholeStays DEF HasManifest
<1>4. ASSUME NEW d, IsDownload(d)
      PROVE  IsDownload(d)'
  <2>1. CASE d = Nothing
    BY <2>1 DEF IsDownload, Nothing
  <2>2. CASE d # Nothing
    <3>1. PICK x : x = d.pointer
      OBVIOUS
    <3>2. IsPointer(x)'
      BY <3>1, <1>2, <1>4, <2>2 DEF IsDownload
    <3>. QED
      BY <3>1, <3>2, <1>4, <2>2 DEF IsDownload
  <2>. QED
    BY <2>1, <2>2
<1>5. /\ IsDownload(user) /\ HasManifest(local.manifest)
      /\ local = [manifest |-> local.manifest, dataset |-> local.dataset]
  BY DEF PublicInv, UserInv, IsDownload, HasManifest
<1>6. ASSUME NEW d, NEW m, NEW files, IsDownload(d), HasManifest(m), user' = d,
             local' = [manifest |-> m, dataset |-> files]
      PROVE  UserInv'
  <2>1. IsDownload(d)' /\ HasManifest(m)'
    BY <1>3, <1>4, <1>6
  <2>2. local'.manifest = m /\ local' = [manifest |-> local'.manifest, dataset |-> local'.dataset]
    BY <1>6
  <2>. QED
    BY <2>1, <2>2, <1>6 DEF UserInv, IsDownload, HasManifest
<1>7. PICK u, m, files : u = user /\ m = local.manifest /\ files = local.dataset
  OBVIOUS
<1>8. IsDownload(u) /\ HasManifest(m) /\ local = [manifest |-> m, dataset |-> files]
  BY <1>5, <1>7
<1>9. IsDownload(Nothing)
  BY DEF IsDownload
<1>10. CASE UNCHANGED <<user, local>>
  BY <1>6, <1>7, <1>8, <1>10
<1>11. CASE DownloadPointer
  <2>1. PICK d : d = [step |-> "pointer", pointer |-> latest]
    OBVIOUS
  <2>2. IsDownload(d)
    BY <2>1, <1>11 DEF DownloadPointer, PublicInv, Pointers, IsDownload
  <2>3. user' = d /\ UNCHANGED local
    BY <2>1, <1>11 DEF DownloadPointer
  <2>. QED
    BY <1>6, <1>8, <2>2, <2>3
<1>12. CASE DownloadManifest
  <2>1. PICK got : /\ got \in {Assets(user.pointer.version).manifest, Damaged}
                   /\ local' = [local EXCEPT !.manifest = got]
                   /\ user' = IF got = user.pointer.manifest
                              THEN [user EXCEPT !.step = "manifest"] ELSE Nothing
    BY <1>12 DEF DownloadManifest
  <2>2. user # Nothing
    BY <1>12 DEF DownloadManifest, Nothing
  <2>3. /\ IsPointer(u.pointer)
        /\ u = [step |-> u.step, pointer |-> u.pointer]
    BY <2>2, <1>7, <1>8 DEF IsDownload
  <2>4. /\ Whole(u.pointer.version, u.pointer.manifest)
        /\ u.pointer.version \in ReleaseVersion
    BY <2>3 DEF IsPointer
  <2>5. got \in {u.pointer.manifest, Damaged}
    BY <2>1, <2>4, <1>7 DEF Whole
  <2>6. HasManifest(got)
    <3>1. u.pointer.manifest.version = u.pointer.version
      BY <2>4 DEF Whole, Good, Manifest
    <3>. QED
      BY <2>4, <2>5, <3>1 DEF HasManifest
  <2>7. PICK d : d = IF got = user.pointer.manifest THEN [user EXCEPT !.step = "manifest"] ELSE Nothing
    OBVIOUS
  <2>8. IsDownload(d)
    <3>1. CASE d = Nothing
      BY <3>1, <1>9
    <3>2. CASE d # Nothing
      <4>1. d = [step |-> "manifest", pointer |-> u.pointer]
        BY <3>2, <2>7, <2>3, <1>7
      <4>. QED
        BY <4>1, <2>3 DEF IsDownload
    <3>. QED
      BY <3>1, <3>2
  <2>9. local' = [manifest |-> got, dataset |-> files] /\ user' = d
    BY <2>1, <2>7, <1>8
  <2>. QED
    BY <1>6, <2>6, <2>8, <2>9
<1>13. CASE DownloadDataset
  <2>1. PICK got : local' = [manifest |-> local.manifest,
                             dataset |-> [local.dataset EXCEPT ![user.pointer.version] = got]]
    BY <1>13 DEF DownloadDataset
  <2>2. PICK data : data = [local.dataset EXCEPT ![user.pointer.version] = got]
    OBVIOUS
  <2>3. local' = [manifest |-> m, dataset |-> data] /\ user' = Nothing
    BY <2>1, <2>2, <1>7, <1>13 DEF DownloadDataset
  <2>. QED
    BY <1>6, <1>8, <1>9, <2>3
<1>14. CASE DownloadEnds
  <2>1. user' = Nothing /\ UNCHANGED local
    BY <1>14 DEF DownloadEnds
  <2>. QED
    BY <1>6, <1>8, <1>9, <2>1
<1>. QED
  BY <1>10, <1>11, <1>12, <1>13, <1>14 DEF ReleaseNext, releaseVars, ReleaseWorkflow, User, Collect,
     StartRelease, AssertPromotableRuns, LoadColumns, LoadRecords, WriteDataset, WriteManifest,
     BuildPointer, InstallOnTrial, Upload, AdvanceLatest, ReleaseEnds, VerifyRollback, MoveLatest,
     Install, userVars

(* What is activated is the dataset of a whole release. *)
IsInstallation(x) ==
  /\ x = [version |-> x.version, dataset |-> x.dataset]
  /\ x.version \in ReleaseVersion
  /\ \E m : Whole(x.version, m) /\ x.dataset = m.dataset

LEMMA InstalledInvStep ==
  ASSUME PublicInv, [ReleaseNext]_releaseVars
  PROVE  InstalledInv'
<1>1. UNCHANGED release \/ IsUpload
  BY OnlyUploads
<1>2. ASSUME NEW x, IsInstallation(x), installed' = x
      PROVE  InstalledInv'
  <2>1. PICK m : Whole(x.version, m) /\ x.dataset = m.dataset
    BY <1>2 DEF IsInstallation
  <2>2. PICK v \in ReleaseVersion : v = x.version
    BY <1>2 DEF IsInstallation
  <2>3. Whole(v, m)'
    BY <1>1, <2>1, <2>2, WholeStays
  <2>4. Assets(v)'.manifest = m /\ Assets(v)'.dataset = m.dataset
    BY <2>3 DEF Whole
  <2>. QED
    BY <1>2, <2>1, <2>2, <2>3, <2>4 DEF InstalledInv, IsInstallation
<1>3. CASE UNCHANGED installed
  <2>1. PICK x : x = installed
    OBVIOUS
  <2>2. CASE x = None
    BY <1>3, <2>1, <2>2 DEF InstalledInv
  <2>3. CASE x # None
    <3>1. IsInstallation(x)
      BY <2>1, <2>3 DEF PublicInv, InstalledInv, IsInstallation, Whole
    <3>. QED
      BY <1>2, <1>3, <2>1, <3>1
  <2>. QED
    BY <2>2, <2>3
<1>4. CASE Install
  <2>. DEFINE dataset == local.dataset[local.manifest.version]
  <2>1. PICK m : m = local.manifest
    OBVIOUS
  <2>2. m \notin {None, Damaged} /\ m.version \in ReleaseVersion /\ Whole(m.version, m)
    BY <1>4, <2>1 DEF Install, PublicInv, UserInv
  <2>3. dataset = m.dataset /\ IsImportable(m.dataset)
    BY <1>4, <2>1, <2>2 DEF Install, IsWhole, Whole, Good
  <2>4. installed' = [version |-> m.version, dataset |-> m.dataset]
    BY <1>4, <2>1, <2>3 DEF Install
  <2>5. PICK x : x = [version |-> m.version, dataset |-> m.dataset]
    OBVIOUS
  <2>6. IsInstallation(x)
    BY <2>2, <2>5 DEF IsInstallation
  <2>. QED
    BY <1>2, <2>4, <2>5, <2>6
<1>. QED
  BY <1>3, <1>4 DEF ReleaseNext, releaseVars, ReleaseWorkflow, User, Collect,
     StartRelease, AssertPromotableRuns, LoadColumns, LoadRecords, WriteDataset, WriteManifest,
     BuildPointer, InstallOnTrial, Upload, AdvanceLatest, ReleaseEnds, VerifyRollback, MoveLatest,
     DownloadPointer, DownloadManifest, DownloadDataset, DownloadEnds, userVars

-----------------------------------------------------------------------------
LEMMA PublicInvInit ==
  ASSUME ReleaseInit
  PROVE  PublicInv
<1>1. WorkflowInv
  BY DEF ReleaseInit, WorkflowInv, JobForm, DirectoryForm, Exports, Writes, Uploads, Nothing, NoFiles
<1>2. PipelineForm /\ RowsInv /\ ReleaseInv
  BY DEF ReleaseInit, PipelineForm, RowsInv, ReleaseInv, OneOfEach
<1>3. Pointers /\ UserInv /\ InstalledInv
  BY DEF ReleaseInit, Pointers, UserInv, InstalledInv
<1>. QED
  BY <1>1, <1>2, <1>3 DEF PublicInv

LEMMA PublicInvStep ==
  ASSUME PublicInv, [ReleaseNext]_releaseVars
  PROVE  PublicInv'
<1>1. ReleaseInv'
  BY OnlyUploads, ReleaseInvStep
<1>. QED
  BY <1>1, RowsInvStep, WorkflowInvStep, PointersStep, UserInvStep, InstalledInvStep DEF PublicInv

LEMMA PublicInvAlways == ReleaseSpec => []PublicInv
BY PublicInvInit, PublicInvStep, PTL DEF ReleaseSpec

(* Whatever uploads, releases and rollbacks end half way, and whatever a   *)
(* source lost in between: what the latest pointer names has both assets,  *)
(* of one dataset, with rows of every included source.                     *)
THEOREM PointersAreWhole == ReleaseSpec => []LatestIsWhole
<1>1. ASSUME PublicInv
      PROVE  LatestIsWhole
  <2>1. ASSUME latest # None
        PROVE  Whole(latest.version, latest.manifest)
    BY <1>1, <2>1 DEF PublicInv, Pointers, IsPointer
  <2>2. ASSUME NEW v, NEW m, Whole(v, m)
        PROVE  {SourceOf[p] : p \in DOMAIN m.dataset} = Source
    BY <2>2 DEF Whole, Good, Manifest
  <2>. QED
    BY <2>1, <2>2 DEF LatestIsWhole, Whole
<1>. QED
  BY <1>1, PublicInvAlways, PTL

(* A user activates nothing but the dataset of a release, and no dataset   *)
(* that was exported and verified is refused by an installation.           *)
THEOREM InstallationsAreReleases == ReleaseSpec => []InstalledWasReleased
<1>1. ASSUME PublicInv
      PROVE  InstalledWasReleased
  <2>1. ASSUME installed # None
        PROVE  "version" \in DOMAIN installed /\ installed.dataset = Assets(installed.version).dataset
    BY <1>1, <2>1 DEF PublicInv, InstalledInv
  <2>2. ASSUME job # Nothing
        PROVE  job.step # "refused"
    BY <1>1, <2>2 DEF PublicInv, WorkflowInv, JobForm, EarlySteps, Nothing
  <2>. QED
    BY <2>1, <2>2 DEF InstalledWasReleased
<1>. QED
  BY <1>1, PublicInvAlways, PTL

-----------------------------------------------------------------------------
(* Acceptance snapshots *)

CreatorSteps == {"counting", "dumping", "dumped"}
FormOfCreator ==
  creator = [step |-> creator.step, todo |-> creator.todo, counts |-> creator.counts]

(* From the check of the baseline on there is no manifest; what a creator  *)
(* has dumped is in its partial file, or on its way to the manifest.       *)
CreatorInv ==
  \/ creator = Absent
  \/ creator.step = "counting" /\ FormOfCreator
  \/ creator.step = "dumping" /\ FormOfCreator /\ shelf.manifest = Absent
  \/ /\ creator.step = "dumped" /\ FormOfCreator
     /\ shelf.manifest = Absent /\ shelf.partial \in dumps
  \/ creator.step = "describing" /\ shelf.manifest = Absent /\ creator.dump \in dumps

(* Every manifest names a dump, and no dump is empty.                      *)
FilesInv ==
  /\ inspected = [policies |-> inspected.policies, rules |-> inspected.rules, runs |-> inspected.runs]
  /\ inspected.runs \in Nat \ {0}
  /\ NoRows \notin dumps
  /\ shelf = [partial |-> shelf.partial, dump |-> shelf.dump, manifest |-> shelf.manifest]
  /\ shelf.manifest \notin {Absent, Unreadable} => shelf.manifest.dump \in dumps

(* A volume without a schema has no rows; one without rows was not loaded. *)
VolumeInv ==
  /\ volume = [revision |-> volume.revision, rows |-> volume.rows, loads |-> volume.loads]
  /\ volume.revision = Absent => volume.rows = NoRows
  /\ volume.rows = NoRows => volume.loads = 0
  /\ volume.rows # NoRows => volume.rows \in dumps /\ volume.loads = 1

WithDump == {"verified", "prepared", "upgraded", "ready", "checked"}
WithSchema == {"upgraded", "ready", "checked", "loaded", "restored", "proved", "migrated", "started"}
WithProof == {"proved", "migrated", "started"}

(* What a restorer has reached stands, whoever works beside it.            *)
RestorerInv(o) ==
  /\ restorer[o].step \in WithDump => restorer[o].dump \in dumps
  /\ restorer[o].step \in WithSchema => volume.revision # Absent
  /\ restorer[o].step \in WithProof => IsBaselineData(volume.rows)

(* Undisturbed, a restorer of a good snapshot finds at each step what it   *)
(* will check next.                                                        *)
QuietInv(o) ==
  restorer[o].calm =>
    /\ \A p \in Operator \ {o} : restorer[p].step \in Idle
    /\ restorer[o].step \in WithDump \cup WithSchema
    /\ IsBaselineData(restorer[o].dump)
    /\ restorer[o].step \in {"verified", "prepared", "upgraded", "ready"} =>
         shelf.manifest # Absent /\ shelf.dump = restorer[o].dump
    /\ restorer[o].step \in {"verified", "prepared"} => volume.revision = Absent
    /\ restorer[o].step \in {"upgraded", "ready", "checked"} => SchemaIsReady
    /\ restorer[o].step \in {"loaded", "restored"} =>
         volume.revision = "acceptance" /\ volume.rows = restorer[o].dump

FormOfRestorer(record) ==
  record = [step |-> record.step, dump |-> record.dump, calm |-> record.calm]
FormOfRestorers ==
  /\ restorer = [o \in Operator |-> restorer[o]]
  /\ \A o \in Operator : FormOfRestorer(restorer[o])

AcceptanceInv ==
  /\ CreatorInv /\ FilesInv /\ VolumeInv /\ FormOfRestorers
  /\ \A o \in Operator : RestorerInv(o) /\ QuietInv(o)

-----------------------------------------------------------------------------
(* An empty database is not the baseline. *)
LEMMA EmptyIsNoBaseline == ~IsBaselineData(NoRows)
  BY AcceptanceAssumption DEF IsBaselineData, Counts, NoRows

(* A database with runs is not an empty one. *)
LEMMA RunsAreRows ==
  ASSUME FilesInv PROVE inspected # NoRows
  BY DEF FilesInv, NoRows

LEMMA InitAcceptance == AcceptanceInit => AcceptanceInv
<1> SUFFICES ASSUME AcceptanceInit PROVE AcceptanceInv
  OBVIOUS
<1>1. CreatorInv /\ FilesInv /\ VolumeInv
  BY DEF AcceptanceInit, CreatorInv, FilesInv, VolumeInv, NoFilesOnShelf, Fresh
<1>3. FormOfRestorers
  <2>1. \A o \in Operator : restorer[o] = [step |-> "resting", dump |-> Absent, calm |-> FALSE]
    BY DEF AcceptanceInit
  <2>2. \A o \in Operator : FormOfRestorer(restorer[o])
    BY <2>1 DEF FormOfRestorer
  <2>3. restorer = [o \in Operator |-> restorer[o]]
    BY DEF AcceptanceInit
  <2> QED
    BY <2>2, <2>3 DEF FormOfRestorers
<1>2. \A o \in Operator : RestorerInv(o) /\ QuietInv(o)
  BY DEF AcceptanceInit, RestorerInv, QuietInv, WithDump, WithSchema, WithProof
<1> QED
  BY <1>1, <1>2, <1>3 DEF AcceptanceInv

-----------------------------------------------------------------------------
(* The creator *)

(* While there is a manifest, a creator leaves manifest and dump alone.    *)
CreatorKeepsSnapshot ==
  shelf.manifest # Absent => shelf'.manifest # Absent /\ shelf'.dump = shelf.dump

(* A creator that keeps its own disturbs no restorer.                      *)
LEMMA CreatorDisturbsNobody ==
  ASSUME AcceptanceInv, CreatorInv', FilesInv', dumps \subseteq dumps', CreatorKeepsSnapshot,
         restorer' = restorer, volume' = volume
  PROVE  AcceptanceInv'
<1>1. VolumeInv' /\ FormOfRestorers'
  BY DEF AcceptanceInv, VolumeInv, FormOfRestorers
<1>2. ASSUME NEW o \in Operator PROVE RestorerInv(o)' /\ QuietInv(o)'
  <2>1. RestorerInv(o) /\ QuietInv(o)
    BY DEF AcceptanceInv
  <2>2. RestorerInv(o)'
    BY <2>1 DEF RestorerInv, IsBaselineData, IsStable, Counts
  <2>3. QuietInv(o)'
    BY <2>1 DEF QuietInv, IsBaselineData, IsStable, Counts, SchemaIsReady, CreatorKeepsSnapshot
  <2> QED
    BY <2>2, <2>3
<1> QED
  BY <1>1, <1>2 DEF AcceptanceInv

CreatorStep ==
  \/ StartCreation \/ CountTable \/ CheckBaseline \/ DumpTables \/ DumpFails \/ ReplaceDump
  \/ WriteSnapshotManifest \/ WriteFails \/ CreatorDies

LEMMA CreatorKeeps ==
  ASSUME AcceptanceInv, CreatorStep PROVE AcceptanceInv'
<1>1. CreatorInv /\ FilesInv
  BY DEF AcceptanceInv
<1> USE DEF CreationEnds, CreationGoesOn, UnchangedElse, FormOfCreator, CreatorKeepsSnapshot
<1>2. restorer' = restorer /\ volume' = volume /\ inspected' = inspected
  BY DEF CreatorStep, StartCreation, CountTable, CheckBaseline, DumpTables, DumpFails,
         ReplaceDump, WriteSnapshotManifest, WriteFails, CreatorDies
<1>3. CASE StartCreation
  BY <1>1, <1>2, <1>3, CreatorDisturbsNobody DEF StartCreation, CreatorInv, FilesInv
<1>4. CASE CountTable
  <2>1. CreatorInv'
    BY <1>1, <1>4 DEF CountTable, CreatorInv
  <2> QED
    BY <1>1, <1>2, <1>4, <2>1, CreatorDisturbsNobody DEF CountTable, FilesInv
<1>5. CASE CheckBaseline
  <2>1. CreatorInv'
    BY <1>1, <1>5 DEF CheckBaseline, CreatorInv
  <2> QED
    BY <1>1, <1>2, <1>5, <2>1, CreatorDisturbsNobody DEF CheckBaseline, FilesInv
<1>6. CASE DumpTables
  <2>1. CASE shelf.dump = Absent /\ shelf.partial = Absent
    <3>1. CreatorInv' /\ FilesInv' /\ dumps \subseteq dumps' /\ CreatorKeepsSnapshot
      BY <1>1, <1>2, <1>6, <2>1, RunsAreRows DEF DumpTables, CreatorInv, FilesInv
    <3> QED
      BY <1>2, <3>1, CreatorDisturbsNobody
  <2>2. CASE ~(shelf.dump = Absent /\ shelf.partial = Absent)
    BY <1>1, <1>2, <1>6, <2>2, CreatorDisturbsNobody DEF DumpTables, CreatorInv, FilesInv
  <2> QED
    BY <2>1, <2>2
<1>7. CASE DumpFails
  BY <1>1, <1>2, <1>7, CreatorDisturbsNobody DEF DumpFails, CreatorInv, FilesInv
<1>8. CASE ReplaceDump
  BY <1>1, <1>2, <1>8, CreatorDisturbsNobody DEF ReplaceDump, CreatorInv, FilesInv
<1>9. CASE WriteSnapshotManifest
  BY <1>1, <1>2, <1>9, CreatorDisturbsNobody
     DEF WriteSnapshotManifest, SnapshotManifest, CreatorInv, FilesInv
<1>10. CASE WriteFails
  <2>1. /\ creator' = Absent /\ dumps' = dumps /\ shelf.manifest = Absent /\ creator.dump \in dumps
        /\ \E left \in {Absent, Unreadable, SnapshotManifest} :
             shelf' = [shelf EXCEPT !.manifest = left, !.dump = Absent]
    BY <1>1, <1>10 DEF WriteFails, CreatorInv
  <2>2. /\ shelf' = [partial |-> shelf'.partial, dump |-> shelf'.dump, manifest |-> shelf'.manifest]
        /\ shelf'.manifest \in {Absent, Unreadable, SnapshotManifest}
    BY <1>1, <2>1 DEF FilesInv
  <2>3. shelf'.manifest \notin {Absent, Unreadable} => shelf'.manifest.dump \in dumps
    BY <2>1, <2>2 DEF SnapshotManifest
  <2>4. CreatorInv' /\ FilesInv' /\ CreatorKeepsSnapshot
    BY <1>1, <1>2, <2>1, <2>2, <2>3 DEF CreatorInv, FilesInv
  <2> QED
    BY <1>2, <2>1, <2>4, CreatorDisturbsNobody
<1>11. CASE CreatorDies
  <2>1. /\ creator' = Absent /\ dumps' = dumps /\ creator # Absent
        /\ \E left : /\ shelf' = [shelf EXCEPT !.manifest = left]
                     /\ left = shelf.manifest \/ (left \in {Absent, Unreadable} /\ creator.step = "describing")
    BY <1>11 DEF CreatorDies
  <2>2. shelf'.dump = shelf.dump /\ shelf'.partial = shelf.partial
        /\ (shelf'.manifest = shelf.manifest
              \/ (shelf'.manifest \in {Absent, Unreadable} /\ creator.step = "describing"))
        /\ shelf' = [partial |-> shelf'.partial, dump |-> shelf'.dump, manifest |-> shelf'.manifest]
    BY <1>1, <2>1 DEF FilesInv
  <2>3. CreatorInv' /\ FilesInv'
    BY <1>1, <1>2, <2>1, <2>2 DEF CreatorInv, FilesInv
  <2>4. CreatorKeepsSnapshot
    BY <1>1, <2>1, <2>2 DEF CreatorInv
  <2> QED
    BY <1>2, <2>1, <2>3, <2>4, CreatorDisturbsNobody
<1> QED
  BY <1>3, <1>4, <1>5, <1>6, <1>7, <1>8, <1>9, <1>10, <1>11 DEF CreatorStep

-----------------------------------------------------------------------------
(* The restorers *)

(* A step that leaves files and volume alone keeps the invariant of whom   *)
(* it leaves alone, or leaves no longer calm, if nobody sets to work.      *)
LEMMA OthersRest ==
  ASSUME AcceptanceInv, NEW o \in Operator, NEW q \in Operator \ {o},
         UNCHANGED <<shelf, dumps, volume>>,
         restorer'[q] = restorer[q],
         restorer[o].step \in Idle => restorer'[o].step \in Idle,
         \A p \in Operator \ {o} : restorer'[p] = restorer[p]
  PROVE  RestorerInv(q)' /\ QuietInv(q)'
<1>1. RestorerInv(q) /\ QuietInv(q)
  BY DEF AcceptanceInv
<1>2. RestorerInv(q)'
  BY <1>1 DEF RestorerInv, IsBaselineData, IsStable, Counts
<1>3. QuietInv(q)'
  BY <1>1 DEF QuietInv, IsBaselineData, IsStable, Counts, SchemaIsReady
<1> QED
  BY <1>2, <1>3

(* Where o is after a step of its own. *)
LEMMA MovesOn ==
  ASSUME AcceptanceInv, NEW o \in Operator, NEW step, Moves_to(o, step)
  PROVE  /\ restorer'[o] = [step |-> step, dump |-> restorer[o].dump, calm |-> restorer[o].calm]
         /\ restorer'[o].step = step /\ restorer'[o].dump = restorer[o].dump
         /\ restorer'[o].calm = restorer[o].calm
         /\ \A q \in Operator \ {o} : restorer'[q] = restorer[q]
<1>1. FormOfRestorer(restorer[o])
  BY DEF AcceptanceInv, FormOfRestorers
<1>2. restorer'[o] = [restorer[o] EXCEPT !.step = step]
  BY DEF Moves_to
<1>3. restorer'[o] = [step |-> step, dump |-> restorer[o].dump, calm |-> restorer[o].calm]
  BY <1>1, <1>2 DEF FormOfRestorer
<1> QED
  BY <1>3 DEF Moves_to

(* The restorers keep their form when o moves on. *)
LEMMA MovesKeepForm ==
  ASSUME AcceptanceInv, NEW o \in Operator, NEW step, Moves_to(o, step)
  PROVE  FormOfRestorers'
<1>1. \A q \in Operator : FormOfRestorer(restorer[q])
  BY DEF AcceptanceInv, FormOfRestorers
<1>2. \A q \in Operator : FormOfRestorer(restorer'[q])
  BY <1>1, MovesOn DEF FormOfRestorer
<1>3. restorer' = [q \in Operator |-> restorer'[q]]
  BY DEF Moves_to
<1> QED
  BY <1>2, <1>3 DEF FormOfRestorers, FormOfRestorer

(* A step of o that moves it on and leaves everything else alone.          *)
LEMMA MoveKeeps ==
  ASSUME AcceptanceInv, NEW o \in Operator, NEW step, Moves_to(o, step),
         restorer[o].step \notin Idle, UnchangedRest, UNCHANGED volume,
         RestorerInv(o)', QuietInv(o)'
  PROVE  AcceptanceInv'
<1>1. FormOfRestorers'
  BY MovesKeepForm
<1>2. \A q \in Operator \ {o} : restorer'[q] = restorer[q]
  BY DEF Moves_to
<1>3. CreatorInv' /\ FilesInv' /\ VolumeInv'
  BY DEF AcceptanceInv, UnchangedRest, CreatorInv, FilesInv, VolumeInv, FormOfCreator
<1>4. \A q \in Operator \ {o} : RestorerInv(q)' /\ QuietInv(q)'
  BY <1>2, OthersRest DEF UnchangedRest
<1> QED
  BY <1>1, <1>3, <1>4 DEF AcceptanceInv

Checks(o) ==
  \/ Prepare(o) \/ PrepareAgain(o) \/ RestoreChecks(o) \/ RestoreCounts(o)
  \/ VerifyRestored(o) \/ StartServices(o)

(* A check moves o on or refuses it, and never refuses it when it is calm. *)
LEMMA ChecksKeep ==
  ASSUME AcceptanceInv, NEW o \in Operator, Checks(o)
  PROVE  AcceptanceInv'
<1>1. RestorerInv(o) /\ QuietInv(o) /\ VolumeInv
  BY DEF AcceptanceInv
<1>2. PICK step : /\ Moves_to(o, step) /\ UNCHANGED volume /\ UnchangedRest
                  /\ \/ step = "prepared" /\ restorer[o].step = "verified"
                     \/ step = "ready" /\ restorer[o].step = "upgraded" /\ SchemaIsReady
                     \/ step = "checked" /\ restorer[o].step = "ready" /\ MayLoad(o)
                     \/ step = "restored" /\ restorer[o].step = "loaded"
                     \/ step = "proved" /\ restorer[o].step = "restored" /\ IsRestored(volume)
                     \/ step = "started" /\ restorer[o].step = "migrated"
                     \/ step = "refused" /\ restorer[o].step = "verified"
                          /\ volume.revision # Absent
                     \/ step = "refused" /\ restorer[o].step = "upgraded" /\ ~SchemaIsReady
                     \/ step = "refused" /\ restorer[o].step = "ready" /\ ~MayLoad(o)
                     \/ step = "refused" /\ restorer[o].step = "loaded"
                          /\ Counts(volume.rows).policies # EXPECTED_ROW_COUNTS.policies
                     \/ step = "refused" /\ restorer[o].step = "restored" /\ ~IsRestored(volume)
  BY DEF Checks, Prepare, PrepareAgain, RestoreChecks, RestoreCounts, VerifyRestored,
         StartServices, IfThen
<1>3. /\ restorer'[o].step = step /\ restorer'[o].dump = restorer[o].dump
      /\ restorer'[o].calm = restorer[o].calm
      /\ \A q \in Operator \ {o} : restorer'[q] = restorer[q]
  BY <1>2, MovesOn
<1>4. UNCHANGED <<shelf, dumps, volume>>
  BY <1>2 DEF UnchangedRest
<1>5. step = "refused" => ~restorer[o].calm
  BY <1>1, <1>2 DEF QuietInv, MayLoad, SchemaIsReady, IsRestored, IsBaselineData
<1>6. RestorerInv(o)'
  BY <1>1, <1>2, <1>3, <1>4
     DEF RestorerInv, WithDump, WithSchema, WithProof, IsBaselineData, IsStable, Counts, IsRestored
<1>7. QuietInv(o)'
  <2> SUFFICES ASSUME restorer[o].calm PROVE QuietInv(o)'
    BY <1>3 DEF QuietInv
  <2>1. step # "refused"
    BY <1>5
  <2>2. \A p \in Operator \ {o} : restorer'[p].step \in Idle
    BY <1>1, <1>3 DEF QuietInv
  <2>3. IsBaselineData(restorer[o].dump)'
    BY <1>1, <1>3 DEF QuietInv, IsBaselineData, IsStable, Counts
  <2>4. IsBaselineData(restorer[o].dump) /\ restorer'[o].step = step
    BY <1>1, <1>3 DEF QuietInv
  <2>5. /\ step \in {"prepared", "ready"} => shelf.manifest # Absent /\ shelf.dump = restorer[o].dump
        /\ step = "prepared" => volume.revision = Absent
        /\ step \in {"ready", "checked"} => SchemaIsReady
        /\ step = "restored" => volume.revision = "acceptance" /\ volume.rows = restorer[o].dump
        /\ step \in {"prepared", "ready", "checked", "restored", "proved", "started"}
    BY <1>1, <1>2, <2>1 DEF QuietInv, MayLoad
  <2> QED
    BY <1>3, <1>4, <2>2, <2>3, <2>5 DEF QuietInv, WithDump, WithSchema, SchemaIsReady
<1>8. restorer[o].step \notin Idle
  BY <1>2 DEF Idle
<1> QED
  BY <1>2, <1>6, <1>7, <1>8, MoveKeeps

(* Beside somebody at work nobody is calm. *)
LEMMA NobodyIsCalm ==
  ASSUME AcceptanceInv, NEW o \in Operator, restorer[o].step \notin Idle
  PROVE  \A q \in Operator \ {o} : ~restorer[q].calm
  BY DEF AcceptanceInv, QuietInv

(* A step that changes the volume keeps what others have reached if the    *)
(* schema stays and proved data is not touched.                            *)
LEMMA VolumeStepKeeps ==
  ASSUME AcceptanceInv, NEW o \in Operator, NEW step, Moves_to(o, step),
         restorer[o].step \notin Idle, UnchangedRest,
         VolumeInv', RestorerInv(o)', QuietInv(o)',
         volume.revision # Absent => volume'.revision # Absent,
         volume'.rows = volume.rows \/ volume.rows = NoRows
  PROVE  AcceptanceInv'
<1>1. FormOfRestorers'
  BY MovesKeepForm
<1>2. CreatorInv' /\ FilesInv'
  BY DEF AcceptanceInv, UnchangedRest, CreatorInv, FilesInv, FormOfCreator
<1>3. ASSUME NEW q \in Operator \ {o} PROVE RestorerInv(q)' /\ QuietInv(q)'
  <2>1. restorer'[q] = restorer[q] /\ ~restorer[q].calm /\ RestorerInv(q) /\ dumps' = dumps
    BY MovesOn, NobodyIsCalm DEF AcceptanceInv, UnchangedRest
  <2>2. QuietInv(q)'
    BY <2>1 DEF QuietInv
  <2>3. CASE volume'.rows = volume.rows
    <3>1. IsBaselineData(volume.rows) => IsBaselineData(volume.rows)'
      BY <2>3 DEF IsBaselineData, IsStable, Counts
    <3> QED
      BY <2>1, <2>2, <3>1 DEF RestorerInv
  <2>4. CASE volume.rows = NoRows
    <3>1. restorer[q].step \notin WithProof
      BY <2>1, <2>4, EmptyIsNoBaseline DEF RestorerInv
    <3> QED
      BY <2>1, <2>2, <3>1 DEF RestorerInv
  <2> QED
    BY <2>3, <2>4
<1> QED
  BY <1>1, <1>2, <1>3 DEF AcceptanceInv

LEMMA UpgradeKeeps ==
  ASSUME AcceptanceInv, NEW o \in Operator, Upgrade(o)
  PROVE  AcceptanceInv'
<1>1. RestorerInv(o) /\ QuietInv(o) /\ VolumeInv
  BY DEF AcceptanceInv
<1>2. /\ restorer[o].step = "prepared" /\ restorer'[o].step = "upgraded"
      /\ restorer'[o].dump = restorer[o].dump /\ restorer'[o].calm = restorer[o].calm
      /\ \A q \in Operator \ {o} : restorer'[q] = restorer[q]
      /\ shelf' = shelf /\ dumps' = dumps
  BY MovesOn DEF Upgrade, UnchangedRest
<1>3. /\ volume'.rows = volume.rows /\ volume'.loads = volume.loads
      /\ volume' = [revision |-> volume'.revision, rows |-> volume'.rows, loads |-> volume'.loads]
      /\ volume.revision = Absent => volume'.revision = "acceptance"
      /\ volume.revision # Absent => volume'.revision = volume.revision
  BY <1>1 DEF Upgrade, VolumeInv
<1>4. VolumeInv'
  BY <1>1, <1>2, <1>3, AcceptanceAssumption DEF VolumeInv
<1>5. RestorerInv(o)'
  BY <1>1, <1>2, <1>3, AcceptanceAssumption DEF RestorerInv, WithDump, WithSchema, WithProof
<1>6. QuietInv(o)'
  <2>1. restorer[o].calm => IsBaselineData(restorer[o].dump)'
    BY <1>1, <1>2 DEF QuietInv, IsBaselineData, IsStable, Counts
  <2>2. restorer[o].calm => SchemaIsReady'
    BY <1>1, <1>2, <1>3 DEF QuietInv, SchemaIsReady, VolumeInv
  <2> QED
    BY <1>1, <1>2, <2>1, <2>2 DEF QuietInv, WithDump, WithSchema
<1> QED
  BY <1>1, <1>2, <1>3, <1>4, <1>5, <1>6, VolumeStepKeeps, AcceptanceAssumption DEF Upgrade, Idle

LEMMA LoadKeeps ==
  ASSUME AcceptanceInv, NEW o \in Operator, RestoreLoads(o)
  PROVE  AcceptanceInv'
<1>1. RestorerInv(o) /\ QuietInv(o) /\ VolumeInv /\ FilesInv
  BY DEF AcceptanceInv
<1>2. restorer[o].step = "checked" /\ shelf' = shelf /\ dumps' = dumps
  BY DEF RestoreLoads, UnchangedRest
<1>3. CASE volume.rows = NoRows
  <2>1. /\ Moves_to(o, "loaded")
        /\ volume' = [volume EXCEPT !.rows = restorer[o].dump, !.loads = @ + 1]
    BY <1>3 DEF RestoreLoads, Loaded
  <2>2. /\ restorer'[o].step = "loaded"
        /\ restorer'[o].dump = restorer[o].dump /\ restorer'[o].calm = restorer[o].calm
        /\ \A q \in Operator \ {o} : restorer'[q] = restorer[q]
    BY <2>1, MovesOn
  <2>3. /\ volume' = [revision |-> volume.revision, rows |-> restorer[o].dump, loads |-> 1]
        /\ restorer[o].dump \in dumps /\ restorer[o].dump # NoRows /\ volume.revision # Absent
    <3>1. restorer[o].dump \in dumps /\ restorer[o].dump # NoRows /\ volume.revision # Absent
      BY <1>1, <1>2 DEF RestorerInv, WithDump, WithSchema, FilesInv
    <3>2. volume = [revision |-> volume.revision, rows |-> volume.rows, loads |-> 0]
      BY <1>1, <1>3 DEF VolumeInv
    <3> DEFINE full == [volume EXCEPT !.rows = restorer[o].dump]
    <3>3. full = [revision |-> volume.revision, rows |-> restorer[o].dump, loads |-> 0]
      BY <3>2
    <3>4. volume' = [full EXCEPT !.loads = @ + 1]
      BY <2>1
    <3> HIDE DEF full
    <3> QED
      BY <3>1, <3>3, <3>4
  <2>4. VolumeInv'
    BY <1>2, <2>3 DEF VolumeInv
  <2>5. RestorerInv(o)'
    BY <2>2, <2>3 DEF RestorerInv, WithDump, WithSchema, WithProof
  <2>6. QuietInv(o)'
    <3>1. restorer[o].calm => IsBaselineData(restorer[o].dump)'
      BY <1>1, <2>2 DEF QuietInv, IsBaselineData, IsStable, Counts
    <3>2. restorer[o].calm => volume.revision = "acceptance"
      BY <1>1, <1>2 DEF QuietInv, SchemaIsReady
    <3> QED
      BY <1>1, <2>2, <2>3, <3>1, <3>2 DEF QuietInv, WithDump, WithSchema
  <2> QED
    BY <1>2, <1>3, <2>1, <2>3, <2>4, <2>5, <2>6, VolumeStepKeeps DEF RestoreLoads, Idle
<1>4. CASE volume.rows # NoRows
  <2>1. Moves_to(o, "refused") /\ volume' = volume
    BY <1>4 DEF RestoreLoads
  <2>2. restorer'[o].step = "refused" /\ restorer'[o].calm = restorer[o].calm
    BY <2>1, MovesOn
  <2>3. ~restorer[o].calm
    BY <1>1, <1>2, <1>4 DEF QuietInv, SchemaIsReady
  <2>4. RestorerInv(o)' /\ QuietInv(o)'
    BY <2>2, <2>3 DEF RestorerInv, QuietInv, WithDump, WithSchema, WithProof
  <2> QED
    BY <1>2, <2>1, <2>4, MoveKeeps DEF RestoreLoads, Idle
<1> QED
  BY <1>3, <1>4

LEMMA MigrateKeeps ==
  ASSUME AcceptanceInv, NEW o \in Operator, Migrate(o)
  PROVE  AcceptanceInv'
<1>1. RestorerInv(o) /\ QuietInv(o) /\ VolumeInv
  BY DEF AcceptanceInv
<1>2. /\ restorer[o].step = "proved" /\ restorer'[o].step = "migrated"
      /\ restorer'[o].dump = restorer[o].dump /\ restorer'[o].calm = restorer[o].calm
      /\ \A q \in Operator \ {o} : restorer'[q] = restorer[q]
      /\ dumps' = dumps
  BY MovesOn DEF Migrate, UnchangedRest
<1>3. volume' = [revision |-> "head", rows |-> volume.rows, loads |-> volume.loads]
  BY <1>1 DEF Migrate, VolumeInv
<1>4. VolumeInv'
  BY <1>1, <1>2, <1>3, AcceptanceAssumption DEF VolumeInv
<1>5. IsBaselineData(volume.rows)'
  BY <1>1, <1>2, <1>3 DEF RestorerInv, WithProof, IsBaselineData, IsStable, Counts
<1>6. RestorerInv(o)'
  BY <1>2, <1>3, <1>5, AcceptanceAssumption DEF RestorerInv, WithDump
<1>7. QuietInv(o)'
  <2>1. restorer[o].calm => IsBaselineData(restorer[o].dump)'
    BY <1>1, <1>2 DEF QuietInv, IsBaselineData, IsStable, Counts
  <2> QED
    BY <1>1, <1>2, <2>1 DEF QuietInv, WithDump, WithSchema
<1> QED
  BY <1>2, <1>3, <1>4, <1>6, <1>7, VolumeStepKeeps, AcceptanceAssumption DEF Migrate, Idle

LEMMA DeathKeeps ==
  ASSUME AcceptanceInv, NEW o \in Operator, RestorerDies(o)
  PROVE  AcceptanceInv'
<1>1. FormOfRestorers
  BY DEF AcceptanceInv
<1>2. /\ restorer' = [restorer EXCEPT ![o] = [step |-> "dead", dump |-> restorer[o].dump, calm |-> FALSE]]
      /\ UNCHANGED volume /\ UnchangedRest
  BY DEF RestorerDies
<1>5. /\ restorer'[o] = [step |-> "dead", dump |-> restorer[o].dump, calm |-> FALSE]
      /\ restorer' = [q \in Operator |-> restorer'[q]]
      /\ \A q \in Operator \ {o} : restorer'[q] = restorer[q]
  BY <1>1, <1>2 DEF FormOfRestorers
<1>6. FormOfRestorers'
  BY <1>1, <1>5 DEF FormOfRestorers, FormOfRestorer
<1>7. CreatorInv' /\ FilesInv' /\ VolumeInv'
  BY <1>2 DEF AcceptanceInv, UnchangedRest, CreatorInv, FilesInv, VolumeInv, FormOfCreator
<1>8. restorer'[o].step = "dead" /\ ~restorer'[o].calm
  BY <1>5
<1>9. RestorerInv(o)' /\ QuietInv(o)'
  BY <1>8 DEF RestorerInv, QuietInv, WithDump, WithSchema, WithProof
<1>10. ASSUME NEW q \in Operator \ {o} PROVE RestorerInv(q)' /\ QuietInv(q)'
  <2>1. restorer[o].step \notin Idle /\ UNCHANGED <<shelf, dumps, volume>>
    BY <1>2 DEF RestorerDies, UnchangedRest
  <2> QED
    BY <1>5, <2>1, OthersRest
<1> QED
  BY <1>6, <1>7, <1>9, <1>10 DEF AcceptanceInv

(* A verification is the only step that makes somebody calm. *)
LEMMA VerifyKeeps ==
  ASSUME AcceptanceInv, NEW o \in Operator, VerifySnapshot(o)
  PROVE  AcceptanceInv'
<1> DEFINE step == IF IsSnapshot(shelf) THEN "verified" ELSE "refused"
           calm == /\ \A p \in Operator \ {o} : restorer[p].step \in Idle
                   /\ IsSnapshot(shelf) /\ IsBaselineData(shelf.dump)
                   /\ volume.revision = Absent
<1>1. FormOfRestorers /\ FilesInv /\ VolumeInv /\ CreatorInv
  BY DEF AcceptanceInv
<1>2. /\ restorer' = [q \in Operator |->
             IF q # o THEN [restorer[q] EXCEPT !.calm = FALSE]
             ELSE [step |-> step, dump |-> shelf.dump, calm |-> calm]]
      /\ shelf' = shelf /\ dumps' = dumps /\ volume' = volume
      /\ inspected' = inspected /\ creator' = creator
  BY DEF VerifySnapshot
<1>3. FilesInv' /\ VolumeInv' /\ CreatorInv'
  BY <1>1, <1>2 DEF FilesInv, VolumeInv, CreatorInv, FormOfCreator
<1>4. restorer'[o] = [step |-> step, dump |-> shelf.dump, calm |-> calm]
  BY <1>2
<1>5. ASSUME NEW q \in Operator \ {o}
      PROVE  /\ restorer'[q] = [step |-> restorer[q].step, dump |-> restorer[q].dump, calm |-> FALSE]
             /\ restorer'[q].step = restorer[q].step /\ restorer'[q].dump = restorer[q].dump
             /\ ~restorer'[q].calm
  <2>1. restorer'[q] = [restorer[q] EXCEPT !.calm = FALSE]
    BY <1>2
  <2>2. FormOfRestorer(restorer[q])
    BY <1>1 DEF FormOfRestorers
  <2>3. restorer'[q] = [step |-> restorer[q].step, dump |-> restorer[q].dump, calm |-> FALSE]
    BY <2>1, <2>2 DEF FormOfRestorer
  <2> QED
    BY <2>3
<1>6. FormOfRestorers'
  <2>1. restorer' = [q \in Operator |-> restorer'[q]]
    <3> DEFINE next(q) == IF q # o THEN [restorer[q] EXCEPT !.calm = FALSE]
                          ELSE [step |-> step, dump |-> shelf.dump, calm |-> calm]
    <3>1. restorer' = [q \in Operator |-> next(q)]
      BY <1>2
    <3> HIDE DEF next
    <3> QED
      BY <3>1
  <2>2. FormOfRestorer(restorer'[o])
    <3> HIDE DEF step, calm
    <3> QED
      BY <1>4 DEF FormOfRestorer
  <2>3. ASSUME NEW q \in Operator \ {o} PROVE FormOfRestorer(restorer'[q])
    <3> HIDE DEF step, calm
    <3>1. restorer'[q] = [step |-> restorer[q].step, dump |-> restorer[q].dump, calm |-> FALSE]
      BY <1>5
    <3> QED
      BY <3>1 DEF FormOfRestorer
  <2> QED
    BY <2>1, <2>2, <2>3 DEF FormOfRestorers, FormOfRestorer
<1>7. ASSUME NEW q \in Operator \ {o} PROVE RestorerInv(q)' /\ QuietInv(q)'
  <2>1. /\ restorer'[q].step = restorer[q].step /\ restorer'[q].dump = restorer[q].dump
        /\ ~restorer'[q].calm /\ RestorerInv(q)
    BY <1>5 DEF AcceptanceInv
  <2> QED
    BY <1>2, <2>1 DEF RestorerInv, QuietInv, IsBaselineData, IsStable, Counts
<1>8. restorer'[o].step = step /\ restorer'[o].dump = shelf.dump
  BY <1>4
<1>9. IsSnapshot(shelf) => shelf.dump \in dumps /\ shelf.manifest # Absent
  BY <1>1 DEF IsSnapshot, FilesInv
<1>10. RestorerInv(o)'
  BY <1>2, <1>8, <1>9 DEF RestorerInv, WithSchema, WithProof, WithDump
<1>11. QuietInv(o)'
  <2>1. restorer'[o].calm => calm
    BY <1>4
  <2>2. calm => IsBaselineData(restorer[o].dump)'
    <3>1. calm => IsBaselineData(shelf.dump)
      OBVIOUS
    <3> HIDE DEF calm
    <3> QED
      BY <1>8, <3>1 DEF IsBaselineData, IsStable, Counts
  <2>3. \A p \in Operator \ {o} : restorer'[p].step = restorer[p].step
    BY <1>5
  <2>4. calm => step = "verified"
    OBVIOUS
  <2>5. SUFFICES ASSUME calm PROVE QuietInv(o)'
    BY <2>1 DEF QuietInv
  <2>6. /\ \A p \in Operator \ {o} : restorer'[p].step \in Idle
        /\ restorer'[o].step = "verified" /\ volume'.revision = Absent
        /\ shelf'.manifest # Absent /\ shelf'.dump = restorer'[o].dump
    BY <1>2, <1>8, <1>9, <2>3, <2>4, <2>5
  <2> QED
    BY <2>2, <2>5, <2>6 DEF QuietInv, WithDump
<1> QED
  BY <1>3, <1>6, <1>7, <1>10, <1>11 DEF AcceptanceInv

-----------------------------------------------------------------------------
(* From outside *)

(* What makes nobody calm and touches no volume keeps the invariant if it  *)
(* keeps that of the files.                                                *)
LEMMA DisturbanceKeeps ==
  ASSUME AcceptanceInv, CreatorInv', FilesInv', UNCHANGED <<dumps, volume>>,
         restorer' = [o \in Operator |-> [restorer[o] EXCEPT !.calm = FALSE]]
  PROVE  AcceptanceInv'
<1>1. ASSUME NEW o \in Operator
      PROVE  /\ restorer'[o] = [step |-> restorer[o].step, dump |-> restorer[o].dump, calm |-> FALSE]
             /\ restorer'[o].step = restorer[o].step /\ restorer'[o].dump = restorer[o].dump
             /\ ~restorer'[o].calm
  <2>1. FormOfRestorer(restorer[o])
    BY DEF AcceptanceInv, FormOfRestorers
  <2>2. restorer'[o] = [step |-> restorer[o].step, dump |-> restorer[o].dump, calm |-> FALSE]
    BY <2>1 DEF FormOfRestorer
  <2> QED
    BY <2>2
<1>2. FormOfRestorers' /\ VolumeInv'
  <2>1. restorer' = [o \in Operator |-> restorer'[o]]
    OBVIOUS
  <2>2. \A o \in Operator : FormOfRestorer(restorer'[o])
    BY <1>1 DEF FormOfRestorer
  <2> QED
    BY <2>1, <2>2 DEF FormOfRestorers, FormOfRestorer, AcceptanceInv, VolumeInv
<1>3. ASSUME NEW o \in Operator PROVE RestorerInv(o)' /\ QuietInv(o)'
  <2>1. /\ restorer'[o].step = restorer[o].step /\ restorer'[o].dump = restorer[o].dump
        /\ ~restorer'[o].calm /\ RestorerInv(o)
    BY <1>1 DEF AcceptanceInv
  <2>2. QuietInv(o)'
    BY <2>1 DEF QuietInv
  <2>3. RestorerInv(o)'
    BY <2>1 DEF RestorerInv, IsBaselineData, IsStable, Counts
  <2> QED
    BY <2>2, <2>3
<1> QED
  BY <1>2, <1>3 DEF AcceptanceInv

LEMMA OutsideKeeps ==
  ASSUME AcceptanceInv, ClearShelf \/ DumpAltered \/ RemoveVolume
  PROVE  AcceptanceInv'
<1>1. CreatorInv /\ FilesInv
  BY DEF AcceptanceInv
<1>2. CASE ClearShelf
  <2>1. CreatorInv' /\ FilesInv'
    BY <1>1, <1>2 DEF ClearShelf, NoFilesOnShelf, CreatorInv, FilesInv
  <2> QED
    BY <1>2, <2>1, DisturbanceKeeps DEF ClearShelf
<1>3. CASE DumpAltered
  <2>1. shelf' = [shelf EXCEPT !.dump.runs = @ + MaxWrites + 1]
    BY <1>3 DEF DumpAltered
  <2>2. /\ shelf' = [partial |-> shelf'.partial, dump |-> shelf'.dump, manifest |-> shelf'.manifest]
        /\ shelf'.partial = shelf.partial /\ shelf'.manifest = shelf.manifest
    BY <1>1, <2>1 DEF FilesInv
  <2>3. CreatorInv' /\ FilesInv'
    BY <1>1, <1>3, <2>2 DEF DumpAltered, CreatorInv, FilesInv, FormOfCreator
  <2> QED
    BY <1>3, <2>3, DisturbanceKeeps DEF DumpAltered
<1>4. CASE RemoveVolume
  <2>1. CreatorInv' /\ FilesInv' /\ VolumeInv' /\ FormOfRestorers'
    BY <1>1, <1>4 DEF RemoveVolume, UnchangedRest, Fresh, CreatorInv, FilesInv, VolumeInv,
                      FormOfRestorers, FormOfRestorer, FormOfCreator
  <2>2. \A o \in Operator : RestorerInv(o)' /\ QuietInv(o)'
    BY <1>4 DEF RemoveVolume, RestorerInv, QuietInv, WithDump, WithSchema, WithProof
  <2> QED
    BY <2>1, <2>2 DEF AcceptanceInv
<1> QED
  BY <1>2, <1>3, <1>4

LEMMA WriteKeeps ==
  ASSUME AcceptanceInv,
         RunWritten \/ \E p \in Row, regional \in BOOLEAN : PolicyWritten(p, regional)
  PROVE  AcceptanceInv'
<1>1. FilesInv /\ CreatorInv
  BY DEF AcceptanceInv
<1>2. UnchangedFiles
  BY DEF RunWritten, PolicyWritten
<1>3. /\ inspected'.runs \in Nat \ {0}
      /\ inspected' = [policies |-> inspected'.policies, rules |-> inspected'.rules,
                       runs |-> inspected'.runs]
  <2>1. CASE RunWritten
    BY <1>1, <2>1 DEF RunWritten, FilesInv
  <2>2. ASSUME NEW p \in Row, NEW regional \in BOOLEAN, PolicyWritten(p, regional)
        PROVE  <1>3!1 /\ <1>3!2
    <3>1. PICK policies, rules :
            inspected' = [inspected EXCEPT !.policies = policies, !.rules = rules]
      BY <2>2 DEF PolicyWritten
    <3> QED
      BY <1>1, <3>1 DEF FilesInv
  <2> QED
    BY <2>1, <2>2
<1>4. CreatorInv' /\ FilesInv'
  BY <1>1, <1>2, <1>3 DEF UnchangedFiles, CreatorInv, FilesInv, FormOfCreator
<1> QED
  BY <1>2, <1>4, CreatorDisturbsNobody DEF UnchangedFiles, CreatorKeepsSnapshot

-----------------------------------------------------------------------------
LEMMA NextAcceptance == AcceptanceInv /\ [AcceptanceNext]_acceptanceVars => AcceptanceInv'
<1> SUFFICES ASSUME AcceptanceInv, [AcceptanceNext]_acceptanceVars PROVE AcceptanceInv'
  OBVIOUS
<1>1. CASE RunWritten \/ \E p \in Row, regional \in BOOLEAN : PolicyWritten(p, regional)
  BY <1>1, WriteKeeps
<1>2. CASE CreatorStep
  BY <1>2, CreatorKeeps
<1>3. ASSUME NEW o \in Operator, Checks(o) PROVE AcceptanceInv'
  BY <1>3, ChecksKeep
<1>4. ASSUME NEW o \in Operator,
             VerifySnapshot(o) \/ Upgrade(o) \/ RestoreLoads(o) \/ Migrate(o) \/ RestorerDies(o)
      PROVE  AcceptanceInv'
  BY <1>4, VerifyKeeps, UpgradeKeeps, LoadKeeps, MigrateKeeps, DeathKeeps
<1>5. CASE ClearShelf \/ DumpAltered \/ RemoveVolume
  BY <1>5, OutsideKeeps
<1>6. CASE UNCHANGED acceptanceVars
  <2>1. CreatorInv' /\ FilesInv' /\ VolumeInv' /\ FormOfRestorers'
    BY <1>6 DEF AcceptanceInv, acceptanceVars, CreatorInv, FilesInv, VolumeInv,
                FormOfRestorers, FormOfRestorer, FormOfCreator
  <2>2. \A o \in Operator : RestorerInv(o)' /\ QuietInv(o)'
    BY <1>6 DEF AcceptanceInv, acceptanceVars, RestorerInv, QuietInv, IsBaselineData,
                IsStable, Counts, SchemaIsReady
  <2> QED
    BY <2>1, <2>2 DEF AcceptanceInv
<1> QED
  BY <1>1, <1>2, <1>3, <1>4, <1>5, <1>6 DEF AcceptanceNext, CreatorStep, Checks

(* A restored volume is empty or the whole of one dump, services start over*)
(* the baseline only, and an undisturbed restore of a good snapshot is     *)
(* never refused.                                                          *)
THEOREM RestoresAreWhole == AcceptanceSpec => []RestoreIsWhole
<1>1. AcceptanceInv => RestoreIsWhole
  BY DEF AcceptanceInv, RestoreIsWhole, VolumeHoldsOneDump, VolumeInv, StartedIsBaseline,
         RestorerInv, WithProof, QuietRestorePasses, QuietInv, WithDump, WithSchema
<1> QED
  BY <1>1, InitAcceptance, NextAcceptance, PTL DEF AcceptanceSpec

-----------------------------------------------------------------------------
(* The comparison with the aggregators *)

(* What is found by a comparison is one decision. *)
LEMMA FirstDecides ==
  ASSUME NEW c, NEW evidence, NEW records
  PROVE  \E d : /\ Gate!EvaluateRecords(c, evidence, records) = {d}
                /\ Gate!IsCautious(c, evidence, records, d)
<1> DEFINE byReference == Gate!ByReference(evidence, records)
           byUrl == Gate!ByUrl(evidence, records)
           byAnnouncement == Gate!ByAnnouncement(evidence, records)
           byFingerprint == Gate!ByFingerprint(c, records)
           byTitle == Gate!ByTitle(c, records)
           byContainment == Gate!ByContainment(c, records)
           new == Gate!Decision("accepted", "no_cross_source_candidate", {})
           cautious(d) == Gate!IsCautious(c, evidence, records, d)
           reviews(S) == \E d : S = {d} /\ d.outcome = "review"
<1>1. ASSUME NEW d, d.outcome = "review" PROVE cautious(d)
  BY <1>1 DEF Gate!IsCautious
<1>2. ASSUME NEW d, d.outcome = "excluded", NEW r \in records,
             \/ r.identity \in evidence.references
             \/ r.urls \cap evidence.urls # {}
             \/ r.announcements \cap evidence.announcements # {}
      PROVE  cautious(d)
  BY <1>2 DEF Gate!IsCautious
<1>3. \/ byReference = {} /\ \A r \in records : r.identity \notin evidence.references
      \/ \E d : byReference = {d} /\ cautious(d)
  <2> DEFINE same == {r \in records : r.identity \in evidence.references}
             d == Gate!Decision("excluded", "aggregator_external_id_match", same)
  <2>1. d.outcome = "excluded" BY DEF Gate!Decision
  <2>2. CASE same = {} BY <2>2 DEF Gate!ByReference
  <2>3. CASE same # {}
    <3>1. byReference = {d} BY <2>3 DEF Gate!ByReference
    <3>2. cautious(d) BY <1>2, <2>1, <2>3
    <3>. QED BY <3>1, <3>2
  <2>. QED BY <2>2, <2>3
<1>4. \/ byUrl = {} /\ \A r \in records : r.urls \cap evidence.urls = {}
      \/ \E d : byUrl = {d} /\ cautious(d)
  <2> DEFINE same == {r \in records : r.urls \cap evidence.urls # {}}
             d == Gate!Decision("excluded", "canonical_url_match", same)
             e == Gate!Decision("review", "canonical_url_matches_multiple_policies", same)
  <2>1. d.outcome = "excluded" /\ e.outcome = "review" BY DEF Gate!Decision
  <2>2. CASE same = {}
    <3>1. Cardinality(same) # 1 BY <2>2, FS_EmptySet
    <3>2. byUrl = CASE same = {} -> {} [] Cardinality(same) = 1 -> {d} [] OTHER -> {e}
      BY DEF Gate!ByUrl
    <3>3. byUrl = {}
      <4> HIDE DEF same, byUrl, d, e
      <4>. QED BY <2>2, <3>1, <3>2
    <3>. QED BY <2>2, <3>3
  <2>3. CASE same # {}
    <3>1. byUrl \in {{d}, {e}} BY <2>3 DEF Gate!ByUrl
    <3>2. cautious(d) BY <1>2, <2>1, <2>3
    <3>3. cautious(e) BY <1>1, <2>1
    <3>. QED BY <3>1, <3>2, <3>3
  <2>. QED BY <2>2, <2>3
<1>5. \/ byAnnouncement = {} /\ \A r \in records : r.announcements \cap evidence.announcements = {}
      \/ \E d : byAnnouncement = {d} /\ cautious(d)
  <2> DEFINE same == {r \in records : r.announcements \cap evidence.announcements # {}}
             d == Gate!Decision("excluded", "official_announcement_id_match", same)
  <2>1. d.outcome = "excluded" BY DEF Gate!Decision
  <2>2. CASE same = {} BY <2>2 DEF Gate!ByAnnouncement
  <2>3. CASE same # {}
    <3>1. byAnnouncement = {d} BY <2>3 DEF Gate!ByAnnouncement
    <3>2. cautious(d) BY <1>2, <2>1, <2>3
    <3>. QED BY <3>1, <3>2
  <2>. QED BY <2>2, <2>3
<1>6. \/ byFingerprint = {} /\ \A r \in records : ~Gate!FingerprintMatches(c, r)
      \/ \E d : byFingerprint = {d} /\ cautious(d)
  <2> DEFINE same == {r \in records : Gate!FingerprintMatches(c, r)}
             d == Gate!Decision("review", "full_fingerprint_match", same)
  <2>1. d.outcome = "review" BY DEF Gate!Decision
  <2>2. CASE same = {} BY <2>2 DEF Gate!ByFingerprint
  <2>3. CASE same # {} BY <1>1, <2>1, <2>3 DEF Gate!ByFingerprint
  <2>. QED BY <2>2, <2>3
<1>7. \/ byTitle = {} /\ \A r \in records : r.title # c.title
      \/ \E d : byTitle = {d} /\ cautious(d)
      \/ \E d : /\ byTitle = {d} /\ d.outcome = "accepted"
                /\ \A r \in records : r.title = c.title => ~Gate!ComparisonIsIncomplete(c, r)
  <2> DEFINE same == {r \in records : r.title = c.title}
             d == Gate!Decision("review", "same_title_with_incomplete_evidence", same)
             e == Gate!Decision("accepted", "same_title_but_fields_differ", same)
  <2>1. d.outcome = "review" /\ e.outcome = "accepted" BY DEF Gate!Decision
  <2>2. CASE same = {} BY <2>2 DEF Gate!ByTitle
  <2>3. CASE same # {} /\ \E r \in same : Gate!ComparisonIsIncomplete(c, r)
    <3>1. byTitle = {d} BY <2>3 DEF Gate!ByTitle
    <3>. QED BY <1>1, <2>1, <3>1
  <2>4. CASE same # {} /\ ~\E r \in same : Gate!ComparisonIsIncomplete(c, r)
    <3>1. byTitle = {e} BY <2>4 DEF Gate!ByTitle
    <3>. QED BY <2>1, <2>4, <3>1
  <2>. QED BY <2>2, <2>3, <2>4
<1>8. byContainment = {} \/ \E d : byContainment = {d} /\ cautious(d)
  <2> DEFINE like == {r \in records : Gate!TitleContains(c, r)}
             d == Gate!Decision("review", "material_title_containment", like)
  <2>1. d.outcome = "review" BY DEF Gate!Decision
  <2>. QED BY <1>1, <2>1 DEF Gate!ByContainment
<1>9. new.outcome = "accepted" BY DEF Gate!Decision
<1>10. ASSUME NEW d, d.outcome = "accepted",
              \A r \in records : /\ r.identity \notin evidence.references
                                 /\ r.urls \cap evidence.urls = {}
                                 /\ r.announcements \cap evidence.announcements = {}
                                 /\ ~Gate!FingerprintMatches(c, r)
                                 /\ r.title = c.title => ~Gate!ComparisonIsIncomplete(c, r)
       PROVE  cautious(d)
  <2>1. ASSUME NEW r \in records, r.title = c.title
        PROVE  /\ None \notin {c[f] : f \in {"organization", "start", "end", "support"}}
               /\ None \notin {r[f] : f \in {"organization", "start", "end", "support"}}
               /\ c.regions # {} /\ r.regions # {}
               /\ \E f \in {"organization", "regions", "start", "end", "support"} : c[f] # r[f]
    <3>1. ~Gate!ComparisonIsIncomplete(c, r) /\ ~Gate!FingerprintMatches(c, r) BY <1>10, <2>1
    <3>2. /\ c.organization # None /\ c.support # None /\ c.start # None /\ c.end # None
          /\ r.organization # None /\ r.support # None /\ r.start # None /\ r.end # None
          /\ c.regions # {} /\ r.regions # {}
      BY <3>1 DEF Gate!ComparisonIsIncomplete
    <3>3. ~(/\ c.organization = r.organization /\ c.regions = r.regions
            /\ c.start = r.start /\ c.end = r.end /\ c.support = r.support)
      BY <2>1, <3>1, <3>2 DEF Gate!FingerprintMatches
    <3>. QED BY <3>2, <3>3
  <2>2. d.outcome # "excluded" BY <1>10
  <2>. QED BY <1>10, <2>1, <2>2 DEF Gate!IsCautious
<1>11. Gate!EvaluateRecords(c, evidence, records) =
         IF byReference # {} THEN byReference
         ELSE IF byUrl # {} THEN byUrl
         ELSE IF byAnnouncement # {} THEN byAnnouncement
         ELSE IF byFingerprint # {} THEN byFingerprint
         ELSE IF byTitle # {} THEN byTitle
         ELSE IF byContainment # {} THEN byContainment ELSE {new}
  BY DEF Gate!EvaluateRecords, Gate!FirstOf
<1> SUFFICES \E d : Gate!EvaluateRecords(c, evidence, records) = {d} /\ cautious(d)
  OBVIOUS
<1> HIDE DEF byReference, byUrl, byAnnouncement, byFingerprint, byTitle, byContainment, new, cautious
<1>12. CASE byReference # {} BY <1>3, <1>11, <1>12
<1>13. CASE byReference = {} /\ byUrl # {} BY <1>4, <1>11, <1>13
<1>14. CASE byReference = {} /\ byUrl = {} /\ byAnnouncement # {} BY <1>5, <1>11, <1>14
<1>15. CASE /\ byReference = {} /\ byUrl = {} /\ byAnnouncement = {} /\ byFingerprint # {}
  BY <1>6, <1>11, <1>15
<1>16. CASE /\ byReference = {} /\ byUrl = {} /\ byAnnouncement = {} /\ byFingerprint = {}
  <2>1. \A r \in records : /\ r.identity \notin evidence.references
                           /\ r.urls \cap evidence.urls = {}
                           /\ r.announcements \cap evidence.announcements = {}
                           /\ ~Gate!FingerprintMatches(c, r)
    <3>1. \A d : {d} # {} OBVIOUS
    <3>. QED BY <1>3, <1>4, <1>5, <1>6, <1>16, <3>1
  <2>2. CASE byTitle # {}
    <3>1. Gate!EvaluateRecords(c, evidence, records) = byTitle BY <1>11, <1>16, <2>2
    <3>. QED BY <1>7, <1>10, <2>1, <2>2, <3>1
  <2>3. CASE byTitle = {}
    <3>1. \A r \in records : r.title # c.title
      <4>1. \A d : {d} # {} OBVIOUS
      <4>. QED BY <1>7, <2>3, <4>1
    <3>2. cautious(new) BY <1>9, <1>10, <2>1, <3>1
    <3>. QED BY <1>8, <1>11, <1>16, <2>3, <3>2
  <2>. QED BY <2>2, <2>3
<1>. QED BY <1>12, <1>13, <1>14, <1>15, <1>16

(* Whatever a candidate, its evidence and the stored policies of the       *)
(* aggregators are: evaluate_duplicate (collectors/duplicate_gate.py) lets *)
(* a policy in beside them only when it shares no official identity with   *)
(* any of them and differs, in full knowledge, from each of its title; and *)
(* it drops one only for an official identity.                             *)
THEOREM GateDecidesWithCaution ==
  ASSUME NEW c, NEW evidence, NEW baseline, baseline # None
  PROVE  Gate!IsCautious(c, evidence, baseline.records, Gate!Evaluate(c, evidence, baseline))
<1>1. PICK d : /\ Gate!EvaluateRecords(c, evidence, baseline.records) = {d}
               /\ Gate!IsCautious(c, evidence, baseline.records, d)
  BY FirstDecides
<1>2. (CHOOSE e \in {d} : TRUE) = d OBVIOUS
<1>3. Gate!Evaluate(c, evidence, baseline) = d BY <1>1, <1>2 DEF Gate!Evaluate
<1>. QED BY <1>1, <1>3

-----------------------------------------------------------------------------
(* The import of a regional source *)

(* No policy of a baseline is newer than the snapshot it goes by, and its  *)
(* rules are of its own import or of one between the two statements.       *)
BaselineOK(baseline) ==
  \A a \in Aggregator :
     /\ baseline.at[a] <= baseline.snapshots[a]
     /\ baseline.rulesAt[a] = baseline.at[a] \/ a \in baseline.between

(* The rules of an import are written with its columns; columns that were  *)
(* read have their rules still, unless the aggregator was imported since.  *)
RulesInv ==
  /\ DOMAIN rows = Aggregator /\ DOMAIN regionRows = Aggregator
  /\ \A a \in Aggregator : rows[a] # None => regionRows[a].at = rows[a].at
  /\ importer.step = "policies" =>
       \A a \in Aggregator \ since : importer.rows[a] # None => regionRows[a].at = importer.rows[a].at

(* What a replay lets through is validated as it was normalized, and its   *)
(* manifest has the decision that accepted it.                             *)
ReplayOK(replay) ==
  /\ Rejected(replay.programs) = {}
  /\ \A k \in DOMAIN replay.programs : \E m \in ManifestOf(replay) :
       \E d \in m.decisions :
          d.policy = replay.programs[k].policy /\ Gate!Accepted(d.decision)
  /\ \A m \in ManifestOf(replay) : BaselineOK(m.baseline)

(* ImportIsJudged says nothing of what an import has in hand: rows read no *)
(* newer than the manifests read before them, and, from the stored         *)
(* decisions on, a replay whose manifest is on disk.                       *)
ImportInv ==
  /\ ImportIsJudged
  /\ importer.step = "policies" => IsOfSnapshot(importer.rows, importer.snapshots)
  /\ importer.step = "compared" => BaselineOK(importer.baseline)
  /\ importer.step = "replayed" =>
       importer = [step |-> "replayed", replay |-> importer.replay] /\ ReplayOK(importer.replay)
  /\ importer.step = "recorded" =>
       ReplayOK(importer.replay) /\ ManifestOf(importer.replay) \subseteq decided

(* The normalizer classifies with the warnings it hands out.               *)
LEMMA StatusIsValidated ==
  ASSUME NEW e
  PROVE  Normalize(e).status = Validate(Normalize(e).program, Normalize(e).warnings)
<1>1. PICK program, warnings : Normalize(e) = Result(program, warnings)
  BY DEF Normalize, NormalizeWith, NormalizeParts
<1>. QED BY <1>1 DEF Result

(* A replay with the baseline the import has read, or with none.           *)
LEMMA ReplayIsOK ==
  ASSUME NEW batch, NEW baseline, baseline # None => BaselineOK(baseline)
  PROVE  ReplayOK(Replay(batch, baseline))
<1> DEFINE results == [k \in DOMAIN batch |->
                         Judgement(batch[k], Normalize(batch[k]), baseline)]
           kept == {k \in DOMAIN batch : results[k].status # "invalid"}
           judged == Judgements(batch, baseline)
           accepted == {k \in DOMAIN judged : Gate!Accepted(judged[k].decision)}
           replay == Replay(batch, baseline)
<1>1. judged = [k \in kept |-> results[k]] BY DEF Judgements, Restrict
<1>2. ASSUME NEW k \in DOMAIN batch
      PROVE  /\ results[k].policy = batch[k]
             /\ results[k].status = Validate(results[k].program, results[k].warnings)
             /\ baseline = None => ~Gate!Accepted(results[k].decision)
  <2>1. results[k] = Judgement(batch[k], Normalize(batch[k]), baseline) OBVIOUS
  <2> HIDE DEF results
  <2>2. /\ results[k].policy = batch[k]
        /\ results[k].program = Normalize(batch[k]).program
        /\ results[k].warnings = Normalize(batch[k]).warnings
        /\ results[k].status = Normalize(batch[k]).status
    BY <2>1 DEF Judgement
  <2>3. ASSUME baseline = None PROVE ~Gate!Accepted(results[k].decision)
    <3>1. PICK c, evidence : results[k].decision = Gate!Evaluate(c, evidence, baseline)
      BY <2>1 DEF Judgement
    <3>. QED BY <2>3, <3>1 DEF Gate!Evaluate, Gate!Accepted, Gate!Decision
  <2>. QED BY <2>2, <2>3, StatusIsValidated
<1> HIDE DEF results
<1>3. \A k \in DOMAIN judged :
        /\ k \in DOMAIN batch /\ judged[k] = results[k] /\ results[k].status # "invalid"
  BY <1>1
<1>4. /\ replay.judged = judged /\ replay.baseline = baseline
      /\ replay.programs = [k \in accepted |-> judged[k]]
  BY DEF Replay, Replayed, Restrict
<1> HIDE DEF judged, replay, kept
<1>5. \A k \in DOMAIN replay.programs :
        /\ k \in DOMAIN judged /\ replay.programs[k] = judged[k]
        /\ Gate!Accepted(judged[k].decision)
  BY <1>4
<1>6. Rejected(replay.programs) = {} BY <1>2, <1>3, <1>5 DEF Rejected
<1>7. ASSUME NEW k \in DOMAIN replay.programs
      PROVE  \E m \in ManifestOf(replay) : \E d \in m.decisions :
                d.policy = replay.programs[k].policy /\ Gate!Accepted(d.decision)
  <2>1. k \in DOMAIN judged /\ replay.judged # <<>> /\ replay.baseline # None
    BY <1>2, <1>3, <1>4, <1>5
  <2> DEFINE m == [baseline |-> replay.baseline,
                   decisions |-> {[policy |-> replay.judged[j].policy,
                                   decision |-> replay.judged[j].decision] :
                                     j \in DOMAIN replay.judged}]
             d == [policy |-> judged[k].policy, decision |-> judged[k].decision]
  <2>2. m \in ManifestOf(replay) BY <2>1 DEF ManifestOf
  <2>3. d \in m.decisions BY <1>4, <2>1
  <2>4. d.policy = replay.programs[k].policy /\ Gate!Accepted(d.decision) BY <1>5
  <2>. QED BY <2>2, <2>3, <2>4
<1>8. \A m \in ManifestOf(replay) : BaselineOK(m.baseline) BY <1>4 DEF ManifestOf
<1>9. ReplayOK(replay) BY <1>6, <1>7, <1>8 DEF ReplayOK
<1>. QED BY <1>9 DEF replay

(* A step of somebody else, or one that ends the import.                   *)
LEMMA AsideKeeps ==
  ASSUME ImportInv, UNCHANGED <<decided, imported>>, importer' = importer \/ importer' = Resting
  PROVE  ImportInv'
<1>1. StoredWasJudged' /\ BaselineIsOfItsSnapshots'
  BY DEF ImportInv, ImportIsJudged, StoredWasJudged, BaselineIsOfItsSnapshots
<1>2. CASE importer' = importer
  BY <1>1, <1>2 DEF ImportInv, ImportIsJudged, ReplayIsImportable
<1>3. CASE importer' = Resting
  <2>1. importer'.step = "resting" BY <1>3 DEF Resting
  <2>. QED BY <1>1, <2>1 DEF ImportInv, ImportIsJudged, ReplayIsImportable
<1>. QED BY <1>2, <1>3

(* A step of the import that stores nothing.                               *)
LEMMA ReadingKeeps ==
  ASSUME ImportInv, UNCHANGED <<decided, imported>>,
         importer'.step \in {"gated", "manifests", "policies", "compared", "replayed"},
         importer'.step = "policies" => IsOfSnapshot(importer'.rows, importer'.snapshots),
         importer'.step = "compared" => BaselineOK(importer'.baseline),
         importer'.step = "replayed" =>
           importer' = [step |-> "replayed", replay |-> importer'.replay]
           /\ ReplayOK(importer'.replay)
  PROVE  ImportInv'
<1>1. StoredWasJudged' /\ BaselineIsOfItsSnapshots'
  BY DEF ImportInv, ImportIsJudged, StoredWasJudged, BaselineIsOfItsSnapshots
<1>. QED BY <1>1 DEF ImportInv, ImportIsJudged, ReplayIsImportable

LEMMA SaveDecisionsKeeps ==
  ASSUME ImportInv, SaveDecisions
  PROVE  ImportInv'
<1>1. /\ importer.step = "replayed" /\ imported' = imported
      /\ decided' = decided \cup ManifestOf(importer.replay)
      /\ importer' = [importer EXCEPT !.step = "recorded"]
  BY DEF SaveDecisions
<1>2. importer = [step |-> "replayed", replay |-> importer.replay] /\ ReplayOK(importer.replay)
  BY <1>1 DEF ImportInv
<1>3. importer'.step = "recorded" /\ importer'.replay = importer.replay BY <1>1, <1>2
<1>4. StoredWasJudged' BY <1>1 DEF ImportInv, ImportIsJudged, StoredWasJudged
<1>5. BaselineIsOfItsSnapshots'
  BY <1>1, <1>2 DEF ImportInv, ImportIsJudged, BaselineIsOfItsSnapshots, ReplayOK, BaselineOK
<1>. QED BY <1>1, <1>2, <1>3, <1>4, <1>5 DEF ImportInv, ImportIsJudged, ReplayIsImportable

LEMMA ImportProgramsKeeps ==
  ASSUME ImportInv, ImportPrograms
  PROVE  ImportInv'
<1> DEFINE programs == importer.replay.programs
<1>1. ReplayOK(importer.replay) /\ ManifestOf(importer.replay) \subseteq decided
  BY DEF ImportInv, ImportPrograms
<1>2. Rejected(programs) = {} BY <1>1 DEF ReplayOK
<1>3. /\ importer' = Resting /\ decided' = decided
      /\ imported' \subseteq imported \cup {programs[k].policy : k \in DOMAIN programs}
  BY <1>2 DEF ImportPrograms
<1>4. ASSUME NEW k \in DOMAIN programs
      PROVE  \E m \in decided : \E d \in m.decisions :
                d.policy = programs[k].policy /\ Gate!Accepted(d.decision)
  BY <1>1 DEF ReplayOK
<1> HIDE DEF programs
<1>5. StoredWasJudged'
  BY <1>3, <1>4 DEF ImportInv, ImportIsJudged, StoredWasJudged
<1>6. BaselineIsOfItsSnapshots'
  BY <1>3 DEF ImportInv, ImportIsJudged, BaselineIsOfItsSnapshots
<1>7. importer'.step = "resting" BY <1>3 DEF Resting
<1>. QED BY <1>5, <1>6, <1>7 DEF ImportInv, ImportIsJudged, ReplayIsImportable

(* Columns and rules of a stored policy are of one import, and stay so for *)
(* an importer that has read the columns while nobody imports.             *)
LEMMA RulesInvAlways == GateSpec => []RulesInv
<1>1. GateInit => RulesInv
  <2>. SUFFICES ASSUME GateInit PROVE RulesInv OBVIOUS
  <2>1. /\ DOMAIN rows = Aggregator /\ DOMAIN regionRows = Aggregator
        /\ importer.step = "resting" /\ \A a \in Aggregator : rows[a] = None
    BY DEF GateInit, Resting
  <2>. QED BY <2>1 DEF RulesInv
<1>2. ASSUME RulesInv, [GateNext]_gateVars PROVE RulesInv'
  <2>1. ASSUME NEW a \in Aggregator, ImportSnapshot(a) PROVE RulesInv'
    <3>1. /\ DOMAIN rows' = Aggregator /\ DOMAIN regionRows' = Aggregator
          /\ rows'[a].at = pending[a].at /\ regionRows'[a].at = pending[a].at
          /\ \A b \in Aggregator \ {a} : rows'[b] = rows[b] /\ regionRows'[b] = regionRows[b]
          /\ importer' = importer
          /\ importer.step = "policies" => since' = since \cup {a}
      BY <1>2, <2>1 DEF RulesInv, ImportSnapshot
    <3>. QED BY <1>2, <3>1 DEF RulesInv
  <2>2. ASSUME NEW a \in Aggregator, Inactivate(a) PROVE RulesInv'
    <3>1. /\ DOMAIN rows' = Aggregator /\ rows'[a] = None
          /\ \A b \in Aggregator \ {a} : rows'[b] = rows[b]
          /\ UNCHANGED <<regionRows, importer, since>>
      BY <1>2, <2>2 DEF RulesInv, Inactivate
    <3>. QED BY <1>2, <3>1 DEF RulesInv
  <2>3. CASE UNCHANGED <<rows, regionRows, importer, since>>
    BY <1>2, <2>3 DEF RulesInv
  <2>4. CASE LoadPolicies
    <3>1. /\ importer'.rows = rows /\ UNCHANGED <<rows, regionRows>>
      BY <2>4 DEF LoadPolicies, UnchangedSources
    <3>. QED BY <1>2, <3>1 DEF RulesInv
  <2>5. CASE UNCHANGED <<rows, regionRows>> /\ importer'.step # "policies"
    BY <1>2, <2>5 DEF RulesInv
  <2>6. CASE UNCHANGED gateVars BY <2>3, <2>6 DEF gateVars
  <2>7. ASSUME NEW a \in Aggregator, SaveSnapshot(a)
        PROVE  UNCHANGED <<rows, regionRows, importer, since>>
    BY <2>7 DEF SaveSnapshot
  <2>8. RawChanges => UNCHANGED <<rows, regionRows, importer, since>> BY DEF RawChanges
  <2>9. ReplayAlone \/ LoadManifests \/ LoadRules \/ ReplayAgain \/ SaveDecisions
          \/ ImportPrograms \/ ImportEnds
        => UNCHANGED <<rows, regionRows>>
    BY DEF ReplayAlone, LoadManifests, LoadRules, ReplayAgain, SaveDecisions, ImportPrograms,
           ImportEnds, UnchangedSources
  <2>10. ReplayAlone \/ LoadManifests \/ LoadRules \/ ReplayAgain => importer'.step # "policies"
    BY DEF ReplayAlone, AfterReplay, LoadManifests, LoadRules, ReplayAgain
  <2>11. ImportPrograms \/ ImportEnds => importer'.step # "policies"
    BY DEF ImportPrograms, ImportEnds, Resting
  <2>12. ASSUME SaveDecisions PROVE RulesInv'
    <3>1. UNCHANGED <<rows, regionRows>> BY <2>9, <2>12
    <3>2. importer.step = "replayed" /\ importer' = [importer EXCEPT !.step = "recorded"]
      BY <2>12 DEF SaveDecisions
    <3>3. importer'.step # "policies" \/ importer' = importer BY <3>2
    <3>. QED BY <1>2, <3>1, <3>2, <3>3 DEF RulesInv
  <2>. QED
    BY <1>2, <2>1, <2>2, <2>3, <2>4, <2>5, <2>6, <2>7, <2>8, <2>9, <2>10, <2>11, <2>12 DEF GateNext
<1>. QED BY <1>1, <1>2, PTL DEF GateSpec

LEMMA ImportInvAlways == GateSpec => []ImportInv
<1>1. GateInit => ImportInv
  BY DEF GateInit, ImportInv, ImportIsJudged, StoredWasJudged, BaselineIsOfItsSnapshots,
         ReplayIsImportable, Resting
<1>2. ASSUME ImportInv, RulesInv, [GateNext]_gateVars PROVE ImportInv'
  <2>1. ASSUME NEW a \in Aggregator, SaveSnapshot(a) \/ ImportSnapshot(a) \/ Inactivate(a)
        PROVE  ImportInv'
    BY <1>2, <2>1, AsideKeeps DEF SaveSnapshot, ImportSnapshot, Inactivate
  <2>2. CASE RawChanges BY <1>2, <2>2, AsideKeeps DEF RawChanges
  <2>3. CASE ReplayAlone
    <3>1. /\ UNCHANGED <<decided, imported>>
          /\ \/ importer' = [step |-> "replayed", replay |-> Replay(raw, None)]
             \/ importer' = [step |-> "gated"]
      BY <2>3 DEF ReplayAlone, AfterReplay
    <3>2. ReplayOK(Replay(raw, None)) BY ReplayIsOK
    <3>. QED BY <1>2, <3>1, <3>2, ReadingKeeps
  <2>4. CASE LoadManifests
    <3>1. UNCHANGED <<decided, imported>> /\ importer'.step = "manifests"
      BY <2>4 DEF LoadManifests
    <3>. QED BY <1>2, <3>1, ReadingKeeps
  <2>5. CASE LoadPolicies
    <3>1. /\ UNCHANGED <<decided, imported>> /\ importer'.step = "policies"
          /\ IsOfSnapshot(importer'.rows, importer'.snapshots)
      BY <2>5 DEF LoadPolicies, IsOfSnapshot
    <3>. QED BY <1>2, <3>1, ReadingKeeps
  <2>6. CASE LoadRules
    <3>1. /\ UNCHANGED <<decided, imported>> /\ importer'.step = "compared"
          /\ importer'.baseline = Baseline(importer.snapshots, importer.rows, regionRows, since)
          /\ importer.step = "policies" /\ \A a \in Aggregator : importer.rows[a] # None
      BY <2>6 DEF LoadRules
    <3>2. BaselineOK(importer'.baseline)
      BY <1>2, <3>1 DEF ImportInv, RulesInv, IsOfSnapshot, Baseline, BaselineOK
    <3>. QED BY <1>2, <3>1, <3>2, ReadingKeeps
  <2>7. CASE ReplayAgain
    <3>1. /\ UNCHANGED <<decided, imported>> /\ importer.step = "compared"
          /\ importer' = [step |-> "replayed", replay |-> Replay(raw, importer.baseline)]
      BY <2>7 DEF ReplayAgain
    <3>2. ReplayOK(Replay(raw, importer.baseline))
      BY <1>2, <3>1, ReplayIsOK DEF ImportInv
    <3>. QED BY <1>2, <3>1, <3>2, ReadingKeeps
  <2>8. CASE SaveDecisions BY <1>2, <2>8, SaveDecisionsKeeps
  <2>9. CASE ImportPrograms BY <1>2, <2>9, ImportProgramsKeeps
  <2>10. CASE ImportEnds BY <1>2, <2>10, AsideKeeps DEF ImportEnds
  <2>11. CASE UNCHANGED gateVars BY <1>2, <2>11, AsideKeeps DEF gateVars
  <2>. QED
    BY <1>2, <2>1, <2>2, <2>3, <2>4, <2>5, <2>6, <2>7, <2>8, <2>9, <2>10, <2>11 DEF GateNext
<1>. QED BY <1>1, <1>2, RulesInvAlways, PTL DEF GateSpec

(* Whatever aggregators are collected, imported and inactivated and        *)
(* wherever imports die: import_runtime_raw stores nothing that a manifest *)
(* on disk did not accept; no manifest rests on columns newer than the     *)
(* snapshot it names, nor on regions of another import than theirs, except *)
(* of an aggregator imported between the two statements of the load; and   *)
(* the importer refuses nothing a replay accepted.                         *)
THEOREM ImportsAreJudged == GateSpec => []ImportIsJudged
<1>1. ImportInv => ImportIsJudged BY DEF ImportInv
<1>. QED BY <1>1, ImportInvAlways, PTL

-----------------------------------------------------------------------------
(* The review *)

Held(stored) == {i \in Identity : stored[i] # None}
DecisionsOn(checkpoint, as_of, records) ==
  [i \in Identity |-> Admissions[checkpoint[i]][as_of][records]]
JudgedNow(manifest, checkpoint, open, records) ==
  /\ manifest.as_of \in Day
  /\ manifest = [as_of |-> manifest.as_of, records |-> records, checkpoint |-> checkpoint,
                 holds |-> open, decisions |-> DecisionsOn(checkpoint, manifest.as_of, records),
                 policy_count |-> manifest.policy_count]

(* What an audit wrote down: every policy it promotes has a program; and   *)
(* as long as nothing changed from outside since, it says what an audit    *)
(* would say now, and counts what was stored but for what it promotes.     *)
Backed(written, now, checkpoint, open, records, rest, stored) ==
  /\ written.stored \subseteq Held(stored)
  /\ written.at = None \/ (written.at \in Nat /\ written.at <= now)
  /\ written.manifest.as_of \in Day
  /\ \A i \in PromotedBy(written.manifest) : written.manifest.decisions[i].program # None
  /\ written.at = now =>
       /\ JudgedNow(written.manifest, checkpoint, open, records)
       /\ written.manifest.policy_count =
            rest + Cardinality(written.stored)
              - Cardinality(written.stored \cap PromotedBy(written.manifest))

(* A promotion passed every objection, so it has the program. *)
LEMMA PromotionHasProgram ==
  ASSUME NEW k \in DOMAIN Item, NEW as_of \in Day, NEW r \in DOMAIN Records,
         Admissions[k][as_of][r].outcome = "promote_partial"
  PROVE  Admissions[k][as_of][r].program # None
<1>1. Admissions[k][as_of][r] = Admission(Item[k], as_of, Records[r]) BY DEF Admissions
<1>2. PICK c, n, policy :
        /\ Admissions[k][as_of][r] = AdmissionOf(c, n, policy, Records[r])
        /\ n = Normalize(AdmittedBy(Regional(Item[k], as_of), Item[k]))
  BY <1>1 DEF Admission, AdmissionBy
<1>3. PICK normal, whole : Admissions[k][as_of][r] = FirstObjection(c, normal, whole, n.program)
  BY <1>2 DEF AdmissionOf
<1>4. Admissions[k][as_of][r].program = n.program
  BY <1>3 DEF FirstObjection, Verdict
<1>. QED BY <1>2, <1>4, ReviewAssumption

LEMMA CountIsFinite ==
  ASSUME NEW S \in SUBSET Identity
  PROVE  IsFiniteSet(S) /\ Cardinality(S) \in Nat
BY ReviewAssumption, FS_Subset, FS_CardinalityType

(* What an apply of the same manifest stored does not count.               *)
LEMMA BaselineStays ==
  ASSUME NEW S \in SUBSET Identity, NEW T \in SUBSET Identity, NEW P,
         S \subseteq T, T \ S \subseteq P
  PROVE  Cardinality(T) - Cardinality(T \cap P) = Cardinality(S) - Cardinality(S \cap P)
<1>1. IsFiniteSet(S) /\ IsFiniteSet(T) BY CountIsFinite
<1>2. /\ Cardinality(T \ P) = Cardinality(T) - Cardinality(T \cap P)
      /\ Cardinality(S \ P) = Cardinality(S) - Cardinality(S \cap P)
  BY <1>1, FS_Difference
<1>3. T \ P = S \ P OBVIOUS
<1>. QED BY <1>2, <1>3

(* Time makes no written manifest worse than it says. *)
LEMMA BackedStays ==
  ASSUME NEW w, NEW m \in Nat, NEW m2 \in Nat, NEW c, NEW c2, NEW o, NEW o2, NEW k, NEW k2,
         NEW r, NEW r2, NEW a, NEW a2,
         Backed(w, m, c, o, k, r, a), Held(a) \subseteq Held(a2),
         m2 = m + 1 \/ (m2 = m /\ c2 = c /\ o2 = o /\ k2 = k /\ r2 = r)
  PROVE  Backed(w, m2, c2, o2, k2, r2, a2)
<1>1. CASE m2 = m + 1
  <2>1. w.at # m2 BY <1>1, ReviewAssumption DEF Backed
  <2>2. w.at = None \/ (w.at \in Nat /\ w.at <= m2) BY <1>1 DEF Backed
  <2>. QED BY <2>1, <2>2 DEF Backed
<1>2. CASE m2 = m /\ c2 = c /\ o2 = o /\ k2 = k /\ r2 = r BY <1>2 DEF Backed
<1>. QED BY <1>1, <1>2

(* What an apply has in hand: a manifest that is backed; of its count the  *)
(* policies when it began, of its baseline the aggregators' policies after *)
(* that; then the programs of the manifest, and what it has done of them.  *)
ApplierOK ==
  LET promoted == PromotedBy(applier.manifest) IN
  /\ applier.step \in {"counted", "rebuilding"} =>
       applier = [step |-> applier.step, dry |-> applier.dry, before |-> applier.before,
                  records |-> applier.records, manifest |-> applier.manifest,
                  stored |-> applier.stored, at |-> applier.at]
  /\ applier.step = "counted" =>
       (applier.at = moves => applier.before = others + Cardinality(Held(admitted)))
  /\ applier.step = "rebuilding" => (applier.at = moves => applier.records = known)
  /\ applier.step = "importing" =>
       /\ applier = [step |-> "importing", source |-> applier.source,
                     inserted |-> applier.inserted, dry |-> applier.dry,
                     before |-> applier.before, manifest |-> applier.manifest,
                     stored |-> applier.stored, at |-> applier.at,
                     programs |-> applier.programs, todo |-> applier.todo]
       /\ applier.programs = [i \in promoted |-> applier.manifest.decisions[i].program]
       /\ applier.source \in {None} \cup Sources
       /\ ~applier.dry => \A i \in promoted :
            /\ SourceUnder[i] \notin applier.todo => admitted[i] # None
            /\ SourceUnder[i] \notin applier.todo \cup {applier.source} =>
                 runs[SourceUnder[i]] = "succeeded"

BackedNow(written) == Backed(written, moves, captured, holds, known, others, admitted)

AuditorOK ==
  auditor.step = "read" =>
    /\ auditor.as_of \in Day /\ auditor.records \in DOMAIN Records
    /\ auditor.at \in Nat /\ auditor.at <= moves
    /\ auditor.stored \subseteq Held(admitted)
    /\ auditor.at = moves =>
         auditor.records = known /\ auditor.total = others + Cardinality(auditor.stored)

OutsideOK ==
  /\ moves \in Nat /\ others \in Nat /\ known \in DOMAIN Records
  /\ captured \in [Identity -> DOMAIN Item]
  /\ DOMAIN admitted = Identity /\ DOMAIN runs = Sources

ReviewInv ==
  /\ OutsideOK /\ AuditorOK
  /\ audit # None => BackedNow(audit)
  /\ applier = Waiting \/ applier.step \in {"counted", "rebuilding", "importing"}
  /\ applier # Waiting => verdict = None /\ BackedNow(applier) /\ ApplierOK
  /\ verdict # None => verdict.promoted \subseteq Identity
  /\ QuietApplyResumes /\ SuccessIsWhole

LEMMA ReviewInvImplies == ReviewInv => ApplyIsWhole
<1>. SUFFICES ASSUME ReviewInv PROVE ApplyIsWhole OBVIOUS
<1>1. ASSUME applier.step = "importing", NEW i \in DOMAIN applier.programs
      PROVE  /\ applier.manifest.decisions[i].outcome = "promote_partial"
             /\ applier.manifest.decisions[i].program = applier.programs[i]
  <2>1. applier # Waiting BY <1>1 DEF Waiting
  <2>2. applier.programs = [j \in PromotedBy(applier.manifest) |->
                              applier.manifest.decisions[j].program]
    BY <1>1, <2>1 DEF ReviewInv, ApplierOK
  <2>. QED BY <1>1, <2>2 DEF PromotedBy
<1>. QED BY <1>1 DEF ReviewInv, ApplyIsWhole, AppliedWasAudited

LEMMA ReviewInit_Inv == ReviewInit => ReviewInv
BY ReviewAssumption DEF ReviewInit, ReviewInv, OutsideOK, AuditorOK, QuietApplyResumes,
   SuccessIsWhole, Waiting

(* The audit *)

LEMMA AuditReadsKeeps ==
  ASSUME ReviewInv, NEW as_of \in Day, AuditReads(as_of)
  PROVE  ReviewInv'
<1>1. UNCHANGED <<captured, holds, known, others, admitted, moves, audit, applier, runs, verdict>>
  BY DEF AuditReads, UnchangedStore
<1>2. AuditorOK'
  <2>1. auditor' = [step |-> "read", as_of |-> as_of, records |-> known, total |-> PolicyCount,
                    at |-> moves, stored |-> StoredOf(Identity)]
    BY DEF AuditReads
  <2>2. StoredOf(Identity) = Held(admitted) BY DEF StoredOf, Held
  <2>. QED BY <1>1, <2>1, <2>2 DEF AuditorOK, ReviewInv, OutsideOK, PolicyCount
<1>3. /\ OutsideOK' /\ (audit # None => BackedNow(audit))'
      /\ (applier = Waiting \/ applier.step \in {"counted", "rebuilding", "importing"})'
      /\ (applier # Waiting => verdict = None /\ BackedNow(applier) /\ ApplierOK)'
      /\ (verdict # None => verdict.promoted \subseteq Identity)'
      /\ QuietApplyResumes' /\ SuccessIsWhole'
  BY <1>1 DEF ReviewInv, OutsideOK, BackedNow, ApplierOK, QuietApplyResumes, SuccessIsWhole
<1>. QED BY <1>2, <1>3 DEF ReviewInv

LEMMA AuditWritesKeeps ==
  ASSUME ReviewInv, AuditWrites
  PROVE  ReviewInv'
<1> DEFINE records == auditor.records
           as_of == auditor.as_of
           decisions == DecisionsOn(captured, as_of, records)
           promoted == {i \in Identity : decisions[i].outcome = "promote_partial"}
           count == auditor.total - Cardinality(StoredOf(promoted))
           manifest == [as_of |-> as_of, records |-> records, checkpoint |-> captured,
                        holds |-> holds, decisions |-> decisions, policy_count |-> count]
           at == IF auditor.stored = StoredOf(Identity) THEN auditor.at ELSE None
           written == [manifest |-> manifest, stored |-> auditor.stored, at |-> at]
<1>1. /\ UNCHANGED <<captured, holds, known, others, admitted, moves, applier, runs, verdict>>
      /\ auditor' = Waiting
  BY DEF AuditWrites, UnchangedStore
<1>2. AuditOf(as_of, records, auditor.total) = manifest
  BY DEF AuditOf, ManifestOfDecisions, DecisionsOn
<1>3. audit' = audit \/ audit' = written
  BY <1>2 DEF AuditWrites, AuditFile
<1>4. /\ as_of \in Day /\ records \in DOMAIN Records /\ captured \in [Identity -> DOMAIN Item]
      /\ auditor.at \in Nat /\ auditor.at <= moves /\ auditor.stored \subseteq Held(admitted)
      /\ auditor.at = moves =>
           records = known /\ auditor.total = others + Cardinality(auditor.stored)
      /\ moves \in Nat /\ others \in Nat
  BY DEF ReviewInv, AuditorOK, OutsideOK, AuditWrites
<1>5. PromotedBy(manifest) = promoted BY DEF PromotedBy
<1>6. ASSUME NEW i \in promoted PROVE decisions[i].program # None
  <2>1. i \in Identity /\ captured[i] \in DOMAIN Item BY <1>4
  <2>2. decisions[i] = Admissions[captured[i]][as_of][records] BY <2>1 DEF DecisionsOn
  <2>. QED BY <1>4, <2>1, <2>2, PromotionHasProgram
<1>7. ASSUME at = moves
      PROVE  /\ records = known
             /\ count = others + Cardinality(auditor.stored)
                          - Cardinality(auditor.stored \cap promoted)
  <2>1. auditor.stored = StoredOf(Identity) /\ auditor.at = moves
    BY <1>4, <1>7, ReviewAssumption
  <2>2. StoredOf(promoted) = auditor.stored \cap promoted BY <2>1 DEF StoredOf
  <2>3. count = auditor.total - Cardinality(auditor.stored \cap promoted) BY <2>2
  <2>4. records = known /\ auditor.total = others + Cardinality(auditor.stored)
    BY <1>4, <2>1
  <2> HIDE DEF count, promoted, records
  <2>5. /\ Cardinality(auditor.stored) \in Nat /\ others \in Nat
        /\ Cardinality(auditor.stored \cap promoted) \in Nat
    <3>1. auditor.stored \in SUBSET Identity BY <1>4 DEF Held
    <3>. QED BY <1>4, <3>1, CountIsFinite
  <2>. QED BY <2>3, <2>4, <2>5
<1>8. /\ written.manifest = manifest /\ written.stored = auditor.stored /\ written.at = at
      /\ manifest.as_of = as_of /\ manifest.decisions = decisions /\ manifest.policy_count = count
  OBVIOUS
<1>9. at = None \/ (at \in Nat /\ at <= moves) BY <1>4
<1>10. JudgedNow(manifest, captured, holds, records) BY <1>4 DEF JudgedNow
<1> HIDE DEF manifest, at, count, promoted, decisions, records, as_of
<1>11. BackedNow(written)
  <2> HIDE DEF written
  <2>. QED BY <1>4, <1>5, <1>6, <1>7, <1>8, <1>9, <1>10 DEF BackedNow, Backed
<1> HIDE DEF written
<1>12. (audit # None => BackedNow(audit))' BY <1>1, <1>3, <1>11 DEF ReviewInv, BackedNow
<1>13. AuditorOK' BY <1>1 DEF AuditorOK, Waiting
<1>14. /\ OutsideOK'
       /\ (applier = Waiting \/ applier.step \in {"counted", "rebuilding", "importing"})'
       /\ (applier # Waiting => verdict = None /\ BackedNow(applier) /\ ApplierOK)'
       /\ (verdict # None => verdict.promoted \subseteq Identity)'
      /\ QuietApplyResumes' /\ SuccessIsWhole'
  BY <1>1 DEF ReviewInv, OutsideOK, BackedNow, ApplierOK, QuietApplyResumes, SuccessIsWhole
<1>. QED BY <1>12, <1>13, <1>14 DEF ReviewInv

(* The apply *)

(* Nothing but the apply itself changes. *)
AuditStands ==
  /\ UNCHANGED <<captured, holds, known, others, moves, auditor, audit>>
  /\ DOMAIN admitted' = Identity /\ DOMAIN runs' = Sources
  /\ Held(admitted) \subseteq Held(admitted')

LEMMA AuditStandsKeeps ==
  ASSUME ReviewInv, AuditStands
  PROVE  /\ OutsideOK' /\ AuditorOK' /\ (audit # None => BackedNow(audit))'
         /\ \A w : BackedNow(w) => Backed(w, moves', captured', holds', known', others', admitted')
<1>1. ASSUME NEW w, BackedNow(w)
      PROVE  Backed(w, moves', captured', holds', known', others', admitted')
  BY <1>1, BackedStays DEF ReviewInv, OutsideOK, AuditStands, BackedNow
<1>2. OutsideOK' BY DEF ReviewInv, OutsideOK, AuditStands
<1>3. AuditorOK' BY DEF ReviewInv, AuditorOK, AuditStands
<1>4. (audit # None => BackedNow(audit))' BY <1>1 DEF ReviewInv, AuditStands, BackedNow
<1>. QED BY <1>1, <1>2, <1>3, <1>4

(* A step to a resting applier with a verdict of its own. *)
LEMMA EndsKeeps ==
  ASSUME ReviewInv, AuditStands, NEW result, Ends(result), result # "drifted", result # "succeeded"
  PROVE  ReviewInv'
<1>1. /\ OutsideOK' /\ AuditorOK' /\ (audit # None => BackedNow(audit))'
  BY AuditStandsKeeps
<1>2. applier' = Waiting /\ verdict'.result = result /\ verdict'.promoted \subseteq Identity
  BY DEF Ends, PromotedBy
<1>. QED BY <1>1, <1>2 DEF ReviewInv, QuietApplyResumes, SuccessIsWhole

LEMMA ApplyReadsKeeps ==
  ASSUME ReviewInv, NEW dry \in BOOLEAN, ApplyReads(dry)
  PROVE  ReviewInv'
<1>1. /\ audit # None /\ verdict' = None
      /\ applier' = [step |-> "counted", dry |-> dry, before |-> PolicyCount, records |-> None,
                     manifest |-> audit.manifest, stored |-> audit.stored, at |-> audit.at]
      /\ UNCHANGED <<captured, holds, known, others, admitted, moves, auditor, audit>>
      /\ runs' = [s \in Sources |-> None]
  BY DEF ApplyReads, UnchangedStore
<1>2. AuditStands BY <1>1 DEF AuditStands, ReviewInv, OutsideOK
<1>3. PolicyCount = others + Cardinality(Held(admitted)) BY DEF PolicyCount, StoredOf, Held
<1>4. BackedNow(applier)'
  <2>1. Backed(audit, moves', captured', holds', known', others', admitted')
    BY <1>1, <1>2, AuditStandsKeeps DEF ReviewInv
  <2>2. /\ applier'.manifest = audit.manifest /\ applier'.stored = audit.stored
        /\ applier'.at = audit.at
    BY <1>1
  <2>. QED BY <2>1, <2>2 DEF BackedNow, Backed
<1>5. ApplierOK'
  <2>1. applier'.step = "counted" /\ applier'.before = others + Cardinality(Held(admitted))
    BY <1>1, <1>3
  <2>2. applier' = [step |-> applier'.step, dry |-> applier'.dry, before |-> applier'.before,
                    records |-> applier'.records, manifest |-> applier'.manifest,
                    stored |-> applier'.stored, at |-> applier'.at]
    BY <1>1
  <2>. QED BY <1>1, <2>1, <2>2 DEF ApplierOK
<1>. QED BY <1>1, <1>2, <1>4, <1>5, AuditStandsKeeps
     DEF ReviewInv, QuietApplyResumes, SuccessIsWhole

LEMMA ApplyChecksCountKeeps ==
  ASSUME ReviewInv, ApplyChecksCount
  PROVE  ReviewInv'
<1> DEFINE promoted == PromotedBy(applier.manifest)
<1>1. /\ applier.step = "counted" /\ applier # Waiting
      /\ UNCHANGED <<captured, holds, known, others, admitted, moves, auditor, audit, runs>>
  BY DEF ApplyChecksCount, UnchangedStore, Waiting
<1>2. AuditStands BY <1>1 DEF AuditStands, ReviewInv, OutsideOK
<1>3. verdict = None /\ BackedNow(applier) /\ ApplierOK BY <1>1 DEF ReviewInv
<1>4. applier = [step |-> applier.step, dry |-> applier.dry, before |-> applier.before,
                 records |-> applier.records, manifest |-> applier.manifest,
                 stored |-> applier.stored, at |-> applier.at]
  BY <1>1, <1>3 DEF ApplierOK
<1>5. CASE IsBaseline(applier.before, applier.manifest)
  <2>1. applier' = [applier EXCEPT !.step = "rebuilding", !.records = known] /\ verdict' = verdict
    BY <1>1, <1>5 DEF ApplyChecksCount
  <2>2. applier' = [step |-> "rebuilding", dry |-> applier.dry, before |-> applier.before,
                    records |-> known, manifest |-> applier.manifest,
                    stored |-> applier.stored, at |-> applier.at]
    BY <1>4, <2>1
  <2>3. BackedNow(applier)'
    <3>1. Backed(applier, moves', captured', holds', known', others', admitted')
      BY <1>2, <1>3, AuditStandsKeeps
    <3>2. /\ applier'.manifest = applier.manifest /\ applier'.stored = applier.stored
          /\ applier'.at = applier.at
      BY <2>2
    <3>. QED BY <3>1, <3>2 DEF BackedNow, Backed
  <2>4. ApplierOK'
    <3>1. /\ applier'.step = "rebuilding" /\ applier'.records = known /\ known' = known
          /\ applier' = [step |-> applier'.step, dry |-> applier'.dry, before |-> applier'.before,
                    records |-> applier'.records, manifest |-> applier'.manifest,
                    stored |-> applier'.stored, at |-> applier'.at]
      BY <1>1, <2>2
    <3>. QED BY <3>1 DEF ApplierOK
  <2>5. applier'.step = "rebuilding" BY <2>2
  <2>. QED BY <1>2, <1>3, <2>1, <2>3, <2>4, <2>5, AuditStandsKeeps
       DEF ReviewInv, QuietApplyResumes, SuccessIsWhole
<1>6. CASE ~IsBaseline(applier.before, applier.manifest)
  <2>1. Ends("drifted") BY <1>1, <1>6 DEF ApplyChecksCount
  <2>2. ASSUME applier.at = moves, StoredOf(Identity) \ applier.stored \subseteq promoted
        PROVE  FALSE
    <3>1. StoredOf(Identity) = Held(admitted) /\ StoredOf(promoted) = Held(admitted) \cap promoted
      BY DEF StoredOf, Held, PromotedBy
    <3>2. /\ applier.before = others + Cardinality(Held(admitted))
          /\ applier.manifest.policy_count =
               others + (Cardinality(applier.stored) - Cardinality(applier.stored \cap promoted))
          /\ applier.stored \subseteq Held(admitted) /\ others \in Nat
      BY <1>1, <1>3, <2>2 DEF ApplierOK, BackedNow, Backed, ReviewInv, OutsideOK
    <3>3. Held(admitted) \in SUBSET Identity BY DEF Held
    <3>4. Cardinality(Held(admitted)) - Cardinality(Held(admitted) \cap promoted)
            = Cardinality(applier.stored) - Cardinality(applier.stored \cap promoted)
      BY <2>2, <3>1, <3>2, <3>3, BaselineStays
    <3>5. /\ Cardinality(Held(admitted)) \in Nat /\ Cardinality(applier.stored) \in Nat
          /\ Cardinality(Held(admitted) \cap promoted) \in Nat
          /\ Cardinality(applier.stored \cap promoted) \in Nat
      BY <3>2, <3>3, CountIsFinite
    <3>6. applier.before - Cardinality(Held(admitted) \cap promoted)
            = applier.manifest.policy_count
      BY <3>2, <3>4, <3>5
    <3>. QED BY <1>6, <3>1, <3>6 DEF IsBaseline
  <2>3. /\ applier' = Waiting /\ verdict'.result = "drifted"
        /\ verdict'.quiet = (/\ applier.at = moves
                             /\ StoredOf(Identity) \ applier.stored \subseteq promoted)
        /\ verdict'.promoted \subseteq Identity
    BY <2>1 DEF Ends, PromotedBy
  <2>4. ~verdict'.quiet BY <2>2, <2>3
  <2>. QED BY <1>2, <2>3, <2>4, AuditStandsKeeps
       DEF ReviewInv, QuietApplyResumes, SuccessIsWhole
<1>. QED BY <1>5, <1>6

LEMMA ApplyComparesKeeps ==
  ASSUME ReviewInv, ApplyCompares
  PROVE  ReviewInv'
<1> DEFINE rebuilt == RebuiltFor(applier.manifest, applier.records)
<1>1. /\ applier.step = "rebuilding" /\ applier # Waiting /\ ImportsOrEnds(rebuilt)
      /\ UNCHANGED <<captured, holds, known, others, admitted, moves, auditor, audit, runs>>
  BY DEF ApplyCompares, UnchangedStore, Waiting
<1>2. AuditStands BY <1>1 DEF AuditStands, ReviewInv, OutsideOK
<1>3. verdict = None /\ BackedNow(applier) /\ ApplierOK BY <1>1 DEF ReviewInv
<1>4. CASE rebuilt = applier.manifest
  <2>1. applier' = Importing(applier.manifest) /\ verdict' = verdict
    BY <1>1, <1>4 DEF ImportsOrEnds, IsRebuilt
  <2>2. applier' = [step |-> "importing", source |-> None, inserted |-> 0, dry |-> applier.dry,
                    before |-> applier.before, manifest |-> applier.manifest,
                    stored |-> applier.stored, at |-> applier.at,
                    programs |-> [i \in PromotedBy(applier.manifest) |->
                                    applier.manifest.decisions[i].program],
                    todo |-> {SourceUnder[i] : i \in PromotedBy(applier.manifest)}]
    BY <2>1 DEF Importing
  <2>3. BackedNow(applier)'
    <3>1. Backed(applier, moves', captured', holds', known', others', admitted')
      BY <1>2, <1>3, AuditStandsKeeps
    <3>2. /\ applier'.manifest = applier.manifest /\ applier'.stored = applier.stored
          /\ applier'.at = applier.at
      BY <2>2
    <3>. QED BY <3>1, <3>2 DEF BackedNow, Backed
  <2>4. ApplierOK'
    <3>1. /\ applier'.step = "importing" /\ applier'.source = None
          /\ applier'.manifest = applier.manifest
          /\ applier'.programs = [i \in PromotedBy(applier.manifest) |->
                                    applier.manifest.decisions[i].program]
          /\ applier'.todo = {SourceUnder[i] : i \in PromotedBy(applier.manifest)}
      BY <2>2
    <3>2. applier' = [step |-> "importing", source |-> applier'.source,
                     inserted |-> applier'.inserted, dry |-> applier'.dry,
                     before |-> applier'.before, manifest |-> applier'.manifest,
                     stored |-> applier'.stored, at |-> applier'.at,
                     programs |-> applier'.programs, todo |-> applier'.todo]
      BY <2>2
    <3>. QED BY <3>1, <3>2 DEF ApplierOK
  <2>5. applier'.step = "importing" BY <2>2
  <2>. QED BY <1>2, <1>3, <2>1, <2>3, <2>4, <2>5, AuditStandsKeeps
       DEF ReviewInv, QuietApplyResumes, SuccessIsWhole
<1>5. CASE rebuilt # applier.manifest
  <2>1. Ends("drifted") BY <1>1, <1>5 DEF ImportsOrEnds, IsRebuilt
  <2>2. ASSUME applier.at = moves PROVE FALSE
    <3> DEFINE m == applier.manifest
               again == AuditOf(m.as_of, applier.records, 0)
    <3>1. applier.records = known /\ JudgedNow(m, captured, holds, known)
      BY <1>1, <1>3, <2>2 DEF ApplierOK, BackedNow, Backed
    <3>2. again = [as_of |-> m.as_of, records |-> known, checkpoint |-> captured,
                   holds |-> holds, decisions |-> DecisionsOn(captured, m.as_of, known),
                   policy_count |-> again.policy_count]
      BY <3>1 DEF AuditOf, ManifestOfDecisions, DecisionsOn
    <3>3. m = [as_of |-> m.as_of, records |-> known, checkpoint |-> captured,
               holds |-> holds, decisions |-> DecisionsOn(captured, m.as_of, known),
               policy_count |-> m.policy_count]
      BY <3>1 DEF JudgedNow
    <3>4. rebuilt = [again EXCEPT !.policy_count = m.policy_count] BY DEF RebuiltFor
    <3> HIDE DEF again, m, rebuilt
    <3>5. rebuilt = m BY <3>2, <3>3, <3>4
    <3>. QED BY <1>5, <3>5 DEF m
  <2>3. /\ applier' = Waiting /\ verdict'.result = "drifted" /\ (verdict'.quiet => applier.at = moves)
        /\ verdict'.promoted \subseteq Identity
    BY <2>1 DEF Ends, PromotedBy
  <2>4. ~verdict'.quiet BY <2>2, <2>3
  <2>. QED BY <1>2, <2>3, <2>4, AuditStandsKeeps
       DEF ReviewInv, QuietApplyResumes, SuccessIsWhole
<1>. QED BY <1>4, <1>5

(* A step within the import of the sources, of which source and todo, and  *)
(* what is stored and recorded, may change.                                *)
LEMMA ImportingKeeps ==
  ASSUME ReviewInv, AuditStands, applier.step = "importing", UNCHANGED verdict,
         NEW source \in {None} \cup Sources, NEW todo, NEW inserted,
         applier' = [applier EXCEPT !.source = source, !.todo = todo, !.inserted = inserted],
         ~applier.dry => \A i \in PromotedBy(applier.manifest) :
            /\ SourceUnder[i] \notin todo => admitted'[i] # None
            /\ SourceUnder[i] \notin todo \cup {source} => runs'[SourceUnder[i]] = "succeeded"
  PROVE  ReviewInv'
<1>1. applier # Waiting BY DEF Waiting
<1>2. verdict = None /\ BackedNow(applier) /\ ApplierOK BY <1>1 DEF ReviewInv
<1>3. /\ applier = [step |-> "importing", source |-> applier.source,
                     inserted |-> applier.inserted, dry |-> applier.dry,
                     before |-> applier.before, manifest |-> applier.manifest,
                     stored |-> applier.stored, at |-> applier.at,
                     programs |-> applier.programs, todo |-> applier.todo]
      /\ applier.programs = [i \in PromotedBy(applier.manifest) |->
                               applier.manifest.decisions[i].program]
  BY <1>2 DEF ApplierOK
<1>4. applier' = [step |-> "importing", source |-> source, inserted |-> inserted,
                  dry |-> applier.dry, before |-> applier.before,
                  manifest |-> applier.manifest, stored |-> applier.stored, at |-> applier.at,
                  programs |-> applier.programs, todo |-> todo]
  BY <1>3
<1>5. /\ applier'.step = "importing" /\ applier'.source = source /\ applier'.todo = todo
      /\ applier'.dry = applier.dry /\ applier'.manifest = applier.manifest
      /\ applier'.programs = applier.programs /\ applier'.stored = applier.stored
      /\ applier'.at = applier.at
  BY <1>4
<1>6. BackedNow(applier)'
  <2>1. Backed(applier, moves', captured', holds', known', others', admitted')
    BY <1>2, AuditStandsKeeps
  <2>. QED BY <1>5, <2>1 DEF BackedNow, Backed
<1>7. ApplierOK'
  <2>1. applier' = [step |-> "importing", source |-> applier'.source,
                     inserted |-> applier'.inserted, dry |-> applier'.dry,
                     before |-> applier'.before, manifest |-> applier'.manifest,
                     stored |-> applier'.stored, at |-> applier'.at,
                     programs |-> applier'.programs, todo |-> applier'.todo]
    BY <1>4
  <2>. QED BY <1>3, <1>5, <2>1 DEF ApplierOK
<1>. QED BY <1>2, <1>5, <1>6, <1>7, AuditStandsKeeps
     DEF ReviewInv, QuietApplyResumes, SuccessIsWhole

(* What is at hand within the import of the sources. *)
LEMMA AtImport ==
  ASSUME ReviewInv, applier.step = "importing"
  PROVE  /\ verdict = None /\ BackedNow(applier)
         /\ applier.programs = [i \in PromotedBy(applier.manifest) |->
                                  applier.manifest.decisions[i].program]
         /\ applier.source \in {None} \cup Sources
         /\ ~applier.dry => \A i \in PromotedBy(applier.manifest) :
              /\ SourceUnder[i] \notin applier.todo => admitted[i] # None
              /\ SourceUnder[i] \notin applier.todo \cup {applier.source} =>
                   runs[SourceUnder[i]] = "succeeded"
         /\ DOMAIN admitted = Identity /\ DOMAIN runs = Sources
         /\ applier = [step |-> "importing", source |-> applier.source,
                     inserted |-> applier.inserted, dry |-> applier.dry,
                     before |-> applier.before, manifest |-> applier.manifest,
                     stored |-> applier.stored, at |-> applier.at,
                     programs |-> applier.programs, todo |-> applier.todo]
<1>1. applier # Waiting BY DEF Waiting
<1>2. verdict = None /\ BackedNow(applier) /\ ApplierOK BY <1>1 DEF ReviewInv
<1>. QED BY <1>2 DEF ApplierOK, ReviewInv, OutsideOK

LEMMA StartSourceKeeps ==
  ASSUME ReviewInv, NEW s \in Sources, StartSource(s)
  PROVE  ReviewInv'
<1>1. /\ applier.step = "importing" /\ applier.source = None /\ s \in applier.todo
      /\ applier' = [applier EXCEPT !.source = s]
      /\ runs' = IF applier.dry THEN runs ELSE [runs EXCEPT ![s] = "running"]
      /\ UNCHANGED <<captured, holds, known, others, admitted, moves, auditor, audit, verdict>>
  BY DEF StartSource, UnchangedStore
<1>2. DOMAIN admitted = Identity /\ DOMAIN runs = Sources BY <1>1, AtImport
<1>3. AuditStands BY <1>1, <1>2 DEF AuditStands
<1>4. applier' = [applier EXCEPT !.source = s, !.todo = applier.todo,
                                 !.inserted = applier.inserted]
  BY <1>1, AtImport
<1>5. ASSUME ~applier.dry, NEW i \in PromotedBy(applier.manifest)
      PROVE  /\ SourceUnder[i] \notin applier.todo => admitted'[i] # None
             /\ SourceUnder[i] \notin applier.todo \cup {s} => runs'[SourceUnder[i]] = "succeeded"
  <2>1. SourceUnder[i] \in Sources BY DEF Sources, PromotedBy
  <2>2. /\ SourceUnder[i] \notin applier.todo => admitted[i] # None
        /\ SourceUnder[i] \notin applier.todo \cup {None} => runs[SourceUnder[i]] = "succeeded"
    BY <1>1, <1>5, AtImport
  <2>3. SourceUnder[i] # None BY <2>1, ReviewAssumption
  <2>. QED BY <1>1, <1>2, <1>5, <2>1, <2>2, <2>3
<1>6. applier.step = "importing" /\ UNCHANGED verdict /\ s \in {None} \cup Sources BY <1>1
<1>. QED BY <1>3, <1>4, <1>5, <1>6, ImportingKeeps

LEMMA FinishSourceKeeps ==
  ASSUME ReviewInv, FinishSource
  PROVE  ReviewInv'
<1>1. /\ applier.step = "importing" /\ applier.source \notin applier.todo \cup {None}
      /\ applier' = [applier EXCEPT !.source = None]
      /\ runs' = IF applier.dry THEN runs ELSE [runs EXCEPT ![applier.source] = "succeeded"]
      /\ UNCHANGED <<captured, holds, known, others, admitted, moves, auditor, audit, verdict>>
  BY DEF FinishSource, UnchangedStore
<1>2. DOMAIN admitted = Identity /\ DOMAIN runs = Sources /\ applier.source \in Sources
  BY <1>1, AtImport
<1>3. AuditStands BY <1>1, <1>2 DEF AuditStands
<1>4. applier' = [applier EXCEPT !.source = None, !.todo = applier.todo,
                                 !.inserted = applier.inserted]
  BY <1>1, AtImport
<1>5. ASSUME ~applier.dry, NEW i \in PromotedBy(applier.manifest)
      PROVE  /\ SourceUnder[i] \notin applier.todo => admitted'[i] # None
             /\ SourceUnder[i] \notin applier.todo \cup {None} => runs'[SourceUnder[i]] = "succeeded"
  <2>1. SourceUnder[i] \in Sources BY DEF Sources, PromotedBy
  <2>2. /\ SourceUnder[i] \notin applier.todo => admitted[i] # None
        /\ SourceUnder[i] \notin applier.todo \cup {applier.source} =>
             runs[SourceUnder[i]] = "succeeded"
    BY <1>1, <1>5, AtImport
  <2>. QED BY <1>1, <1>2, <1>5, <2>1, <2>2
<1>. QED BY <1>1, <1>3, <1>4, <1>5, ImportingKeeps

LEMMA ImportSourceKeeps ==
  ASSUME ReviewInv, ImportSource
  PROVE  ReviewInv'
<1> DEFINE s == applier.source
           todo == applier.todo \ {s}
           inserted == applier.inserted
                         + Cardinality({i \in OfSourceUnder(s) : admitted[i] = None})
           takes(i) == ~applier.dry /\ i \in OfSourceUnder(s)
<1>1. /\ applier.step = "importing" /\ s \in applier.todo
      /\ admitted' = [i \in Identity |-> IF takes(i) THEN applier.programs[i] ELSE admitted[i]]
      /\ applier' = [applier EXCEPT !.todo = todo, !.inserted = inserted]
      /\ UNCHANGED <<captured, holds, known, others, moves, auditor, audit, runs, verdict>>
  BY DEF ImportSource
<1>2. /\ DOMAIN admitted = Identity /\ DOMAIN runs = Sources /\ s \in {None} \cup Sources
      /\ applier.programs = [i \in PromotedBy(applier.manifest) |->
                               applier.manifest.decisions[i].program]
  BY <1>1, AtImport
<1>3. ASSUME NEW i \in DOMAIN applier.programs PROVE applier.programs[i] # None
  BY <1>1, <1>2, <1>3, AtImport DEF BackedNow, Backed
<1>4. \A i \in OfSourceUnder(s) : i \in DOMAIN applier.programs /\ i \in Identity
  BY <1>2 DEF OfSourceUnder, PromotedBy
<1>5. ASSUME NEW i \in Identity
      PROVE  /\ takes(i) => admitted'[i] # None
             /\ ~takes(i) => admitted'[i] = admitted[i]
  BY <1>1, <1>3, <1>4
<1>6. AuditStands
  <2>1. Held(admitted) \subseteq Held(admitted') BY <1>5 DEF Held
  <2>. QED BY <1>1, <1>2, <2>1 DEF AuditStands
<1>7. applier' = [applier EXCEPT !.source = s, !.todo = todo, !.inserted = inserted]
  <2> HIDE DEF todo, inserted
  <2>. QED BY <1>1, AtImport
<1>8. ASSUME ~applier.dry, NEW i \in PromotedBy(applier.manifest)
      PROVE  /\ SourceUnder[i] \notin todo => admitted'[i] # None
             /\ SourceUnder[i] \notin todo \cup {s} => runs'[SourceUnder[i]] = "succeeded"
  <2>1. i \in Identity BY DEF PromotedBy
  <2>2. /\ SourceUnder[i] \notin applier.todo => admitted[i] # None
        /\ SourceUnder[i] \notin applier.todo \cup {s} => runs[SourceUnder[i]] = "succeeded"
    BY <1>1, <1>8, AtImport
  <2>3. SourceUnder[i] = s => takes(i) BY <1>2, <1>8 DEF OfSourceUnder
  <2>. QED BY <1>1, <1>5, <2>1, <2>2, <2>3
<1>9. applier.step = "importing" /\ UNCHANGED verdict /\ s \in {None} \cup Sources
  BY <1>1, <1>2
<1> HIDE DEF s, todo, inserted, takes
<1>. QED BY <1>6, <1>7, <1>8, <1>9, ImportingKeeps

LEMMA EndingKeeps ==
  ASSUME ReviewInv, SourceFails \/ ApplyDies
  PROVE  ReviewInv'
<1>1. /\ Ends("failed") /\ DOMAIN runs' = DOMAIN runs
      /\ UNCHANGED <<captured, holds, known, others, admitted, moves, auditor, audit>>
  BY DEF SourceFails, ApplyDies, UnchangedStore
<1>2. AuditStands BY <1>1 DEF AuditStands, ReviewInv, OutsideOK
<1>. QED BY <1>1, <1>2, EndsKeeps

LEMMA ApplyVerifiesKeeps ==
  ASSUME ReviewInv, ApplyVerifies
  PROVE  ReviewInv'
<1>1. /\ applier.step = "importing" /\ applier.source = None /\ applier.todo = {}
      /\ UNCHANGED <<captured, holds, known, others, admitted, moves, auditor, audit, runs>>
  BY DEF ApplyVerifies, UnchangedStore
<1>2. AuditStands BY <1>1 DEF AuditStands, ReviewInv, OutsideOK
<1>3. PICK result \in {"failed", "rehearsed", "succeeded"} :
        Ends(result) /\ (result = "succeeded" => ~applier.dry)
  BY DEF ApplyVerifies
<1>4. CASE result # "succeeded" BY <1>2, <1>3, <1>4, EndsKeeps
<1>5. CASE result = "succeeded"
  <2>1. /\ applier' = Waiting /\ verdict'.result = "succeeded"
        /\ verdict'.promoted = PromotedBy(applier.manifest)
        /\ verdict'.promoted \subseteq Identity
    BY <1>3, <1>5 DEF Ends, PromotedBy
  <2>2. ASSUME NEW i \in PromotedBy(applier.manifest)
        PROVE  admitted'[i] # None /\ runs'[SourceUnder[i]] = "succeeded"
    <3>1. SourceUnder[i] \in Sources BY DEF Sources, PromotedBy
    <3>2. SourceUnder[i] # None BY <3>1, ReviewAssumption
    <3>. QED BY <1>1, <1>3, <1>5, <3>2, AtImport
  <2>. QED BY <1>2, <2>1, <2>2, AuditStandsKeeps DEF ReviewInv, QuietApplyResumes, SuccessIsWhole
<1>. QED BY <1>4, <1>5

(* From outside *)
LEMMA MovesKeeps ==
  ASSUME ReviewInv, Moves, others' \in Nat, known' \in DOMAIN Records,
         captured' \in [Identity -> DOMAIN Item], DOMAIN admitted' = Identity,
         Held(admitted) \subseteq Held(admitted')
  PROVE  ReviewInv'
<1>1. /\ moves \in Nat /\ moves' = moves + 1
      /\ UNCHANGED <<auditor, audit, applier, runs, verdict>>
  BY DEF Moves, ReviewInv, OutsideOK
<1>2. ASSUME NEW w, BackedNow(w)
      PROVE  Backed(w, moves', captured', holds', known', others', admitted') /\ w.at # moves'
  <2>1. Backed(w, moves', captured', holds', known', others', admitted')
    BY <1>1, <1>2, BackedStays DEF BackedNow
  <2>. QED BY <1>1, <1>2, <2>1, ReviewAssumption DEF BackedNow, Backed
<1>3. OutsideOK' BY <1>1 DEF OutsideOK, ReviewInv
<1>4. AuditorOK' BY <1>1 DEF AuditorOK, ReviewInv
<1>5. (audit # None => BackedNow(audit))' BY <1>1, <1>2 DEF BackedNow, ReviewInv
<1>6. ASSUME applier # Waiting
      PROVE  verdict' = None /\ BackedNow(applier)' /\ ApplierOK'
  <2>1. verdict = None /\ BackedNow(applier) /\ ApplierOK BY <1>6 DEF ReviewInv
  <2>2. BackedNow(applier)' /\ applier.at # moves' BY <1>1, <1>2, <2>1 DEF BackedNow
  <2>3. ApplierOK'
    <3>1. \A i \in Identity : admitted[i] # None => admitted'[i] # None BY DEF Held
    <3>2. \A i \in PromotedBy(applier.manifest) : i \in Identity BY DEF PromotedBy
    <3>. QED BY <1>1, <2>1, <2>2, <3>1, <3>2 DEF ApplierOK
  <2>. QED BY <1>1, <2>1, <2>2, <2>3
<1>7. SuccessIsWhole'
  <2>1. \A i \in Identity : admitted[i] # None => admitted'[i] # None BY DEF Held
  <2>. QED BY <1>1, <2>1 DEF ReviewInv, SuccessIsWhole
<1>. QED BY <1>1, <1>3, <1>4, <1>5, <1>6, <1>7 DEF ReviewInv, QuietApplyResumes

LEMMA ReviewStep == ReviewInv /\ [ReviewNext]_reviewVars => ReviewInv'
<1> SUFFICES ASSUME ReviewInv, [ReviewNext]_reviewVars PROVE ReviewInv' OBVIOUS
<1>1. ASSUME NEW as_of \in Day, AuditReads(as_of) PROVE ReviewInv' BY <1>1, AuditReadsKeeps
<1>2. CASE AuditWrites BY <1>2, AuditWritesKeeps
<1>3. ASSUME NEW dry \in BOOLEAN, ApplyReads(dry) PROVE ReviewInv' BY <1>3, ApplyReadsKeeps
<1>4. CASE ApplyChecksCount BY <1>4, ApplyChecksCountKeeps
<1>5. CASE ApplyCompares BY <1>5, ApplyComparesKeeps
<1>6. ASSUME NEW s \in Sources, StartSource(s) PROVE ReviewInv' BY <1>6, StartSourceKeeps
<1>7. CASE ImportSource BY <1>7, ImportSourceKeeps
<1>8. CASE SourceFails \/ ApplyDies BY <1>8, EndingKeeps
<1>9. CASE FinishSource BY <1>9, FinishSourceKeeps
<1>10. CASE ApplyVerifies BY <1>10, ApplyVerifiesKeeps
<1>11. ASSUME NEW i \in Identity, EvidenceChanges(i) PROVE ReviewInv'
  <2>1. PICK item \in ItemsOf[i] \ {captured[i]} :
          captured' = [captured EXCEPT ![i] = item]
    BY <1>11 DEF EvidenceChanges
  <2>2. Moves /\ UNCHANGED <<holds, known, others, admitted>> BY <1>11 DEF EvidenceChanges
  <2>3. captured' \in [Identity -> DOMAIN Item]
    BY <2>1, ReviewAssumption DEF ReviewInv, OutsideOK
  <2>. QED BY <2>2, <2>3, MovesKeeps DEF ReviewInv, OutsideOK
<1>12. ASSUME NEW i \in Identity, RegionalImport(i) PROVE ReviewInv'
  <2>1. PICK item \in ItemsOf[i] :
          admitted' = [admitted EXCEPT ![i] = Normalize(Item[item].policy).program]
    BY <1>12 DEF RegionalImport
  <2>2. Moves /\ UNCHANGED <<captured, holds, known, others>> BY <1>12 DEF RegionalImport
  <2>3. Normalize(Item[item].policy).program # None BY ReviewAssumption
  <2>4. DOMAIN admitted' = Identity /\ Held(admitted) \subseteq Held(admitted')
    BY <2>1, <2>3 DEF ReviewInv, OutsideOK, Held
  <2>. QED BY <2>2, <2>4, MovesKeeps DEF ReviewInv, OutsideOK
<1>13. CASE HoldsChange
  <2>1. Moves /\ UNCHANGED <<captured, known, others, admitted>> BY <1>13 DEF HoldsChange
  <2>. QED BY <2>1, MovesKeeps DEF ReviewInv, OutsideOK
<1>14. CASE OtherImport
  <2>1. /\ Moves /\ others' = others + 1 /\ known' \in DOMAIN Records
        /\ UNCHANGED <<captured, holds, admitted>>
    BY <1>14 DEF OtherImport
  <2>. QED BY <2>1, MovesKeeps DEF ReviewInv, OutsideOK
<1>15. CASE UNCHANGED reviewVars
  BY <1>15 DEF reviewVars, ReviewInv, OutsideOK, AuditorOK, BackedNow, ApplierOK,
     QuietApplyResumes, SuccessIsWhole
<1>. QED
  BY <1>1, <1>2, <1>3, <1>4, <1>5, <1>6, <1>7, <1>8, <1>9, <1>10, <1>11, <1>12, <1>13, <1>14,
     <1>15 DEF ReviewNext

(* However audits, applies, collections and imports interleave, and        *)
(* wherever an apply dies: what it writes is what its manifest says, a     *)
(* success has stored and recorded all of it, and an apply is refused for  *)
(* drift only when something else changed since the audit began.           *)
THEOREM AppliesAreWhole == ReviewSpec => []ApplyIsWhole
<1>1. ReviewSpec => []ReviewInv
  BY ReviewInit_Inv, ReviewStep, PTL DEF ReviewSpec
<1>. QED BY <1>1, ReviewInvImplies, PTL

-----------------------------------------------------------------------------
(* The search *)

(* match_region_rules (policy_search.py) reads the columns of a policy and *)
(* its rules by two statements: columns of one commit and rules of another *)
(* never make a verdict that neither commit deserves, other than doubt.    *)
THEOREM TornReadsAreHonest ==
  ASSUME NEW old, NEW new, NEW query,
         {old.scope, new.scope} \subseteq CoverageScope,
         RegionContract(old.scope, old.rules), RegionContract(new.scope, new.rules)
  PROVE  RegionDecision(old.scope, ToSet(new.rules), query)
           \in {RegionDecision(old.scope, ToSet(old.rules), query),
                RegionDecision(new.scope, ToSet(new.rules), query), "unknown"}
<1>1. CASE old.scope \in {"nationwide", "unknown"} BY <1>1 DEF RegionDecision
<1>2. CASE old.scope = "regional" /\ new.scope = "regional" BY <1>2
<1>3. CASE old.scope = "regional" /\ new.scope # "regional"
  <2>1. new.scope \in {"nationwide", "unknown"} BY <1>3 DEF CoverageScope
  <2>2. \A k \in DOMAIN new.rules : new.rules[k].resolution # "matched"
    BY <2>1 DEF RegionContract
  <2>3. \A rule \in ToSet(new.rules) : ~IsUsable(rule)
    BY <2>2 DEF ToSet, IsUsable, IsMatched
  <2>4. IsDoubtful(ToSet(new.rules), query) BY <2>3 DEF IsDoubtful
  <2>. QED BY <1>3, <2>3, <2>4 DEF RegionDecision
<1>. QED BY <1>1, <1>2, <1>3 DEF CoverageScope

-----------------------------------------------------------------------------
(* One question to one part *)

(* What is asked may be asked, and what is answered is the answer.         *)
JudgeInv ==
  /\ style \in Styles /\ question \in Questions(style)
  /\ answer # None => style \in Judged /\ answer = Answer(style, question)

(* The invariant of the judgement, inductive as it stands.                 *)
LEMMA JudgeInvAlways == JudgeSpec => []JudgeInv
<1>1. JudgeInit => JudgeInv BY DEF JudgeInit, JudgeInv
<1>2. JudgeInv /\ [Judge]_judgeVars => JudgeInv'
  BY DEF JudgeInv, Judge, judgeVars
<1>. QED BY <1>1, <1>2, PTL DEF JudgeSpec

(* An answer of a part is to a question it may be asked.                   *)
LEMMA Asked ==
  ASSUME JudgeInv, answer # None
  PROVE  style \in Judged /\ answer = Answer(style, question) /\ IsQuestion(style, question)
BY JudgementAssumption DEF JudgeInv

-----------------------------------------------------------------------------
(* The contract and the comparison *)

(* The two forms of the contract agree on whatever is asked.              *)
LEMMA AnswersAreOneContract ==
  ASSUME JudgeInv PROVE ContractsAgree
<1>. SUFFICES ASSUME style = "contract", answer # None PROVE answer.issues = {} <=> answer.made
  BY DEF ContractsAgree
<1>1. answer = [issues |-> SchemaIssues(question) \cup SemanticIssues(question),
                made |-> IsProgram(question)]
  BY Asked DEF Answer
<1>. QED BY <1>1, ContractIsOne

(* The comparison with the aggregators (evaluate_cross_source_duplicate)   *)
(* accepts only what shares no official identity and differs from every    *)
(* policy of its title, whatever candidate, evidence and baseline it gets. *)
LEMMA ComparisonsAreCautious ==
  ASSUME JudgeInv PROVE GateIsCautious
<1>. SUFFICES ASSUME style = "compare", answer # None
              PROVE  Gate!IsCautious(question.candidate, Gate!Evidence(question.references, question.urls, {}),
                                     question.records, answer)
  BY DEF GateIsCautious
<1>1. answer = Gate!Evaluate(question.candidate, Gate!Evidence(question.references, question.urls, {}),
                             [records |-> question.records])
  BY Asked DEF Answer
<1>2. [records |-> question.records] # None BY Asked DEF IsQuestion
<1>. QED BY <1>1, <1>2, GateDecidesWithCaution

(* evaluate_cross_source_duplicate: a candidate is never accepted as new   *)
(* beside a policy it may be, nor dropped without an official identity.    *)
THEOREM GatesAreCautious == JudgeSpec => []GateIsCautious
<1>1. JudgeInv => GateIsCautious BY ComparisonsAreCautious
<1>. QED BY <1>1, JudgeInvAlways, PTL

-----------------------------------------------------------------------------
(* The tree of regions *)

(* What is above a region: the least that has it and, with each region,    *)
(* the parent.                                                             *)
LEMMA UpwardIs ==
  /\ Upward \in [Region -> SUBSET Region]
  /\ \A r \in Region : Upward[r] = IF ParentOf[r] = None THEN {r} ELSE {r} \cup Upward[ParentOf[r]]
<1> DEFINE Closed(T) == \A x \in T : ParentOf[x] # None => ParentOf[x] \in T
           Above(r) == {x \in Region : \A T \in SUBSET Region : r \in T /\ Closed(T) => x \in T}
           f == [r \in Region |-> Above(r)]
           Body(g) == [r \in Region |-> IF ParentOf[r] = None THEN {r} ELSE {r} \cup g[ParentOf[r]]]
<1>1. \A r \in Region : ParentOf[r] \in Region \cup {None} BY TreeAssumption
<1>2. ASSUME NEW r \in Region
      PROVE  Above(r) = IF ParentOf[r] = None THEN {r} ELSE {r} \cup Above(ParentOf[r])
  <2>1. r \in Above(r) OBVIOUS
  <2>2. CASE ParentOf[r] = None
    <3>1. {r} \in SUBSET Region /\ Closed({r}) BY <2>2
    <3>. QED BY <2>1, <2>2, <3>1
  <2>3. CASE ParentOf[r] # None
    <3>1. ParentOf[r] \in Region BY <1>1, <2>3
    <3>2. Above(ParentOf[r]) \subseteq Above(r) BY <2>3
    <3>3. ASSUME NEW x \in Above(r), x # r PROVE x \in Above(ParentOf[r])
      <4>1. SUFFICES ASSUME NEW T \in SUBSET Region, ParentOf[r] \in T, Closed(T) PROVE x \in T
        BY <3>3
      <4>2. T \cup {r} \in SUBSET Region /\ Closed(T \cup {r}) BY <4>1
      <4>. QED BY <3>3, <4>2
    <3>. QED BY <2>1, <2>3, <3>2, <3>3
  <2>. QED BY <2>2, <2>3
<1>3. f = Body(f)
  <2>1. \A r \in Region : ParentOf[r] # None => f[ParentOf[r]] = Above(ParentOf[r]) BY <1>1
  <2> HIDE DEF Above
  <2>2. \A r \in Region : f[r] = Body(f)[r] BY <1>2, <2>1
  <2>. QED BY <2>2
<1> HIDE DEF f
<1>4. Upward = CHOOSE g : g = Body(g) BY DEF Upward
<1>5. Upward = Body(Upward) BY <1>3, <1>4
<1>6. DOMAIN Upward = Region
      /\ \A r \in Region : Upward[r] = IF ParentOf[r] = None THEN {r} ELSE {r} \cup Upward[ParentOf[r]]
  BY <1>5
<1> DEFINE Wrong == {r \in Region : ~(Upward[r] \subseteq Region)}
<1>7. Wrong = {}
  <2>1. SUFFICES ASSUME Wrong # {} PROVE FALSE OBVIOUS
  <2>2. PICK r \in Wrong : ParentOf[r] \notin Wrong
    <3>1. Wrong \in SUBSET Region OBVIOUS
    <3> HIDE DEF Wrong
    <3>. QED BY <2>1, <3>1, TreeAssumption
  <2>. QED BY <1>1, <1>6, <2>2
<1>. QED BY <1>5, <1>6, <1>7

(* Every region lies in itself.                                            *)
LEMMA LiesInItself == \A r \in Region : LiesIn(r, r)
BY UpwardIs DEF LiesIn

(* A region lies in another when it is that one or its parent lies in it.  *)
LEMMA LiesInParent ==
  \A r, w \in Region : LiesIn(r, w) <=> (r = w \/ (ParentOf[r] # None /\ LiesIn(ParentOf[r], w)))
<1>. SUFFICES ASSUME NEW r \in Region, NEW w \in Region
              PROVE  LiesIn(r, w) <=> (r = w \/ (ParentOf[r] # None /\ LiesIn(ParentOf[r], w)))
  OBVIOUS
<1>1. CASE ParentOf[r] = None BY <1>1, UpwardIs DEF LiesIn
<1>2. CASE ParentOf[r] # None
  <2>1. Upward[r] = {r} \cup Upward[ParentOf[r]] BY <1>2, UpwardIs
  <2>. QED BY <1>2, <2>1 DEF LiesIn
<1>. QED BY <1>1, <1>2

(* What lies in a region lies in what that lies in.                        *)
LEMMA LiesInIsTransitive ==
  ASSUME NEW b \in Region, NEW c \in Region, LiesIn(b, c)
  PROVE  \A a \in Region : LiesIn(a, b) => LiesIn(a, c)
<1> DEFINE Wrong == {a \in Region : LiesIn(a, b) /\ ~LiesIn(a, c)}
<1>1. SUFFICES ASSUME Wrong # {} PROVE FALSE OBVIOUS
<1>2. PICK a \in Wrong : ParentOf[a] \notin Wrong
  <2>1. Wrong \in SUBSET Region OBVIOUS
  <2> HIDE DEF Wrong
  <2>. QED BY <1>1, <2>1, TreeAssumption
<1>3. ParentOf[a] \in Region \cup {None} BY TreeAssumption
<1>. QED BY <1>2, <1>3, LiesInParent

(* Of two regions that one lies in, one lies in the other.                 *)
LEMMA LiesInIsLinear ==
  ASSUME NEW b \in Region, NEW c \in Region
  PROVE  \A a \in Region : LiesIn(a, b) /\ LiesIn(a, c) => LiesIn(b, c) \/ LiesIn(c, b)
<1> DEFINE Wrong == {a \in Region : LiesIn(a, b) /\ LiesIn(a, c) /\ ~(LiesIn(b, c) \/ LiesIn(c, b))}
<1>1. SUFFICES ASSUME Wrong # {} PROVE FALSE OBVIOUS
<1>2. PICK a \in Wrong : ParentOf[a] \notin Wrong
  <2>1. Wrong \in SUBSET Region OBVIOUS
  <2> HIDE DEF Wrong
  <2>. QED BY <1>1, <2>1, TreeAssumption
<1>3. ParentOf[a] \in Region \cup {None} BY TreeAssumption
<1>. QED BY <1>2, <1>3, LiesInParent

(* A region lies in its parent, and the parent not in it.                  *)
LEMMA ParentsLieOutside ==
  ASSUME NEW r \in Region, ParentOf[r] # None
  PROVE  ParentOf[r] \in Region /\ LiesIn(r, ParentOf[r]) /\ ~LiesIn(ParentOf[r], r)
<1>1. ParentOf[r] \in Region BY TreeAssumption
<1>2. LiesIn(r, ParentOf[r]) BY <1>1, LiesInParent, LiesInItself
<1> DEFINE Circle == {x \in Region : LiesIn(x, r) /\ LiesIn(r, x)}
<1>3. ASSUME LiesIn(ParentOf[r], r) PROVE FALSE
  <2>1. Circle \in SUBSET Region /\ r \in Circle BY LiesInItself
  <2>2. ASSUME NEW x \in Circle PROVE ParentOf[x] \in Circle
    <3>1. CASE x = r BY <1>1, <1>2, <1>3, <3>1
    <3>2. CASE x # r
      <4>1. ParentOf[x] \in Region /\ LiesIn(ParentOf[x], r)
        BY <3>2, LiesInParent, TreeAssumption
      <4>2. LiesIn(x, ParentOf[x]) BY <4>1, LiesInParent, LiesInItself, TreeAssumption
      <4>3. LiesIn(r, ParentOf[x]) BY <4>1, <4>2, LiesInIsTransitive
      <4>. QED BY <4>1, <4>3
    <3>. QED BY <3>1, <3>2
  <2> HIDE DEF Circle
  <2>. QED BY <2>1, <2>2, TreeAssumption
<1>. QED BY <1>1, <1>2, <1>3

(* In every region there is one that no other lies in.                     *)
LEMMA EveryRegionHasADistrict ==
  ASSUME NEW r \in Region PROVE Districts(r) # {}
<1> DEFINE In(x) == {y \in Region : LiesIn(y, x)}
           T == {S \in SUBSET Region : \E x \in In(r) : S = In(x)}
<1>1. FiniteSubsetsOf(Region) = SUBSET Region BY TreeAssumption, FS_FiniteSubsetsOfFinite
<1>2. r \in In(r) BY LiesInItself
<1>3. \A x \in In(r) : In(x) \in T OBVIOUS
<1>4. T # {} /\ T \subseteq FiniteSubsetsOf(Region) BY <1>1, <1>2, <1>3
<1> HIDE DEF T
<1>5. PICK S \in T : \A V \in T : <<V, S>> \notin StrictSubsetOrdering(Region)
  BY <1>4, FS_StrictSubsetOrderingWellFounded, TreeAssumption, WFMin
<1>6. PICK d \in In(r) : S = In(d) BY <1>5 DEF T
<1>7. ASSUME NEW k \in Region, ParentOf[k] = d PROVE FALSE
  <2>1. LiesIn(k, d) /\ ~LiesIn(d, k) BY <1>7, ParentsLieOutside, TreeAssumption
  <2>2. k \in In(r) BY <1>6, <2>1, LiesInIsTransitive
  <2>3. In(k) \subseteq In(d) BY <1>6, <2>1, LiesInIsTransitive
  <2>4. d \in In(d) /\ d \notin In(k) BY <2>1, LiesInItself
  <2>5. <<In(k), S>> \in StrictSubsetOrdering(Region)
    BY <1>6, <2>3, <2>4 DEF StrictSubsetOrdering
  <2>. QED BY <1>3, <1>5, <2>2, <2>5
<1>. QED BY <1>6, <1>7 DEF Districts

-----------------------------------------------------------------------------
(* Verdicts on regions *)

(* A torn read of two coverages within the contract gives a verdict of one *)
(* of them or doubt.                                                       *)
LEMMA ReadsAreHonest ==
  ASSUME JudgeInv PROVE TornReadIsHonest
<1>. SUFFICES ASSUME style = "region", answer # None
              PROVE  answer.torn \in {answer.old, answer.new, "unknown"}
  BY DEF TornReadIsHonest
<1>1. answer = VerdictsOn(question) BY Asked DEF Answer
<1>2. IsCoverage(question.old) /\ IsCoverage(question.new) BY Asked DEF IsQuestion
<1>3. RegionDecision(question.old.scope, ToSet(question.new.rules), question.query)
        \in {RegionDecision(question.old.scope, ToSet(question.old.rules), question.query),
             RegionDecision(question.new.scope, ToSet(question.new.rules), question.query), "unknown"}
  BY <1>2, TornReadsAreHonest DEF IsCoverage
<1>. QED BY <1>1, <1>3 DEF VerdictsOn

(* The districts of two regions meet only if one lies in the other, and    *)
(* then they do.                                                           *)
LEMMA DistrictsMeet ==
  ASSUME NEW a \in Region, NEW b \in Region
  PROVE  /\ LiesIn(a, b) => Districts(a) \subseteq Districts(b)
         /\ Districts(a) \cap Districts(b) # {} <=> LiesIn(a, b) \/ LiesIn(b, a)
<1>1. LiesIn(a, b) => Districts(a) \subseteq Districts(b)
  BY LiesInIsTransitive DEF Districts
<1>2. LiesIn(b, a) => Districts(b) \subseteq Districts(a)
  BY LiesInIsTransitive DEF Districts
<1>3. Districts(a) # {} /\ Districts(b) # {} BY EveryRegionHasADistrict
<1>4. ASSUME Districts(a) \cap Districts(b) # {} PROVE LiesIn(a, b) \/ LiesIn(b, a)
  BY <1>4, LiesInIsLinear DEF Districts
<1>. QED BY <1>1, <1>2, <1>3, <1>4

(* What the search says of a query is so of the districts: whatever the    *)
(* tree, the rules and the levels they are on.                             *)
LEMMA VerdictOnDistricts ==
  ASSUME NEW rules, \A rule \in rules : rule.region \in Region \cup {None},
         NEW query \in Region,
         NEW reached, reached = Districts(query) \cap Covered(rules)
  PROVE  CASE RegionDecision("regional", rules, query) = "match" ->
                reached # {} /\ ~Excludes(rules, query)
           [] RegionDecision("regional", rules, query) = "mismatch" ->
                Excludes(rules, query) \/ (reached = {} /\ ~LeavesDoubt(rules, query))
           [] OTHER -> ~Excludes(rules, query) /\ reached = {}
<1> DEFINE covers(rule) == LiesIn(query, rule.region)
           includes == \E rule \in UsableOf(rules, "include") : covers(rule) \/ IsInside(rule, query)
           excludes == \E rule \in UsableOf(rules, "exclude") : covers(rule)
<1>1. query # None BY TreeAssumption
<1>2. RegionDecision("regional", rules, query) =
        IF excludes THEN "mismatch" ELSE IF includes THEN "match"
        ELSE IF IsDoubtful(rules, query) THEN "unknown" ELSE "mismatch"
  <2>1. CASE excludes BY <1>1, <2>1 DEF RegionDecision, UsableOf
  <2>2. CASE ~excludes /\ includes BY <1>1, <2>2 DEF RegionDecision, UsableOf
  <2>3. CASE ~excludes /\ ~includes /\ IsDoubtful(rules, query)
    BY <1>1, <2>3 DEF RegionDecision, UsableOf
  <2>4. CASE ~excludes /\ ~includes /\ ~IsDoubtful(rules, query)
    BY <1>1, <2>4 DEF RegionDecision, UsableOf
  <2>. QED BY <2>1, <2>2, <2>3, <2>4
<1>3. \A relation : \A rule \in UsableOf(rules, relation) : rule \in rules /\ rule.region \in Region
  BY TreeAssumption DEF UsableOf, IsUsable
<1>4. Excludes(rules, query) <=> excludes BY <1>3, DistrictsMeet DEF Excludes
<1>5. reached # {} <=> includes
  <2>1. reached # {} <=> \E rule \in UsableOf(rules, "include") :
                           Districts(query) \cap Districts(rule.region) # {}
    BY DEF Covered
  <2>. QED BY <1>3, <2>1, DistrictsMeet DEF IsInside
<1>6. ASSUME LeavesDoubt(rules, query) PROVE IsDoubtful(rules, query)
  <2>1. PICK rule \in rules :
          /\ ~IsUsable(rule)
          /\ rule.region = None \/ \E p \in ProvinceOf(rule.region) : Districts(p) \cap Districts(query) # {}
    BY <1>6 DEF LeavesDoubt
  <2>2. CASE rule.region = None
    BY <2>1, <2>2 DEF IsDoubtful, MayConcern, ProvinceOf
  <2>3. CASE rule.region # None
    <3>1. rule.region \in Region BY <2>3
    <3>2. PICK p \in ProvinceOf(rule.region) : Districts(p) \cap Districts(query) # {}
      BY <2>1, <2>3
    <3>3. p \in Province /\ p \in Region /\ LiesIn(rule.region, p)
      BY <2>3, <3>1, <3>2, TreeAssumption DEF ProvinceOf, LiesIn
    <3>4. PICK d \in Region : LiesIn(d, p) /\ LiesIn(d, query) BY <3>2 DEF Districts
    <3>5. \A r \in Region : ProvinceOf(r) = {q \in Province : LiesIn(r, q)}
      BY TreeAssumption DEF ProvinceOf, LiesIn
    <3>6. \A r \in Region : LiesIn(r, p) => ProvinceOf(r) = {p}
      <4>1. SUFFICES ASSUME NEW r \in Region, LiesIn(r, p), NEW q \in ProvinceOf(r) PROVE q = p
        BY <3>3, <3>5
      <4>2. q \in Province /\ q \in Region /\ LiesIn(r, q) BY <3>5, <4>1, TreeAssumption
      <4>. QED BY <3>3, <4>1, <4>2, LiesInIsLinear, TreeAssumption
    <3>7. ProvinceOf(rule.region) = {p} BY <3>1, <3>3, <3>6
    <3>8. CASE ProvinceOf(query) = {} BY <2>1, <3>8 DEF IsDoubtful, MayConcern
    <3>9. CASE ProvinceOf(query) # {}
      <4>1. PICK q \in Province : LiesIn(query, q) BY <3>5, <3>9
      <4>2. LiesIn(d, q) BY <3>4, <4>1, LiesInIsTransitive, TreeAssumption
      <4>3. q \in ProvinceOf(d) /\ ProvinceOf(d) = {p} BY <3>4, <3>5, <3>6, <4>1, <4>2
      <4>4. q = p BY <4>3
      <4>5. ProvinceOf(query) = {p} BY <3>6, <4>1, <4>4
      <4>. QED BY <2>1, <3>7, <4>5 DEF IsDoubtful, MayConcern
    <3>. QED BY <3>8, <3>9
  <2>. QED BY <2>2, <2>3
<1>. QED BY <1>2, <1>4, <1>5, <1>6

(* The verdict that is answered is the one that the districts decide.      *)
LEMMA VerdictsAreSound ==
  ASSUME JudgeInv PROVE VerdictIsSound
<1>. SUFFICES ASSUME style = "region", answer # None, question.query # None,
                     question.new.scope = "regional"
              PROVE  VerdictIsSound
  BY DEF VerdictIsSound
<1> DEFINE rules == ToSet(question.new.rules)
<1>1. answer.new = RegionDecision("regional", rules, question.query)
  BY Asked DEF Answer, VerdictsOn
<1>2. IsCoverage(question.new) /\ question.query \in Region BY Asked DEF IsQuestion
<1>3. \A rule \in rules : rule.region \in Region \cup {None} BY <1>2 DEF IsCoverage
<1> HIDE DEF rules
<1>4. LET reached == Districts(question.query) \cap Covered(rules)
      IN CASE answer.new = "match" -> reached # {} /\ ~Excludes(rules, question.query)
           [] answer.new = "mismatch" ->
                Excludes(rules, question.query)
                  \/ (reached = {} /\ ~LeavesDoubt(rules, question.query))
           [] OTHER -> ~Excludes(rules, question.query) /\ reached = {}
  BY <1>1, <1>2, <1>3, VerdictOnDistricts
<1>. QED BY <1>4 DEF VerdictIsSound, rules

(* match_region_rules (policy_search.py): in any finite tree of regions, a *)
(* region is refused only when it is excluded or none of its districts is  *)
(* covered and no rule is in doubt, and accepted only when one is covered; *)
(* columns and rules of different commits never make a verdict that        *)
(* neither commit deserves, other than doubt.                              *)
THEOREM RegionVerdictsAreSound == JudgeSpec => []RegionVerdictIsSound
<1>1. JudgeInv => RegionVerdictIsSound BY ReadsAreHonest, VerdictsAreSound DEF RegionVerdictIsSound
<1>. QED BY <1>1, JudgeInvAlways, PTL

-----------------------------------------------------------------------------
(* A profile, in three ways *)

(* A search for the conditions of a profile, in either way, asks for one   *)
(* category, and for the region by the name given or by the one it means.  *)
LEMMA SearchOfProfile ==
  ASSUME NEW form, NEW words, NEW q, IsProfile(q.profile), q.profile # SaysNothing,
         NEW condition, NEW category \in CategoriesOf(q.profile), NEW word,
         Interpret(form, words) =
           [region |-> condition, age |-> q.profile.age, status |-> q.profile.status,
            category |-> category, keyword |-> word, terms |-> {}],
         condition # None <=> q.profile.region # None,
         condition # None => (condition.explicit => condition.resolution = "resolved")
  PROVE  IsFoundAs(form, words, q) <=>
           /\ word = None \/ word \in q.policy.words
           /\ q.policy.quality \in {"valid", "partial"}
           /\ q.profile.status = None => q.policy.status # "closed"
           /\ q.profile.status # None => StatusDecision(q.profile.status, q.policy) # "mismatch"
           /\ q.profile.age # None => AgeDecision(q.profile.age, q.policy) # "mismatch"
           /\ category # None => CategoryDecision({category}, q.policy) # "mismatch"
           /\ q.profile.region # None =>
                RegionDecision(q.policy.scope, q.rules, Decided(condition.value)) # "mismatch"
<1> DEFINE c == Interpret(form, words)
<1>1. /\ c.region = condition /\ c.age = q.profile.age /\ c.status = q.profile.status
      /\ c.category = category /\ c.keyword = word /\ c.terms = {}
  OBVIOUS
<1>2. \/ q.profile.region # None \/ q.profile.age # None \/ q.profile.status # None
      \/ category # None
  BY DEF IsProfile, SaysNothing, CategoriesOf
<1>3. c["region"] = c.region /\ c["age"] = c.age /\ c["status"] = c.status
      /\ c["category"] = c.category
  OBVIOUS
<1> HIDE DEF c
<1>4. IsAnswered(c) BY <1>1, <1>2, <1>3 DEF IsAnswered
<1>5. SpeaksOf(c, q.policy) <=> word = None \/ word \in q.policy.words
  <2>1. CASE word = None BY <1>1, <2>1 DEF SpeaksOf
  <2>2. CASE word # None
    <3>1. {word} \ {None} = {word} BY <2>2
    <3>2. (({} \cup {word}) \ GenericWord) \cup {word} = {word} OBVIOUS
    <3>. QED BY <1>1, <2>2, <3>1, <3>2 DEF SpeaksOf
  <2>. QED BY <2>1, <2>2
<1>6. "mismatch" \notin Verdicts(c, q.policy, q.rules) <=>
           /\ q.profile.status # None => StatusDecision(q.profile.status, q.policy) # "mismatch"
           /\ q.profile.age # None => AgeDecision(q.profile.age, q.policy) # "mismatch"
           /\ category # None => CategoryDecision({category}, q.policy) # "mismatch"
           /\ q.profile.region # None =>
                RegionDecision(q.policy.scope, q.rules, Decided(condition.value)) # "mismatch"
  BY <1>1 DEF Verdicts
<1>7. IsFoundAs(form, words, q) <=> IsFound(c, q.policy, q.rules, TRUE)
  BY <1>4 DEF IsFoundAs, c
<1>. QED BY <1>1, <1>5, <1>6, <1>7 DEF IsFound

(* The three ways to judge one policy for one profile.                     *)
LEMMA SearchesAgree ==
  ASSUME NEW q, IsQuestion("profile", q), q.profile # SaysNothing,
         q.profile.region # None => Len(Meant(q.profile.region)) = 1
  PROVE  /\ IsRecommended(q.profile, q.policy, q.rules, TRUE) <=>
              IsFoundByForm(q) /\ (q.profile.status # None => q.policy.status # None)
         /\ /\ q.profile.region # None =>
                   ByAlias(q.profile.region) \in {None, ByParser(q.profile.region)}
            /\ IsFoundInWords(q)
            => IsFoundByForm(q)
         /\ /\ q.profile.region # None =>
                   ByParser(q.profile.region) \in {None, ByAlias(q.profile.region)}
            /\ NamesCategories(q) /\ IsFoundByForm(q)
            => IsFoundInWords(q)
<1> DEFINE p == q.profile
           Rest == /\ q.policy.quality \in {"valid", "partial"}
                   /\ p.status = None => q.policy.status # "closed"
                   /\ p.status # None => StatusDecision(p.status, q.policy) # "mismatch"
                   /\ p.age # None => AgeDecision(p.age, q.policy) # "mismatch"
           InCategory == \E category \in CategoriesOf(p) :
                            category # None => CategoryDecision({category}, q.policy) # "mismatch"
           InRegion(name) == RegionDecision(q.policy.scope, q.rules, Decided(name)) # "mismatch"
<1>1. /\ IsProfile(p)
      /\ p.region # None =>
           None \notin {RegionCondition(p.region, None), RegionCondition(None, p.region)}
  BY DEF IsQuestion
<1>2. RegionCondition(None, None) = None BY DEF RegionCondition
<1>3. ASSUME p.region # None
      PROVE  /\ Meant(p.region) # <<>> /\ RegionResolution(p.region) = "resolved"
             /\ RegionCondition(p.region, None) =
                  [value |-> p.region, resolution |-> "resolved", explicit |-> TRUE]
             /\ RegionCondition(None, p.region) =
                  [value |-> Meant(p.region)[1], resolution |-> "resolved", explicit |-> FALSE]
  <2>1. Meant(p.region) # <<>> BY <1>3
  <2>2. RegionResolution(p.region) = "resolved" BY <1>3, <2>1 DEF RegionResolution
  <2>. QED BY <1>3, <2>1, <2>2 DEF RegionCondition
<1>4. ASSUME NEW category \in CategoriesOf(p)
      PROVE  /\ Interpret(Searched(NoForm, p, category), NoWords) =
                  [region |-> RegionCondition(p.region, None), age |-> p.age, status |-> p.status,
                   category |-> category, keyword |-> None, terms |-> {}]
             /\ \A word : Interpret(NoForm, InWords(p, category, word)) =
                  [region |-> RegionCondition(None, p.region), age |-> p.age, status |-> p.status,
                   category |-> category, keyword |-> word, terms |-> {}]
  BY DEF Interpret, Searched, InWords, NoForm, NoWords, Chosen, Keyword
<1>5. ASSUME NEW category \in CategoriesOf(p)
      PROVE  IsFoundAs(Searched(NoForm, p, category), NoWords, q) <=>
               /\ Rest
               /\ category # None => CategoryDecision({category}, q.policy) # "mismatch"
               /\ p.region # None => InRegion(p.region)
  <2> DEFINE condition == RegionCondition(p.region, None)
  <2>1. condition # None <=> p.region # None BY <1>1, <1>2
  <2>2. condition # None => condition.value = p.region /\ condition.resolution = "resolved"
    BY <1>3, <2>1
  <2> HIDE DEF condition, InRegion, Rest
  <2>3. Interpret(Searched(NoForm, p, category), NoWords) =
          [region |-> condition, age |-> p.age, status |-> p.status,
           category |-> category, keyword |-> None, terms |-> {}]
    BY <1>4 DEF condition
  <2>. QED BY <1>1, <2>1, <2>2, <2>3, SearchOfProfile DEF InRegion, Rest
<1>6. ASSUME NEW category \in CategoriesOf(p), NEW word
      PROVE  IsFoundAs(NoForm, InWords(p, category, word), q) <=>
               /\ word = None \/ word \in q.policy.words
               /\ Rest
               /\ category # None => CategoryDecision({category}, q.policy) # "mismatch"
               /\ p.region # None => InRegion(Meant(p.region)[1])
  <2> DEFINE condition == RegionCondition(None, p.region)
  <2>1. condition # None <=> p.region # None BY <1>1, <1>2
  <2>2. condition # None => condition.value = Meant(p.region)[1] /\ condition.resolution = "resolved"
    BY <1>3, <2>1
  <2> HIDE DEF condition, InRegion, Rest
  <2>3. Interpret(NoForm, InWords(p, category, word)) =
          [region |-> condition, age |-> p.age, status |-> p.status,
           category |-> category, keyword |-> word, terms |-> {}]
    BY <1>4 DEF condition
  <2>. QED BY <1>1, <2>1, <2>2, <2>3, SearchOfProfile DEF InRegion, Rest
<1>7. IsFoundByForm(q) <=> Rest /\ InCategory /\ (p.region # None => InRegion(p.region))
  BY <1>5 DEF IsFoundByForm
<1>8. IsFoundInWords(q) =>
        Rest /\ InCategory /\ (p.region # None => InRegion(Meant(p.region)[1]))
  BY <1>6 DEF IsFoundInWords
<1>9. ASSUME NEW name, Decided(name) = None PROVE InRegion(name)
  BY <1>9 DEF RegionDecision
<1>10. InCategory <=> (p.categories # {} => CategoryDecision(p.categories, q.policy) # "mismatch")
  <2>1. CASE p.categories = {} BY <2>1 DEF CategoriesOf
  <2>2. CASE p.categories # {}
    <3>1. CategoriesOf(p) = p.categories /\ None \notin p.categories
      BY <1>1, <2>2 DEF CategoriesOf, IsProfile
    <3>2. \A category \in p.categories :
            CategoryDecision({category}, q.policy) # "mismatch" <=>
              category \in q.policy.categories \/ q.policy.categories = {}
      BY DEF CategoryDecision
    <3>3. CategoryDecision(p.categories, q.policy) # "mismatch" <=>
            p.categories \cap q.policy.categories # {} \/ q.policy.categories = {}
      BY DEF CategoryDecision
    <3>. QED BY <2>2, <3>1, <3>2, <3>3
  <2>. QED BY <2>1, <2>2
<1>11. IsRecommended(p, q.policy, q.rules, TRUE) <=>
         /\ Rest /\ InCategory /\ (p.region # None => InRegion(p.region))
         /\ p.status # None => q.policy.status # None
  <2>1. p.status # None =>
          (StatusDecision(p.status, q.policy) = "match" <=>
             /\ StatusDecision(p.status, q.policy) # "mismatch" /\ q.policy.status # None)
    BY DEF StatusDecision
  <2> HIDE DEF InCategory
  <2>. QED BY <1>10, <2>1 DEF IsRecommended
<1> HIDE DEF Rest, InCategory, InRegion, p
<1>12. ASSUME p.region # None => ByAlias(p.region) \in {None, ByParser(p.region)},
              IsFoundInWords(q)
       PROVE  IsFoundByForm(q)
  <2>1. CASE p.region = None BY <1>7, <1>8, <1>12, <2>1
  <2>2. CASE p.region # None /\ Decided(p.region) = None BY <1>7, <1>8, <1>9, <1>12, <2>2
  <2>3. CASE p.region # None /\ Decided(p.region) = Decided(Meant(p.region)[1])
    BY <1>7, <1>8, <1>12, <2>3 DEF InRegion
  <2>. QED BY <1>12, <2>1, <2>2, <2>3 DEF ByAlias, ByParser
<1>13. ASSUME p.region # None => ByParser(p.region) \in {None, ByAlias(p.region)},
              NamesCategories(q), IsFoundByForm(q)
       PROVE  IsFoundInWords(q)
  <2>1. p.region # None => InRegion(Meant(p.region)[1])
    <3>1. CASE p.region # None /\ Decided(Meant(p.region)[1]) = None BY <1>9, <3>1
    <3>2. CASE p.region # None /\ Decided(p.region) = Decided(Meant(p.region)[1])
      BY <1>7, <1>13, <3>2 DEF InRegion
    <3>. QED BY <1>13, <3>1, <3>2 DEF ByAlias, ByParser
  <2>2. PICK category \in CategoriesOf(p) :
           /\ Rest
           /\ category # None => CategoryDecision({category}, q.policy) # "mismatch"
    BY <1>5, <1>13 DEF IsFoundByForm, p
  <2>3. PICK word \in WordsOf(category) : word = None \/ word \in q.policy.words
    <3>1. CASE category = None BY <3>1 DEF WordsOf
    <3>2. CASE category # None
      <4>1. category \in q.profile.categories BY <3>2 DEF CategoriesOf, p
      <4>. QED BY <1>13, <3>2, <4>1 DEF NamesCategories, WordsOf
    <3>. QED BY <3>1, <3>2
  <2>4. IsFoundAs(NoForm, InWords(p, category, word), q) BY <1>6, <2>1, <2>2, <2>3
  <2>. QED BY <2>4 DEF IsFoundInWords, p
<1>. QED BY <1>7, <1>11, <1>12, <1>13 DEF p

(* What is answered of a profile is what the three ways say.               *)
LEMMA SearchAgrees ==
  ASSUME JudgeInv PROVE SearchAndRecommendationAgree
<1>. SUFFICES ASSUME style = "profile", answer # None, question.profile # SaysNothing,
                     question.profile.region # None => Len(Meant(question.profile.region)) = 1
              PROVE  SearchAndRecommendationAgree
  BY DEF SearchAndRecommendationAgree
<1>1. answer = [recommended |-> IsRecommended(question.profile, question.policy, question.rules, TRUE),
                found |-> IsFoundByForm(question), said |-> IsFoundInWords(question)]
  BY Asked DEF Answer
<1>2. IsQuestion("profile", question) BY Asked
<1>3. /\ IsFoundInWords(question) \in BOOLEAN /\ IsFoundByForm(question) \in BOOLEAN
  BY DEF IsFoundInWords, IsFoundByForm
<1>. QED BY <1>1, <1>2, <1>3, SearchesAgree DEF SearchAndRecommendationAgree

(* recommend_policies (recommendation.py) and the search by form or in     *)
(* words (policy_search_parser.py): what a recommendation says is what a   *)
(* form finds, up to an unknown status; words find nothing else, and miss  *)
(* only policies whose texts do not hold the word for the category, as     *)
(* long as a name of a region is decided alike by its alias and by the     *)
(* parser.                                                                 *)
THEOREM SearchesAndRecommendationsAgree == JudgeSpec => []SearchAndRecommendationAgree
<1>1. JudgeInv => SearchAndRecommendationAgree BY SearchAgrees
<1>. QED BY <1>1, JudgeInvAlways, PTL

-----------------------------------------------------------------------------
(* The rules of evidence *)

(* What is taken of a piece of evidence after others.                      *)
Taken(rules, e) == IF Repeats(rules, RuleOf(e)) THEN rules ELSE Append(rules, RuleOf(e))

(* The rules of a sequence of evidence, taken one after another.           *)
LEMMA RulesStepByStep ==
  ASSUME NEW S, NEW s \in Seq(S)
  PROVE  \E g : /\ g[0] = <<>> /\ g[Len(s)] = Rules(s)
                /\ \A m \in 1 .. Len(s) : g[m] = Taken(g[m - 1], s[m])
<1> DEFINE n == Len(s)
           X == Seq({RuleOf(e) : e \in S})
           F == [x \in (1 .. n) \X X |-> Taken(x[2], s[x[1]])]
           IsIt(it) == it = [t \in SUBSET DOMAIN s |->
                               IF t = {} THEN <<>> ELSE Taken(it[t \ {Max(t)}], s[Max(t)])]
<1>1. n \in Nat /\ DOMAIN s = 1 .. n OBVIOUS
<1>2. Rules(s) = (CHOOSE it : IsIt(it))[DOMAIN s]
  BY SMTT(10) DEF Rules, FoldLeft, MapThenFoldSet, Taken
<1>3. \E it : IsIt(it)
  <2>1. ASSUME NEW k \in 1 .. n, NEW rules \in X PROVE Taken(rules, s[k]) \in X
    <3>1. RuleOf(s[k]) \in {RuleOf(e) : e \in S} BY <1>1
    <3>. QED BY <3>1 DEF Taken
  <2>2. F \in StepsOf(n, X) BY <2>1 DEF StepsOf
  <2>3. <<>> \in X OBVIOUS
  <2>4. PICK it : IsFold(it, n, X, <<>>, F)
    <3> HIDE DEF F, X, n
    <3>. QED BY <1>1, <2>2, <2>3, FoldExists
  <2>5. ASSUME NEW t \in SUBSET (1 .. n), t # {}
        PROVE  F[<<Max(t), it[t \ {Max(t)}]>>] = Taken(it[t \ {Max(t)}], s[Max(t)])
    <3>1. Max(t) \in 1 .. n BY <1>1, <2>5, MaxOf
    <3>2. it[t \ {Max(t)}] \in X BY <2>4 DEF IsFold
    <3>. QED BY <3>1, <3>2
  <2> HIDE DEF F
  <2>6. \A t \in SUBSET (1 .. n) :
          it[t] = IF t = {} THEN <<>> ELSE Taken(it[t \ {Max(t)}], s[Max(t)])
    BY <2>4, <2>5 DEF IsFold
  <2>7. IsIt(it) BY <1>1, <2>4, <2>6 DEF IsFold
  <2>. QED BY <2>7
<1>4. PICK it : IsIt(it) /\ it[DOMAIN s] = Rules(s) BY <1>2, <1>3
<1>5. \A t \in SUBSET (1 .. n) :
        it[t] = IF t = {} THEN <<>> ELSE Taken(it[t \ {Max(t)}], s[Max(t)])
  BY <1>1, <1>4
<1> DEFINE g == [m \in 0 .. n |-> it[1 .. m]]
<1>6. g[0] = <<>>
  <2>1. 1 .. 0 = {} /\ 0 \in 0 .. n BY <1>1
  <2>. QED BY <1>5, <2>1
<1>7. g[n] = Rules(s)
  <2>1. n \in 0 .. n BY <1>1
  <2>. QED BY <1>1, <1>4, <2>1
<1>8. ASSUME NEW m \in 1 .. n PROVE g[m] = Taken(g[m - 1], s[m])
  <2>1. m \in Nat \ {0} /\ m \in 0 .. n /\ m - 1 \in 0 .. n /\ 1 .. m \in SUBSET (1 .. n) BY <1>1
  <2>2. it[1 .. m] = Taken(it[1 .. m - 1], s[m]) BY <1>5, <2>1, FirstNumbers
  <2>3. g[m] = it[1 .. m] /\ g[m - 1] = it[1 .. m - 1] BY <2>1
  <2>. QED BY <2>2, <2>3
<1> HIDE DEF g
<1>. QED BY <1>6, <1>7, <1>8

(* One rule stands for another; none does.                                 *)
Alike(a, b) == a.relation = b.relation
               /\ IF b.resolution = "matched" THEN a.region = b.region ELSE a = b
NoneAlike(rules) == \A j, k \in DOMAIN rules : Alike(rules[j], rules[k]) => j = k

(* The rule that evidence makes, by how many regions it names.             *)
LEMMA RuleOfEvidence ==
  ASSUME NEW e, IsEvidence(e), NEW rule, rule = RuleOf(e)
  PROVE  /\ rule.relation = e.relation /\ rule.source = e.key /\ rule.source # None
         /\ rule.resolution = "matched" <=> Cardinality(Candidates(e.key)) = 1
         /\ rule.resolution = "matched" => Candidates(e.key) = {rule.region} /\ rule.region # None
         /\ rule.resolution # "matched" => rule.region = None
<1>1. /\ rule.relation = e.relation /\ rule.source = e.key
      /\ rule.resolution = Resolution(e.key)
      /\ rule.region = IF Resolution(e.key) = "matched" THEN CHOOSE r \in Candidates(e.key) : TRUE ELSE None
  BY DEF RuleOf, RegionRule
<1>2. Resolution(e.key) = "matched" <=> Cardinality(Candidates(e.key)) = 1
  <2>1. CASE Candidates(e.key) = {}
    <3>1. Cardinality(Candidates(e.key)) = 0 BY <2>1, FS_EmptySet
    <3>. QED BY <2>1, <3>1 DEF Resolution
  <2>2. CASE Candidates(e.key) # {} BY <2>2 DEF Resolution
  <2>. QED BY <2>1, <2>2
<1>3. ASSUME Cardinality(Candidates(e.key)) = 1
      PROVE  \E r : Candidates(e.key) = {r}
  BY <1>3, FS_Singleton DEF IsEvidence
<1>. QED BY <1>1, <1>2, <1>3 DEF IsEvidence

(* A rule of evidence that stands for another is stood for by it.          *)
LEMMA AlikeIsMutual ==
  ASSUME NEW a, NEW b, IsEvidence(a), IsEvidence(b)
  PROVE  Alike(RuleOf(a), RuleOf(b)) => Alike(RuleOf(b), RuleOf(a))
BY RuleOfEvidence DEF Alike

(* A rule is repeated when one taken before stands for it.                 *)
LEMMA RepeatsIs ==
  ASSUME NEW rules, NEW rule
  PROVE  Repeats(rules, rule) <=> \E k \in DOMAIN rules : Alike(rules[k], rule)
BY DEF Repeats, Alike

(* Every rule is of some evidence, evidence without a rule of its own is   *)
(* spoken for by another, and no two rules say the same.                   *)
LEMMA RulesAreOfEvidence ==
  ASSUME NEW S, NEW s \in Seq(S), \A e \in S : IsEvidence(e),
         NEW rules, rules = Rules(s)
  PROVE  /\ rules \in Seq({RuleOf(e) : e \in S})
         /\ \A k \in DOMAIN s : \E j \in DOMAIN rules : Alike(rules[j], RuleOf(s[k]))
         /\ NoneAlike(rules)
<1> DEFINE R == {RuleOf(e) : e \in S}
           n == Len(s)
<1>1. n \in Nat /\ DOMAIN s = 1 .. n /\ \A k \in 1 .. n : s[k] \in S OBVIOUS
<1>2. PICK g : /\ g[0] = <<>> /\ g[n] = rules
               /\ \A m \in 1 .. n : g[m] = Taken(g[m - 1], s[m])
  BY RulesStepByStep
<1> DEFINE SpokenFor(m) == \A k \in 1 .. m : \E j \in DOMAIN g[m] : Alike(g[m][j], RuleOf(s[k]))
           Faithful(m) == g[m] \in Seq(R) /\ SpokenFor(m) /\ NoneAlike(g[m])
           Steps == {m \in 0 .. n : Faithful(m)}
<1>3. Faithful(0) BY <1>2 DEF NoneAlike
<1>4. ASSUME NEW m \in 1 .. n, Faithful(m - 1) PROVE Faithful(m)
  <2> DEFINE before == g[m - 1]
             rule == RuleOf(s[m])
  <2>1. IsEvidence(s[m]) /\ rule \in R BY <1>1
  <2>2. before \in Seq(R) /\ NoneAlike(before) BY <1>4
  <2>3. \A k \in 1 .. m - 1 : \E j \in DOMAIN before : Alike(before[j], RuleOf(s[k]))
    BY <1>4
  <2>4. g[m] = IF Repeats(before, rule) THEN before ELSE Append(before, rule)
    BY <1>2 DEF Taken
  <2>5. Len(before) \in Nat /\ DOMAIN before = 1 .. Len(before) BY <2>2
  <2>6. \A k \in 1 .. m : k \in 1 .. m - 1 \/ k = m OBVIOUS
  <2> HIDE DEF before
  <2>7. CASE Repeats(before, rule)
    <3>1. g[m] = before BY <2>4, <2>7
    <3>2. \E j \in DOMAIN before : Alike(before[j], rule) BY <2>7, RepeatsIs
    <3>3. SpokenFor(m) BY <2>3, <2>6, <3>1, <3>2
    <3>. QED BY <2>2, <3>1, <3>3
  <2>8. CASE ~Repeats(before, rule)
    <3>1. g[m] = Append(before, rule) BY <2>4, <2>8
    <3> HIDE DEF rule
    <3>2. /\ g[m] \in Seq(R) /\ DOMAIN g[m] = 1 .. Len(before) + 1
          /\ g[m][Len(before) + 1] = rule
          /\ \A j \in 1 .. Len(before) : g[m][j] = before[j]
      BY <2>1, <2>2, <2>5, <3>1
    <3>3. \A j \in 1 .. Len(before) : ~Alike(before[j], rule)
      BY <2>5, <2>8, RepeatsIs
    <3>4. \A j \in 1 .. Len(before) : ~Alike(rule, before[j])
      <4>1. SUFFICES ASSUME NEW j \in 1 .. Len(before) PROVE ~Alike(rule, before[j])
        OBVIOUS
      <4>2. before[j] \in R BY <2>2, <2>5
      <4>3. PICK e \in S : before[j] = RuleOf(e) BY <4>2
      <4>. QED BY <1>1, <2>1, <3>3, <4>3, AlikeIsMutual DEF rule
    <3>5. NoneAlike(g[m])
      <4>1. SUFFICES ASSUME NEW j \in DOMAIN g[m], NEW k \in DOMAIN g[m], Alike(g[m][j], g[m][k])
                     PROVE  j = k
        BY DEF NoneAlike
      <4>2. (j \in 1 .. Len(before) \/ j = Len(before) + 1)
            /\ (k \in 1 .. Len(before) \/ k = Len(before) + 1)
        BY <2>5, <3>2
      <4>3. CASE j \in 1 .. Len(before) /\ k \in 1 .. Len(before)
        <5>1. Alike(before[j], before[k]) BY <3>2, <4>1, <4>3
        <5>. QED BY <2>2, <2>5, <4>3, <5>1 DEF NoneAlike
      <4>4. CASE j \in 1 .. Len(before) /\ k = Len(before) + 1 BY <3>2, <3>3, <4>1, <4>4
      <4>5. CASE j = Len(before) + 1 /\ k \in 1 .. Len(before) BY <3>2, <3>4, <4>1, <4>5
      <4>. QED BY <4>2, <4>3, <4>4, <4>5
    <3>6. Alike(rule, rule) BY DEF Alike
    <3>7. SpokenFor(m)
      <4>1. SUFFICES ASSUME NEW k \in 1 .. m
                     PROVE  \E j \in DOMAIN g[m] : Alike(g[m][j], RuleOf(s[k]))
        OBVIOUS
      <4>2. CASE k = m
        <5>1. Len(before) + 1 \in DOMAIN g[m] BY <2>5, <3>2
        <5>. QED BY <3>2, <3>6, <4>2, <5>1 DEF rule
      <4>3. CASE k \in 1 .. m - 1
        <5>1. PICK j \in 1 .. Len(before) : Alike(before[j], RuleOf(s[k])) BY <2>3, <2>5, <4>3
        <5>2. j \in DOMAIN g[m] /\ g[m][j] = before[j] BY <2>5, <3>2
        <5>. QED BY <5>1, <5>2
      <4>. QED BY <2>6, <4>2, <4>3
    <3>. QED BY <3>2, <3>5, <3>7
  <2>. QED BY <2>7, <2>8
<1> HIDE DEF Faithful
<1>5. 0 \in Steps /\ \A m \in 1 .. n : m - 1 \in Steps => m \in Steps BY <1>1, <1>3, <1>4
<1>6. Faithful(n)
  <2> HIDE DEF Steps
  <2>1. n \in Steps BY <1>1, <1>5, StepByStep
  <2>. QED BY <2>1 DEF Steps
<1>. QED BY <1>1, <1>2, <1>6 DEF Faithful

-----------------------------------------------------------------------------
(* The normalizer and its contract *)

(* The program made of what a source says, before it is classified.        *)
Normalized(e) ==
  ProgramOf(e, NormalizePeriod(e.period, e.collected), NormalizeAge(e.age, e.placeholder),
            NormalizeCategories(e.categories), NormalizeRegionContract(e))

(* The normalizer rejects what breaks the contract, and nothing else.      *)
LEMMA InvalidBreaksContract ==
  ASSUME NEW e
  PROVE  Normalize(e).status = "invalid" <=> ~IsProgram(Normalized(e))
<1> DEFINE program == Normalized(e)
           w == UNION {NormalizePeriod(e.period, e.collected).warnings,
                       NormalizeAge(e.age, e.placeholder).warnings,
                       NormalizeCategories(e.categories).warnings,
                       NormalizeRegionContract(e).warnings}
           q == Classify(program, w)
           made == [program EXCEPT !.quality = q]
<1>1. Normalize(e) = Result(made, w)
  BY DEF Normalize, NormalizeWith, NormalizeParts, Classified, Normalized
<1>2. /\ made.start = program.start /\ made.end = program.end
      /\ made.schedule = program.schedule /\ made.status = program.status
      /\ made.period = program.period /\ made.age_min = program.age_min
      /\ made.age_max = program.age_max /\ made.age = program.age
      /\ made.categories = program.categories /\ made.regions = program.regions
      /\ made.scope = program.scope /\ made.rules = program.rules /\ made.quality = q
  BY DEF Normalized, ProgramOf
<1> HIDE DEF program, w, q, made
<1>3. /\ SchemaIssues(made) = SchemaIssues(program)
      /\ QualityGapIssues(made) = QualityGapIssues(program)
      /\ SemanticIssues(made) = SemanticIssues(program)
      /\ IsProgram(made) <=> IsProgram(program)
  BY <1>2 DEF SchemaIssues, QualityGapIssues, SemanticIssues, RegionContractIssues, Matched,
              Included, SameRegion, SameRelation, IsProgram
<1>4. Classify(made, w) = q BY <1>3 DEF Classify, q
<1>5. q = "invalid" <=> ~IsProgram(program) BY ContractIsOne DEF Classify, q
<1>6. Normalize(e).status = Validate(made, w) BY <1>1 DEF Result
<1>. QED BY <1>2, <1>3, <1>4, <1>5, <1>6 DEF Validate, program

(* Dates and ages come out in order, whatever a text says.                 *)
LEMMA PeriodsAreOrdered ==
  ASSUME NEW v, NEW today
  PROVE  ~Reversed(NormalizePeriod(v, today).start, NormalizePeriod(v, today).end)
<1>1. ASSUME NEW start, NEW end, NEW warnings
      PROVE  ~Reversed(InOrder(start, end, today, warnings).start,
                       InOrder(start, end, today, warnings).end)
  BY DEF InOrder, Unusable, Undated, Dated, Reversed
<1>2. ASSUME NEW schedule, NEW status, NEW warnings
      PROVE  ~Reversed(Undated(schedule, status, warnings).start, Undated(schedule, status, warnings).end)
  BY DEF Undated, Reversed
<1>3. ~Reversed(FromDates(v, today).start, FromDates(v, today).end)
  BY <1>1 DEF FromDates, Dated, Reversed
<1>. QED BY <1>1, <1>2, <1>3 DEF NormalizePeriod, Unusable

(* Ages are numbers in order or unknown.                                   *)
LEMMA AgesAreOrdered ==
  ASSUME NEW v, NEW placeholder, NEW age, age = NormalizeAge(v, placeholder)
  PROVE  IsAge(age.min) /\ IsAge(age.max) /\ ~Reversed(age.min, age.max)
<1> DEFINE Sound(a) == IsAge(a.min) /\ IsAge(a.max) /\ ~Reversed(a.min, a.max)
<1>1. ASSUME NEW min, NEW max PROVE Sound(AgeRange(min, max, placeholder))
  BY DEF AgeRange, Ages, IsAge, Reversed
<1>2. \A warnings : Sound(Ages(None, None, warnings)) BY DEF Ages, IsAge, Reversed
<1> HIDE DEF Sound
<1>3. Sound(NormalizeAge(v, placeholder)) BY <1>1, <1>2 DEF NormalizeAge
<1>. QED BY <1>3 DEF Sound

(* Evidence of one region, and what it names.                              *)
Certain(S, relation) == {e \in S : e.relation = relation /\ Cardinality(Candidates(e.key)) = 1}
NamedBy(es) == UNION {Candidates(e.key) : e \in es}
Contradicts(S) ==
  \/ Certain(S, "include") = {} /\ Certain(S, "exclude") # {}
  \/ NamedBy(Certain(S, "include")) \cap NamedBy(Certain(S, "exclude")) # {}

(* The rules of evidence keep the contract of regions but where the        *)
(* evidence contradicts itself.                                            *)
LEMMA RulesKeepContract ==
  ASSUME NEW S, NEW s \in Seq(S), S = ToSet(s), \A e \in S : IsEvidence(e),
         NEW rules, rules = Rules(s), NEW scope, scope = RegionsOf(rules).scope
  PROVE  /\ (\A k \in DOMAIN rules : RuleIsSound(rules[k])) /\ IsInjective(rules)
         /\ RegionContract(scope, rules) <=> ~Contradicts(S)
<1>1. /\ rules \in Seq({RuleOf(e) : e \in S}) /\ NoneAlike(rules)
      /\ \A k \in DOMAIN s : \E j \in DOMAIN rules : Alike(rules[j], RuleOf(s[k]))
  BY RulesAreOfEvidence
<1>2. \A k \in DOMAIN rules : \E e \in S : rules[k] = RuleOf(e) BY <1>1
<1>3. \A e \in S : \E j \in DOMAIN rules : Alike(rules[j], RuleOf(e))
  <2>1. \A e \in S : \E k \in DOMAIN s : e = s[k] BY DEF ToSet
  <2>. QED BY <1>1, <2>1
<1>4. \A k \in DOMAIN rules : RuleIsSound(rules[k]) BY <1>2, RuleOfEvidence DEF RuleIsSound
<1>5. IsInjective(rules) BY <1>1 DEF NoneAlike, Alike, IsInjective
<1> DEFINE of(relation) == Certain(S, relation)
           Is(k, relation, r) == /\ rules[k].relation = relation
                                 /\ rules[k].resolution = "matched" /\ rules[k].region = r
           Ruled(relation, r) == \E k \in DOMAIN rules : Is(k, relation, r)
           Said(relation, r) == \E e \in of(relation) : r \in Candidates(e.key)
<1>6. \A relation, r : Ruled(relation, r) <=> Said(relation, r)
  <2>1. SUFFICES ASSUME NEW relation, NEW r PROVE Ruled(relation, r) <=> Said(relation, r)
    OBVIOUS
  <2>2. ASSUME NEW k \in DOMAIN rules, Is(k, relation, r) PROVE Said(relation, r)
    <3>1. PICK e \in S : rules[k] = RuleOf(e) BY <1>2
    <3>. QED BY <2>2, <3>1, RuleOfEvidence DEF Certain
  <2>3. ASSUME NEW e \in of(relation), r \in Candidates(e.key) PROVE Ruled(relation, r)
    <3>1. e \in S /\ e.relation = relation /\ Cardinality(Candidates(e.key)) = 1
      BY <2>3 DEF Certain
    <3>2. PICK j \in DOMAIN rules : Alike(rules[j], RuleOf(e)) BY <1>3, <3>1
    <3>3. /\ RuleOf(e).resolution = "matched" /\ RuleOf(e).region = r /\ r # None
          /\ RuleOf(e).relation = relation
      BY <2>3, <3>1, RuleOfEvidence
    <3>4. rules[j].relation = relation /\ rules[j].region = r BY <3>2, <3>3 DEF Alike
    <3>5. PICK other \in S : rules[j] = RuleOf(other) BY <1>2
    <3>6. rules[j].resolution = "matched" BY <3>3, <3>4, <3>5, RuleOfEvidence
    <3>. QED BY <3>4, <3>6
  <2>. QED BY <2>2, <2>3
<1>7. \A relation : of(relation) = {} <=> \A r : ~Said(relation, r)
  <2>1. SUFFICES ASSUME NEW relation PROVE of(relation) = {} <=> \A r : ~Said(relation, r)
    OBVIOUS
  <2>2. ASSUME NEW e \in of(relation) PROVE \E r : r \in Candidates(e.key)
    <3>1. IsFiniteSet(Candidates(e.key)) /\ Cardinality(Candidates(e.key)) = 1 BY DEF IsEvidence, Certain
    <3>. QED BY <3>1, FS_Singleton
  <2>. QED BY <2>2
<1>9. NamedBy(of("include")) \cap NamedBy(of("exclude")) # {}
        <=> \E r : Said("include", r) /\ Said("exclude", r)
  <2>1. \A relation, r : r \in NamedBy(of(relation)) <=> Said(relation, r) BY DEF NamedBy
  <2> HIDE DEF Said, of
  <2>. QED BY <2>1
<1>10. \A k \in DOMAIN rules : rules[k].relation \in {"include", "exclude"}
  <2>1. SUFFICES ASSUME NEW k \in DOMAIN rules PROVE rules[k].relation \in {"include", "exclude"}
    OBVIOUS
  <2>2. PICK e \in S : rules[k] = RuleOf(e) BY <1>2
  <2>. QED BY <2>2, RuleOfEvidence DEF IsEvidence, RegionRelation
<1>11. \A k \in DOMAIN rules : rules[k].resolution = "matched" => IsMatched(rules[k])
  BY <1>4 DEF RuleIsSound, IsMatched
<1> DEFINE matched == {k \in DOMAIN rules : rules[k].resolution = "matched"}
<1>12. scope = (IF \E r : Ruled("include", r) THEN "regional" ELSE "unknown")
  BY <1>11 DEF RegionsOf, IncludedOf, IsMatched
<1>13. (scope = "unknown" => matched = {}) <=>
         ~(~(\E r : Ruled("include", r)) /\ \E r : Ruled("exclude", r))
  BY <1>10, <1>12
<1>14. (\A j, k \in matched : rules[j].region = rules[k].region => j = k) <=>
         ~\E r : Ruled("include", r) /\ Ruled("exclude", r)
  <2>1. ASSUME NEW r, Ruled("include", r), Ruled("exclude", r)
        PROVE  \E j, k \in matched : rules[j].region = rules[k].region /\ j # k
    BY <2>1
  <2>2. ASSUME NEW j \in matched, NEW k \in matched, rules[j].region = rules[k].region, j # k
        PROVE  \E r : Ruled("include", r) /\ Ruled("exclude", r)
    <3>1. rules[j].relation # rules[k].relation BY <1>1, <2>2 DEF NoneAlike, Alike
    <3>. QED BY <1>10, <2>2, <3>1
  <2>. QED BY <2>1, <2>2
<1>15. scope = "regional" => \E k \in matched : rules[k].relation = "include" BY <1>12
<1>16. scope # "nationwide" BY <1>12
<1>17. RegionContract(scope, rules) <=>
         /\ scope = "unknown" => matched = {}
         /\ \A j, k \in matched : rules[j].region = rules[k].region => j = k
  BY <1>15, <1>16 DEF RegionContract
<1> HIDE DEF matched, Ruled, Said
<1>18. RegionContract(scope, rules) <=>
         /\ ~(~(\E r : Said("include", r)) /\ \E r : Said("exclude", r))
         /\ ~\E r : Said("include", r) /\ Said("exclude", r)
  BY <1>6, <1>13, <1>14, <1>17
<1>. QED BY <1>4, <1>5, <1>7, <1>9, <1>18 DEF Contradicts

(* What the normalizer rejects is evidence that contradicts itself.        *)
LEMMA InvalidContradicts ==
  ASSUME NEW e, NEW S, S = ToSet(e.evidence), e.evidence \in Seq(S), \A x \in S : IsEvidence(x)
  PROVE  Normalize(e).status = "invalid" <=> Contradicts(S)
<1> DEFINE program == Normalized(e)
           region == NormalizeRegionContract(e)
<1>1. /\ program.rules = region.rules /\ program.scope = region.scope
      /\ program.start = NormalizePeriod(e.period, e.collected).start
      /\ program.end = NormalizePeriod(e.period, e.collected).end
      /\ program.age_min = NormalizeAge(e.age, e.placeholder).min
      /\ program.age_max = NormalizeAge(e.age, e.placeholder).max
  BY DEF Normalized, ProgramOf
<1> HIDE DEF program, region
<1>2. IsProgram(program) <=>
        /\ \A k \in DOMAIN region.rules : RuleIsSound(region.rules[k])
        /\ IsInjective(region.rules) /\ RegionContract(region.scope, region.rules)
  BY <1>1, PeriodsAreOrdered, AgesAreOrdered DEF IsProgram
<1>3. CASE e.evidence = <<>>
  <2>1. region.rules = <<>> /\ region.scope \in {"nationwide", "unknown"}
    BY <1>3 DEF region, NormalizeRegionContract
  <2>2. IsProgram(program) BY <1>2, <2>1 DEF IsInjective, RegionContract
  <2>3. S = {} BY <1>3 DEF ToSet
  <2>4. ~Contradicts(S) BY <2>3 DEF Contradicts, Certain, NamedBy
  <2>. QED BY <2>2, <2>4, InvalidBreaksContract DEF program
<1>4. CASE e.evidence # <<>>
  <2>1. region.rules = Rules(e.evidence) /\ region.scope = RegionsOf(Rules(e.evidence)).scope
    BY <1>4 DEF region, NormalizeRegionContract, RegionsOf
  <2>2. IsProgram(program) <=> ~Contradicts(S) BY <1>2, <2>1, RulesKeepContract
  <2>. QED BY <2>2, InvalidBreaksContract DEF program
<1>. QED BY <1>3, <1>4

(* The second half of ContractIsKept: only contradictions are rejected.    *)
LEMMA NormalizerKeeps ==
  ASSUME JudgeInv PROVE NormalizerKeepsContract
<1> DEFINE S == ToSet(question.evidence)
<1>1. SUFFICES ASSUME style = "normalize", answer # None
               PROVE  Normalize(question).status = "invalid" <=> Contradicts(S)
  BY Asked DEF NormalizerKeepsContract, Answer, Contradicts, Certain, NamedBy
<1>2. question.evidence \in Seq(S) /\ \A x \in S : IsEvidence(x)
  BY <1>1, Asked DEF IsQuestion
<1>. QED BY <1>2, InvalidContradicts

(* Both halves.                                                            *)
LEMMA ContractKept ==
  ASSUME JudgeInv PROVE ContractIsKept
BY AnswersAreOneContract, NormalizerKeeps DEF ContractIsKept

(* Normalizer.normalize, NormalizedProgramValidator and NormalizedProgram: *)
(* whatever evidence a source gives, in whatever order and number, what is *)
(* normalized fulfils the contract unless its region evidence contradicts  *)
(* itself, and the two forms of the contract accept the same programs.     *)
THEOREM ContractsAreKept == JudgeSpec => []ContractIsKept
<1>1. JudgeInv => ContractIsKept BY ContractKept
<1>. QED BY <1>1, JudgeInvAlways, PTL

-----------------------------------------------------------------------------
(* The regional gate *)

(* A confirmed policy is named in a text of its own, by reasons of its own.*)
LEMMA ConfirmedByItem ==
  ASSUME NEW e, NEW enough, NEW regionality, regionality = Regionality(e, enough)
  PROVE  /\ regionality.status = "regional_confirmed" =>
              /\ Mentions(e.region) \/ Mentions(e.target) \/ Mentions(e.organization)
              /\ regionality.reasons \cap RegionBlockers = {}
              /\ Meaning(e.region) \in Territory \cup {None}
              /\ ~SaysNationwide(e.region) /\ ~SaysNationwide(e.target)
         /\ regionality.status = "regional_confirmed" <=> regionality.reasons \cap ItemRegionReasons # {}
         /\ "youth_target_confirmed" \notin regionality.reasons
         /\ regionality.reasons \cap OpenReasons = {}
<1> USE DEF RegionBlockers, ItemRegionReasons, OpenReasons
<1> DEFINE Passes == /\ ~(SaysNationwide(e.region) \/ SaysNationwide(e.target))
                     /\ Meaning(e.region) \in Territory \cup {None}
<1>1. CASE SaysNationwide(e.region) \/ SaysNationwide(e.target)
  <2>1. regionality = [status |-> "non_regional", reasons |-> {"nationwide_republication"}]
    BY <1>1 DEF Regionality
  <2>. QED BY <2>1
<1>2. CASE /\ ~(SaysNationwide(e.region) \/ SaysNationwide(e.target))
           /\ Meaning(e.region) \notin Territory \cup {None}
  <2>1. regionality = [status |-> "non_regional", reasons |-> {"other_region_policy"}]
    BY <1>2 DEF Regionality
  <2>. QED BY <2>1
<1>3. CASE Passes /\ IsConfirmed(e, enough)
  <2>1. regionality.status = "regional_confirmed"
        /\ regionality.reasons = Confirmed(e.region, "source_region_confirmed")
                                   \cup Confirmed(e.target, "target_region_confirmed")
                                   \cup Confirmed(e.organization, "implementing_region_confirmed")
    BY <1>3 DEF Regionality
  <2>2. Mentions(e.organization) BY <1>3 DEF IsConfirmed
  <2>3. "implementing_region_confirmed" \in regionality.reasons BY <2>1, <2>2 DEF Confirmed
  <2>4. regionality.reasons \subseteq ItemRegionReasons BY <2>1 DEF Confirmed
  <2>. QED BY <1>3, <2>1, <2>2, <2>3, <2>4
<1>4. CASE Passes /\ ~IsConfirmed(e, enough) /\ IsConfirmedByScope(e)
  <2>1. regionality.status = "regional_confirmed"
        /\ regionality.reasons = {"source_scope_region_confirmed", "source_scope_operator_confirmed"}
                                   \cup Confirmed(e.target, "target_region_confirmed")
                                   \cup Confirmed(e.organization, "implementing_region_confirmed")
    BY <1>4 DEF Regionality
  <2>2. Mentions(e.target) \/ Mentions(e.organization) BY <1>4 DEF IsConfirmedByScope
  <2>3. regionality.reasons \cap {"target_region_confirmed", "implementing_region_confirmed"} # {}
    BY <2>1, <2>2 DEF Confirmed
  <2>4. regionality.reasons \subseteq
          ItemRegionReasons \cup {"source_scope_region_confirmed", "source_scope_operator_confirmed"}
    BY <2>1 DEF Confirmed
  <2>. QED BY <1>4, <2>1, <2>2, <2>3, <2>4
<1>5. CASE Passes /\ ~IsConfirmed(e, enough) /\ ~IsConfirmedByScope(e)
  <2>1. regionality = [status |-> "regional_review_required",
                       reasons |-> {"insufficient_regional_evidence"}]
    BY <1>5 DEF Regionality
  <2>. QED BY <2>1
<1>. QED BY <1>1, <1>2, <1>3, <1>4, <1>5

(* The reasons of an application are its own.                              *)
LEMMA ApplicationReasons ==
  ASSUME NEW v, NEW today, NEW scope, NEW a, a = Application(v, today, scope)
  PROVE  a.reason \notin RegionBlockers \cup ItemRegionReasons \cup {"youth_target_confirmed"}
<1> DEFINE Own(x) == x.reason \notin RegionBlockers \cup ItemRegionReasons \cup {"youth_target_confirmed"}
<1> USE DEF RegionBlockers, ItemRegionReasons
<1>1. ASSUME NEW start, NEW end PROVE Own(Between(start, end, today))
  BY DEF Between, Availability
<1>2. Own(OfNoDates(v, today, scope))
  BY <1>1 DEF OfNoDates, Availability
<1>. QED BY <1>1, <1>2 DEF Application, Availability

(* What the gate asks first, before it asks for the young.                 *)
RegionalityOf(source, item) == Regionality(Evidence(source, item), Enough(source))
ApplicationOf(source, item, policy, today) ==
  Application(policy.period, today, Evidence(source, item).scope)
Asks(source, item, policy, today) == DecideRegional(source, item, policy, today, FALSE)
Decides(source, item, policy, today) == DecideRegional(source, item, policy, today, TRUE)

(* A decision of the gate, on a policy that stays something when it is     *)
(* accepted.                                                               *)
LEMMA GateDecision ==
  ASSUME NEW source, NEW item, NEW policy, NEW today,
         Accepted(policy, Evidence(source, item)) # None,
         NEW gate, gate = Asks(source, item, policy, today)
  PROVE  /\ gate = [regionality |-> gate.regionality, application |-> gate.application,
                    reasons |-> gate.reasons, accepted |-> gate.accepted]
         /\ gate.accepted # None <=> /\ RegionalityOf(source, item).status = "regional_confirmed"
                                     /\ ApplicationOf(source, item, policy, today).status = "open"
         /\ gate.accepted # None => gate.accepted = Accepted(policy, Evidence(source, item))
         /\ gate.application = ApplicationOf(source, item, policy, today).status
         /\ gate.regionality = RegionalityOf(source, item).status
         /\ gate.reasons = RegionalityOf(source, item).reasons
                             \cup {ApplicationOf(source, item, policy, today).reason}
<1> DEFINE e == Evidence(source, item)
           regionality == RegionalityOf(source, item)
           application == ApplicationOf(source, item, policy, today)
           accepted == Accepted(policy, e)
<1>1. gate = DecisionOn(policy, e, regionality, application)
  BY DEF Asks, DecideRegional, ForYouthOnly, Evaluate, RegionalityOf, ApplicationOf
<1>2. accepted # None OBVIOUS
<1> HIDE DEF e, regionality, application, accepted
<1>3. /\ gate = [regionality |-> gate.regionality, application |-> gate.application,
                 reasons |-> gate.reasons, accepted |-> gate.accepted]
      /\ gate.application = application.status /\ gate.regionality = regionality.status
      /\ gate.reasons = regionality.reasons \cup {application.reason}
      /\ gate.accepted = IF regionality.status = "regional_confirmed" /\ application.status = "open"
                         THEN accepted ELSE None
  BY <1>1 DEF DecisionOn, accepted
<1>. QED BY <1>2, <1>3 DEF e, regionality, application, accepted

(* The same, of what says it is for the young.                             *)
LEMMA YouthDecision ==
  ASSUME NEW source, NEW item, NEW policy, NEW today,
         Accepted(policy, Evidence(source, item)) # None,
         NEW gate, gate = Decides(source, item, policy, today),
         NEW free, free = Asks(source, item, policy, today)
  PROVE  /\ gate.accepted # None => SpeaksOfYouth(item, Evidence(source, item).scope)
                                    /\ gate.accepted = free.accepted
         /\ gate.application = free.application
         /\ IsDecision(gate)
<1>1. gate = EnforceYouthTarget(free, item, Evidence(source, item).scope)
  BY DEF Asks, Decides, DecideRegional, ForYouthOnly
<1>2. /\ free.accepted # None <=> /\ RegionalityOf(source, item).status = "regional_confirmed"
                                  /\ ApplicationOf(source, item, policy, today).status = "open"
      /\ free.application = ApplicationOf(source, item, policy, today).status
      /\ free.regionality = RegionalityOf(source, item).status
      /\ free = [regionality |-> free.regionality, application |-> free.application,
                 reasons |-> free.reasons, accepted |-> free.accepted]
  BY GateDecision
<1> DEFINE young == SpeaksOfYouth(item, Evidence(source, item).scope)
<1>3. CASE young
  <2>1. gate = [free EXCEPT !.reasons = free.reasons \cup {"youth_target_confirmed"}]
    BY <1>1, <1>3 DEF EnforceYouthTarget
  <2>2. /\ gate.regionality = free.regionality /\ gate.application = free.application
        /\ gate.accepted = free.accepted /\ gate.reasons = free.reasons \cup {"youth_target_confirmed"}
    BY <1>2, <2>1
  <2>. QED BY <1>2, <1>3, <2>2 DEF IsDecision
<1>4. CASE ~young
  <2>1. gate = [free EXCEPT !.regionality = IF free.accepted # None THEN "regional_review_required"
                                             ELSE free.regionality,
                            !.reasons = free.reasons \cup {"youth_target_unconfirmed"},
                            !.accepted = None]
    BY <1>1, <1>4 DEF EnforceYouthTarget
  <2>2. /\ gate.regionality = IF free.accepted # None THEN "regional_review_required"
                              ELSE free.regionality
        /\ gate.application = free.application /\ gate.accepted = None
        /\ gate.reasons = free.reasons \cup {"youth_target_unconfirmed"}
    BY <1>2, <2>1
  <2>. QED BY <1>2, <2>2 DEF IsDecision
<1>. QED BY <1>3, <1>4

(* What the gate reads: a text of the detail page, or of the list where    *)
(* the portal has one and the detail page none.                            *)
LEMMA EvidenceIs ==
  ASSUME NEW source, NEW item, NEW e, e = Evidence(source, item), NEW f \in {"region", "target", "organization"}
  PROVE  e[f] = IF source = "gyeongbuk" THEN FirstOf(item.detail[f], item.listed[f]) ELSE item.detail[f]
BY DEF Evidence

(* What the gate accepts has evidence of its own, field by field.          *)
LEMMA ItemDecides ==
  ASSUME JudgeInv PROVE ItemEvidenceDecides
<1> DEFINE q == question
           e == Evidence(q.source, q)
           fields == {"region", "target", "organization"}
           own == {q.detail[f] : f \in fields}
                    \cup IF q.source = "gyeongbuk" THEN {q.listed[f] : f \in fields} ELSE {}
           gate == Decides(q.source, q, q.policy, q.policy.collected)
<1>1. SUFFICES ASSUME style = "regional", answer # None PROVE ItemEvidenceDecides
  BY DEF ItemEvidenceDecides
<1>2. answer.gate = gate
  <2>1. answer = AfterGate(gate, q) BY <1>1, Asked DEF Answer, Decides
  <2>. QED BY <2>1 DEF AfterGate
<1>3. IsItem(q) BY <1>1, Asked DEF IsQuestion
<1>4. Accepted(q.policy, e) # None BY <1>3 DEF IsItem
<1>5. /\ IsDecision(gate)
      /\ gate.accepted # None =>
           SpeaksOfYouth(q, e.scope) /\ Asks(q.source, q, q.policy, q.policy.collected).accepted # None
  BY <1>4, YouthDecision
<1>6. Asks(q.source, q, q.policy, q.policy.collected).accepted # None =>
        RegionalityOf(q.source, q).status = "regional_confirmed"
  BY <1>4, GateDecision
<1> HIDE DEF gate
<1>7. ASSUME gate.accepted # None
      PROVE  /\ \E text \in own : Mentions(text)
             /\ q.youth \/ q.years
             /\ Meaning(q.detail.region) \in Territory \cup {None}
             /\ ~SaysNationwide(q.detail.region) /\ ~SaysNationwide(q.detail.target)
  <2>1. /\ Mentions(e.region) \/ Mentions(e.target) \/ Mentions(e.organization)
        /\ Meaning(e.region) \in Territory \cup {None}
        /\ ~SaysNationwide(e.region) /\ ~SaysNationwide(e.target)
    BY <1>5, <1>6, <1>7, ConfirmedByItem DEF RegionalityOf
  <2>2. \A f \in fields : e[f] \in own BY EvidenceIs DEF FirstOf
  <2>3. /\ e["region"] = e.region /\ e["target"] = e.target /\ e["organization"] = e.organization
        /\ q.detail["region"] = q.detail.region /\ q.detail["target"] = q.detail.target
    OBVIOUS
  <2> HIDE DEF own
  <2>4. \E text \in own : Mentions(text) BY <2>1, <2>2, <2>3
  <2>5. /\ e.region = q.detail.region \/ q.detail.region = None
        /\ e.target = q.detail.target \/ q.detail.target = None
    <3>1. \A f \in fields : e[f] = q.detail[f] \/ q.detail[f] = None BY EvidenceIs DEF FirstOf
    <3>. QED BY <2>3, <3>1
  <2>6. Meaning(None) = None /\ ~SaysNationwide(None) BY DEF Meaning, SaysNationwide
  <2>7. q.youth \/ q.years BY <1>5, <1>7 DEF SpeaksOfYouth
  <2> HIDE DEF e
  <2>. QED BY <2>1, <2>4, <2>5, <2>6, <2>7
<1>. QED BY <1>2, <1>5, <1>7 DEF ItemEvidenceDecides

(* What the gate finds open the normalizer does not find scheduled or      *)
(* closed.                                                                 *)
LEMMA PeriodsAgree ==
  ASSUME NEW v, v # None, IsPeriod(v), NEW today, NEW scope,
         v.plain = v.dates, Len(v.dates) = 1 => "until" \in v.words,
         Application(v, today, scope).status = "open"
  PROVE  NormalizePeriod(v, today).status \in {"open", None}
<1>1. ASSUME NEW start \in Int, NEW end \in Int, NEW warnings,
             Between(start, end, today).status = "open"
      PROVE  InOrder(start, end, today, warnings).status \in {"open", None}
  <2>1. start # None /\ end # None BY JudgementAssumption
  <2>2. ~(start > end) => ~(today < start) /\ ~(today > end)
    BY <1>1, <2>1 DEF Between, Reversed, Availability
  <2>. QED BY <2>2 DEF InOrder, Dated, Unusable, Undated, StatusBetween
<1>2. v.words \cap {"closed", "ended"} = {}
  BY DEF Application, Availability
<1>3. CASE "always" \in v.words BY <1>3 DEF NormalizePeriod, Undated
<1>4. CASE "always" \notin v.words /\ "budget" \in v.words
  BY <1>2, <1>4 DEF NormalizePeriod, Undated
<1>5. CASE "always" \notin v.words /\ "budget" \notin v.words
  <2>1. Bad \notin ToSet(v.dates)
    BY <1>2, <1>5 DEF Application, Availability
  <2>2. v.dates \in Seq(Int \cup {Bad}) BY DEF IsPeriod
  <2>3. \A k \in DOMAIN v.dates : v.dates[k] \in Int
    BY <2>1, <2>2 DEF ToSet
  <2>4. Len(v.dates) \in Nat /\ DOMAIN v.dates = 1 .. Len(v.dates) BY <2>2
  <2>5. NormalizePeriod(v, today) =
          IF v.words = {"fixed"} THEN Undated("fixed_period", None, {})
          ELSE IF v.dates # <<>> THEN FromDates(v, today)
          ELSE IF v.months = None THEN Unusable("unparsed_application_period")
          ELSE IF v.months = Bad THEN Unusable("invalid_application_date")
          ELSE InOrder(v.months[1], v.months[2], today, {})
    BY <1>2, <1>5, <2>1 DEF NormalizePeriod
  <2>6. Application(v, today, scope) =
          IF Len(v.dates) >= 2 THEN Between(v.dates[1], v.dates[2], today)
          ELSE IF Len(v.dates) = 1 THEN Between(None, v.dates[1], today)
          ELSE OfNoDates(v, today, scope)
    BY <1>2, <1>5, <2>1 DEF Application
  <2>7. CASE v.words = {"fixed"} BY <2>5, <2>7 DEF Undated
  <2>8. CASE v.words # {"fixed"} /\ Len(v.dates) >= 2
    <3>1. v.dates # <<>> /\ v.dates[1] \in Int /\ v.dates[2] \in Int BY <2>3, <2>4, <2>8
    <3>2. Between(v.dates[1], v.dates[2], today).status = "open" BY <2>6, <2>8
    <3>3. PICK warnings : FromDates(v, today) = InOrder(v.dates[1], v.dates[2], today, warnings)
      BY <2>8 DEF FromDates
    <3>. QED BY <1>1, <2>5, <2>8, <3>1, <3>2, <3>3
  <2>9. CASE v.words # {"fixed"} /\ Len(v.dates) = 1
    <3>1. v.dates # <<>> /\ "until" \in v.words
      <4>1. "until" \in v.words BY <2>9
      <4>2. v.dates # <<>>
        <5>1. Len(<<>>) = 0 OBVIOUS
        <5>2. 0 # 1 OBVIOUS
        <5>. QED BY ONLY <2>9, <5>1, <5>2
      <4>. QED BY <4>1, <4>2
    <3>2. ~(today > v.dates[1]) BY <2>6, <2>9 DEF Between, Availability
    <3>3. FromDates(v, today).status = "open" BY <2>9, <3>1, <3>2 DEF FromDates, Dated
    <3>. QED BY <2>5, <2>9, <3>1, <3>3
  <2>10. CASE v.words # {"fixed"} /\ Len(v.dates) = 0
    <3>1. v.dates = <<>> BY <2>2, <2>10
    <3>2. CASE v.months \in {None, Bad} BY <2>5, <2>10, <3>1, <3>2 DEF Unusable, Undated
    <3>3. CASE v.months \notin {None, Bad}
      <4>1. v.months[1] \in Int /\ v.months[2] \in Int BY <3>3 DEF IsPeriod
      <4>2. Between(v.months[1], v.months[2], today).status = "open"
        BY <2>6, <2>10, <3>3 DEF OfNoDates
      <4>. QED BY <1>1, <2>5, <2>10, <3>1, <3>3, <4>1, <4>2
    <3>. QED BY <3>2, <3>3
  <2>11. Len(v.dates) = 0 \/ Len(v.dates) = 1 \/ Len(v.dates) >= 2
    <3>1. \A n \in Nat : n = 0 \/ n = 1 \/ n >= 2 OBVIOUS
    <3>. QED BY ONLY <2>4, <3>1
  <2>. QED BY <2>7, <2>8, <2>9, <2>10, <2>11
<1>. QED BY <1>3, <1>4, <1>5

(* What the normalizer says of a period stays in the program.              *)
LEMMA ProgramIs ==
  ASSUME NEW e, NEW program, program = Normalize(e).program
  PROVE  /\ program.status = NormalizePeriod(e.period, e.collected).status
         /\ program.scope = NormalizeRegionContract(e).scope
         /\ program.rules = NormalizeRegionContract(e).rules
BY DEF Normalize, NormalizeWith, NormalizeParts, Result, Classified, ProgramOf

(* What passed as open is normalized as open or unknown.                   *)
LEMMA GateAgrees ==
  ASSUME JudgeInv PROVE GateAgreesOnPeriods
<1> DEFINE q == question
           e == Evidence(q.source, q)
           gate == Decides(q.source, q, q.policy, q.policy.collected)
<1>1. SUFFICES ASSUME style = "regional", answer # None, q.policy.period # None,
                      q.policy.period.plain = q.policy.period.dates,
                      Len(q.policy.period.dates) = 1 => "until" \in q.policy.period.words,
                      answer.gate.application = "open"
               PROVE  answer.application \in {"open", None}
  BY DEF GateAgreesOnPeriods
<1>2. answer.gate = gate /\ answer.application = Normalize(q.policy).program.status
  <2>1. answer = AfterGate(gate, q) BY <1>1, Asked DEF Answer, Decides
  <2>. QED BY <2>1 DEF AfterGate
<1>3. IsItem(q) BY <1>1, Asked DEF IsQuestion
<1>4. Accepted(q.policy, e) # None /\ IsPeriod(q.policy.period) BY <1>1, <1>3 DEF IsItem
<1>5. gate.application = Asks(q.source, q, q.policy, q.policy.collected).application
  BY <1>4, YouthDecision
<1>6. Asks(q.source, q, q.policy, q.policy.collected).application
        = ApplicationOf(q.source, q, q.policy, q.policy.collected).status
  BY <1>4, GateDecision
<1>7. Application(q.policy.period, q.policy.collected, e.scope).status = "open"
  BY <1>1, <1>2, <1>5, <1>6 DEF ApplicationOf
<1>8. NormalizePeriod(q.policy.period, q.policy.collected).status \in {"open", None}
  BY <1>1, <1>4, <1>7, PeriodsAgree
<1>. QED BY <1>2, <1>8, ProgramIs

-----------------------------------------------------------------------------
(* The admission of a review *)

(* The normalizer gives a status.                                          *)
LEMMA StatusIs ==
  ASSUME NEW e PROVE Normalize(e).status \in {"valid", "partial", "invalid"}
<1>1. PICK program, w : Normalize(e) = Result(Classified(program, w), w)
                        /\ program.quality = "valid" /\ DOMAIN program = ProgramFields
  BY DEF Normalize, NormalizeWith, NormalizeParts, ProgramOf, ProgramFields
<1> DEFINE q == Classify(program, w)
           made == [program EXCEPT !.quality = q]
<1>2. q \in {"valid", "partial", "invalid"} BY DEF Classify
<1>3. made.quality = q BY <1>1 DEF ProgramFields
<1>4. Normalize(e).status = Validate(made, w) BY <1>1 DEF Result, Classified
<1> HIDE DEF q, made
<1>. QED BY <1>2, <1>3, <1>4 DEF Validate

(* What a candidate has to show to be promoted.                            *)
LEMMA PromotedCandidate ==
  ASSUME NEW c, c.current # {}
  PROVE  ClassifyCandidate(c) = "promote_partial" <=>
           /\ c.identified /\ c.checkpoint = "review"
           /\ c.marked \/ "youth_target_confirmed" \in c.original \cup c.current
           /\ c.current \cap RegionBlockers = {} /\ c.current \cap ItemRegionReasons # {}
           /\ c.application = "open" /\ c.current \cap OpenReasons # {}
           /\ c.normalization \in {"valid", "partial"} /\ c.fingerprint # None
           /\ c.duplicate = "accepted"
BY DEF ClassifyCandidate

(* A candidate is promoted on what it shows, the normalizer and the        *)
(* comparison: none of the three is passed because it was taken for        *)
(* granted.                                                                *)
LEMMA AdmissionOnCandidate ==
  ASSUME NEW gate, NEW item, NEW records, gate.reasons # {},
         NEW policy, policy = AdmittedBy(gate, item),
         NEW n, n = Normalize(policy), n.program # None,
         NEW admission, admission = AdmissionBy(gate, item, records)
  PROVE  /\ admission.outcome = "promote_partial" <=>
              /\ item.identified /\ item.checkpoint = "review"
              /\ item.youth \/ "youth_target_confirmed" \in item.original \cup gate.reasons
              /\ gate.reasons \cap RegionBlockers = {} /\ gate.reasons \cap ItemRegionReasons # {}
              /\ gate.application = "open" /\ gate.reasons \cap OpenReasons # {}
              /\ n.status # "invalid"
              /\ DuplicateOf(policy, n.program, records) = "accepted"
         /\ admission.outcome = "promote_partial" => admission.program = n.program
<1> DEFINE c == Unchecked(gate, item)
           normal == WithNormal(c, n)
           whole == [normal EXCEPT !.duplicate = DuplicateOf(policy, n.program, records)]
           fingerprint == IF n.status = "invalid" THEN None ELSE n.program
           Shows == /\ item.identified /\ item.checkpoint = "review"
                    /\ item.youth \/ "youth_target_confirmed" \in item.original \cup gate.reasons
                    /\ gate.reasons \cap RegionBlockers = {} /\ gate.reasons \cap ItemRegionReasons # {}
                    /\ gate.application = "open" /\ gate.reasons \cap OpenReasons # {}
<1>1. admission = FirstObjection(c, normal, whole, n.program)
  BY DEF AdmissionBy, AdmissionOf
<1>2. n.status \in {"valid", "partial", "invalid"} BY StatusIs
<1>3. /\ c.identified = item.identified /\ c.checkpoint = item.checkpoint /\ c.marked = item.youth
      /\ c.original = item.original /\ c.current = gate.reasons /\ c.application = gate.application
      /\ c.normalization = "partial" /\ c.fingerprint = "zeros" /\ c.duplicate = "accepted"
  BY DEF Unchecked
<1>4. /\ normal.identified = item.identified /\ normal.checkpoint = item.checkpoint
      /\ normal.marked = item.youth
      /\ normal.original = item.original /\ normal.current = gate.reasons
      /\ normal.application = gate.application /\ normal.normalization = n.status
      /\ normal.fingerprint = fingerprint /\ normal.duplicate = "accepted"
  BY DEF Unchecked, WithNormal
<1>5. /\ whole.identified = item.identified /\ whole.checkpoint = item.checkpoint
      /\ whole.marked = item.youth
      /\ whole.original = item.original /\ whole.current = gate.reasons
      /\ whole.application = gate.application /\ whole.normalization = n.status
      /\ whole.fingerprint = fingerprint
      /\ whole.duplicate = DuplicateOf(policy, n.program, records)
  BY DEF Unchecked, WithNormal
<1> HIDE DEF c, normal, whole
<1>6. ClassifyCandidate(c) = "promote_partial" <=> Shows
  BY <1>3, PromotedCandidate, JudgementAssumption
<1>7. ClassifyCandidate(normal) = "promote_partial" <=> Shows /\ n.status # "invalid"
  BY <1>2, <1>4, PromotedCandidate
<1>8. ClassifyCandidate(whole) = "promote_partial" <=>
        Shows /\ n.status # "invalid" /\ DuplicateOf(policy, n.program, records) = "accepted"
  BY <1>2, <1>5, PromotedCandidate
<1> HIDE DEF Shows
<1>9. admission.outcome = "promote_partial" <=>
        /\ ClassifyCandidate(c) = "promote_partial" /\ ClassifyCandidate(normal) = "promote_partial"
        /\ ClassifyCandidate(whole) = "promote_partial"
  BY <1>1 DEF FirstObjection, Verdict
<1>10. admission.outcome = "promote_partial" => admission.program = n.program
  BY <1>1, <1>9 DEF FirstObjection, Verdict
<1>. QED BY <1>6, <1>7, <1>8, <1>9, <1>10 DEF Shows

(* The admission that is answered promotes exactly what is earned.         *)
LEMMA AdmissionsAreEarned ==
  ASSUME JudgeInv PROVE AdmissionIsEarned
<1> DEFINE item == question.item
           gate == Asks(item.source, item, item.policy, question.as_of)
           e == Evidence(item.source, item)
           n == Normalize(AdmittedBy(gate, item))
           regionality == RegionalityOf(item.source, item)
           application == ApplicationOf(item.source, item, item.policy, question.as_of)
<1>1. SUFFICES ASSUME style = "admission", answer # None
               PROVE  PromotesWhatIsEarned(Regional(item, question.as_of))
  BY DEF AdmissionIsEarned
<1>2. Regional(item, question.as_of) = gate BY DEF Regional, Asks
<1>3. answer = AdmissionBy(gate, item, question.records)
  BY <1>1, <1>2, Asked DEF Answer, Admission
<1>4. Accepted(item.policy, e) # None /\ n.program # None
  BY <1>1, <1>2, Asked DEF IsQuestion, IsItem
<1>5. /\ gate.accepted # None <=>
           regionality.status = "regional_confirmed" /\ application.status = "open"
      /\ gate.application = application.status
      /\ gate.reasons = regionality.reasons \cup {application.reason}
  BY <1>4, GateDecision
<1>6. /\ regionality.status = "regional_confirmed" => regionality.reasons \cap RegionBlockers = {}
      /\ regionality.status = "regional_confirmed" <=> regionality.reasons \cap ItemRegionReasons # {}
      /\ "youth_target_confirmed" \notin regionality.reasons
  BY ConfirmedByItem DEF RegionalityOf
<1>7. application.reason \notin RegionBlockers \cup ItemRegionReasons \cup {"youth_target_confirmed"}
  BY ApplicationReasons DEF ApplicationOf
<1> HIDE DEF gate, regionality, application, e
<1>8. /\ gate.reasons # {} /\ "youth_target_confirmed" \notin gate.reasons
      /\ gate.accepted # None <=> /\ gate.reasons \cap ItemRegionReasons # {}
                                  /\ gate.application = "open"
      /\ gate.accepted # None => gate.reasons \cap RegionBlockers = {}
  BY <1>5, <1>6, <1>7
<1> DEFINE policy == AdmittedBy(gate, item)
<1>9. gate.accepted # None => policy = gate.accepted BY DEF AdmittedBy
<1>10. n = Normalize(policy) OBVIOUS
<1> HIDE DEF policy, n
<1>11. /\ answer.outcome = "promote_partial" <=>
            /\ item.identified /\ item.checkpoint = "review"
            /\ item.youth \/ "youth_target_confirmed" \in item.original \cup gate.reasons
            /\ gate.reasons \cap RegionBlockers = {} /\ gate.reasons \cap ItemRegionReasons # {}
            /\ gate.application = "open" /\ gate.reasons \cap OpenReasons # {}
            /\ n.status # "invalid"
            /\ DuplicateOf(policy, n.program, question.records) = "accepted"
       /\ answer.outcome = "promote_partial" => answer.program = n.program
  BY <1>3, <1>4, <1>8, <1>10, AdmissionOnCandidate DEF policy
<1>. QED BY <1>2, <1>8, <1>9, <1>10, <1>11 DEF PromotesWhatIsEarned, IsEarned

-----------------------------------------------------------------------------
(* Where an accepted policy is found *)

(* The regions the gate names are active ones of the territory, and names  *)
(* of themselves; the region the source stands for is always one.          *)
LEMMA NamedRegions ==
  ASSUME NEW text, MeansActive(text), Meaning(text) \in Territory \cup {None},
         NEW named, named = AcceptedRegions(text)
  PROVE  /\ named \in Seq(Territory \cap ActiveRegion)
         /\ \E k \in DOMAIN named : named[k] = Expected
<1>1. Expected \in Territory \cap ActiveRegion
  BY SourceAssumption, TreeAssumption, LiesInItself
<1>2. CASE Meaning(text) \in Territory \ {Expected}
  <2>1. Meaning(text) # None BY <1>2, SourceAssumption, TreeAssumption
  <2> DEFINE all == Candidates(text.whole)
  <2>2. text # None /\ text.whole # None /\ Cardinality(all) = 1 /\ Meaning(text) = CHOOSE r \in all : TRUE
    BY <2>1 DEF Meaning
  <2>3. all \subseteq ActiveRegion BY <2>2 DEF MeansActive
  <2> HIDE DEF all
  <2>4. all # {} BY <2>2, FS_EmptySet
  <2>5. Meaning(text) \in ActiveRegion BY <2>2, <2>3, <2>4
  <2>6. named = <<Meaning(text), Expected>> BY <1>2 DEF AcceptedRegions
  <2>7. named \in Seq(Territory \cap ActiveRegion) BY <1>1, <1>2, <2>5, <2>6
  <2>8. 2 \in DOMAIN named /\ named[2] = Expected BY <2>6
  <2>. QED BY <2>7, <2>8
<1>3. CASE Meaning(text) \notin Territory \ {Expected}
  <2>1. named = <<Expected>> BY <1>3 DEF AcceptedRegions
  <2>2. named \in Seq(Territory \cap ActiveRegion) BY <1>1, <2>1
  <2>3. 1 \in DOMAIN named /\ named[1] = Expected BY <2>1
  <2>. QED BY <2>2, <2>3
<1>. QED BY <1>2, <1>3

(* The rules of such regions include them, and nothing else.               *)
LEMMA RulesOfNamed ==
  ASSUME NEW named \in Seq(Territory \cap ActiveRegion), \E k \in DOMAIN named : named[k] = Expected,
         NEW evidence, evidence = [k \in DOMAIN named |-> RegionEvidence("include", named[k])],
         NEW S, S = ToSet(evidence), NEW rules, rules = Rules(evidence)
  PROVE  /\ evidence \in Seq(S) /\ (\A x \in S : IsEvidence(x)) /\ ~Contradicts(S) /\ evidence # <<>>
         /\ RegionsOf(rules).scope = "regional" /\ RegionsOf(rules).rules = rules
         /\ \A rule \in ToSet(rules) : rule.relation = "include" /\ IsUsable(rule)
                                       /\ rule.region \in Territory
         /\ \E rule \in ToSet(rules) : rule.region = Expected
<1>1. Len(named) \in Nat /\ DOMAIN named = 1 .. Len(named) OBVIOUS
<1>2. S = {RegionEvidence("include", named[k]) : k \in DOMAIN named} BY DEF ToSet
<1>3. evidence \in Seq(S) BY <1>1, <1>2
<1>4. \A k \in DOMAIN named : /\ named[k] \in Region /\ named[k] \in Territory \cap ActiveRegion
                              /\ Candidates(named[k]) = {named[k]} /\ named[k] # None
  BY <1>1, SourceAssumption, TreeAssumption
<1>5. \A r : IsFiniteSet({r}) /\ Cardinality({r}) = 1 BY FS_Singleton
<1>6. ASSUME NEW k \in DOMAIN named, NEW x, x = RegionEvidence("include", named[k])
      PROVE  /\ IsEvidence(x) /\ x.relation = "include" /\ x.key = named[k]
             /\ RuleOf(x).resolution = "matched" /\ RuleOf(x).relation = "include"
             /\ RuleOf(x).region = named[k]
  <2>1. x.relation = "include" /\ x.key = named[k] /\ x = RegionEvidence(x.relation, x.key)
    BY <1>6 DEF RegionEvidence
  <2>2. IsEvidence(x) BY <1>4, <1>5, <2>1 DEF IsEvidence, RegionRelation
  <2>3. Cardinality(Candidates(x.key)) = 1 BY <1>4, <1>5, <2>1
  <2>4. Candidates(x.key) = {RuleOf(x).region} /\ RuleOf(x).resolution = "matched"
        /\ RuleOf(x).relation = "include"
    BY <2>1, <2>2, <2>3, RuleOfEvidence
  <2>. QED BY <1>4, <2>1, <2>2, <2>4
<1>7. \A x \in S : IsEvidence(x) /\ x.relation = "include" BY <1>2, <1>6
<1>8. ~Contradicts(S)
  <2>1. Certain(S, "exclude") = {} BY <1>7 DEF Certain
  <2>. QED BY <2>1 DEF Contradicts, NamedBy
<1>9. /\ rules \in Seq({RuleOf(x) : x \in S})
      /\ \A k \in DOMAIN evidence : \E j \in DOMAIN rules : Alike(rules[j], RuleOf(evidence[k]))
  BY <1>3, <1>7, RulesAreOfEvidence
<1>10. \A j \in DOMAIN rules :
         /\ rules[j].relation = "include" /\ rules[j].resolution = "matched"
         /\ rules[j].region \in Territory \cap ActiveRegion /\ rules[j].region # None
  <2>1. SUFFICES ASSUME NEW j \in DOMAIN rules
                 PROVE  /\ rules[j].relation = "include" /\ rules[j].resolution = "matched"
                        /\ rules[j].region \in Territory \cap ActiveRegion /\ rules[j].region # None
    OBVIOUS
  <2>2. PICK x \in S : rules[j] = RuleOf(x)
    <3> DEFINE R == {RuleOf(x) : x \in S}
    <3>1. rules \in Seq(R) BY <1>9
    <3> HIDE DEF R
    <3>2. rules[j] \in R BY <3>1
    <3>. QED BY <3>2 DEF R
  <2>3. PICK k \in DOMAIN named : x = RegionEvidence("include", named[k]) BY <1>2
  <2>. QED BY <1>4, <1>6, <2>2, <2>3
<1>11. \E j \in DOMAIN rules : rules[j].region = Expected
  <2>1. PICK k \in DOMAIN named : named[k] = Expected OBVIOUS
  <2>2. k \in DOMAIN evidence /\ evidence[k] = RegionEvidence("include", Expected) BY <2>1
  <2>3. PICK j \in DOMAIN rules : Alike(rules[j], RuleOf(evidence[k])) BY <1>9, <2>2
  <2>. QED BY <1>6, <2>1, <2>2, <2>3 DEF Alike
<1>12. \A rule : rule \in ToSet(rules) <=> \E j \in DOMAIN rules : rule = rules[j] BY DEF ToSet
<1>13. RegionsOf(rules).scope = "regional" /\ RegionsOf(rules).rules = rules
  BY <1>10, <1>11 DEF RegionsOf, IncludedOf, IsMatched
<1>14. evidence # <<>> BY <1>1
<1>15. \A rule \in ToSet(rules) : rule.relation = "include" /\ IsUsable(rule)
                                   /\ rule.region \in Territory
  BY <1>10, <1>12 DEF IsUsable, IsMatched
<1>16. \E rule \in ToSet(rules) : rule.region = Expected BY <1>11, <1>12
<1>. QED BY <1>3, <1>7, <1>8, <1>13, <1>14, <1>15, <1>16

(* A policy of the territory is found there and above, and nowhere else.   *)
LEMMA FoundThere ==
  ASSUME NEW rules, \A rule \in rules : rule.relation = "include" /\ IsUsable(rule)
                                        /\ rule.region \in Territory,
         \E rule \in rules : rule.region = Expected,
         NEW r \in ActiveRegion
  PROVE  RegionDecision("regional", rules, r) =
           IF r \in Territory \/ LiesIn(Expected, r) THEN "match" ELSE "mismatch"
<1>1. r \in Region /\ r # None /\ Expected \in Region BY SourceAssumption, TreeAssumption
<1>2. \A x \in Region : x \in Territory <=> LiesIn(x, Expected) BY SourceAssumption
<1>3. \A rule \in rules : rule.region \in Region BY SourceAssumption
<1> DEFINE meets == \E rule \in rules : LiesIn(r, rule.region) \/ IsInside(rule, r)
<1>4. RegionDecision("regional", rules, r) = IF meets THEN "match" ELSE "mismatch"
  BY <1>1 DEF RegionDecision, IsDoubtful
<1>5. ASSUME r \in Territory \/ LiesIn(Expected, r) PROVE meets
  BY <1>1, <1>2, <1>5 DEF IsInside
<1>6. ASSUME NEW rule \in rules, LiesIn(r, rule.region) \/ LiesIn(rule.region, r)
      PROVE  r \in Territory \/ LiesIn(Expected, r)
  <2>1. rule.region \in Region /\ LiesIn(rule.region, Expected) BY <1>2, <1>3
  <2>2. CASE LiesIn(r, rule.region) BY <1>1, <1>2, <2>1, <2>2, LiesInIsTransitive
  <2>3. CASE LiesIn(rule.region, r) BY <1>1, <1>2, <2>1, <2>3, LiesInIsLinear
  <2>. QED BY <1>6, <2>2, <2>3
<1>. QED BY <1>4, <1>5, <1>6 DEF IsInside

(* What the gate accepts becomes a regional program, valid or partial, that*)
(* is found in the province and in what it is part of.                     *)
LEMMA AcceptedIsFound ==
  ASSUME JudgeInv PROVE AcceptedIsFoundInItsProvince
<1> DEFINE q == question
           e == Evidence(q.source, q)
           gate == Decides(q.source, q, q.policy, q.policy.collected)
           accepted == Accepted(q.policy, e)
           named == AcceptedRegions(e.region)
           evidence == [k \in DOMAIN named |-> RegionEvidence("include", named[k])]
           rules == Rules(evidence)
           program == Normalize(accepted).program
<1>1. SUFFICES ASSUME style = "regional", answer # None, answer.gate.accepted # None
               PROVE  AcceptedIsFoundInItsProvince
  BY DEF AcceptedIsFoundInItsProvince
<1>2. answer = AfterGate(gate, q) BY <1>1, Asked DEF Answer, Decides
<1>3. answer.gate = gate BY <1>2 DEF AfterGate
<1>4. IsItem(q) BY <1>1, Asked DEF IsQuestion
<1>5. accepted # None BY <1>4 DEF IsItem
<1>6. gate.accepted = accepted /\ RegionalityOf(q.source, q).status = "regional_confirmed"
  BY <1>1, <1>3, <1>5, YouthDecision, GateDecision
<1>7. Meaning(e.region) \in Territory \cup {None}
  BY <1>6, ConfirmedByItem DEF RegionalityOf
<1>8. MeansActive(e.region)
  <2>1. e["region"] \in {q.detail["region"], q.listed["region"]} BY EvidenceIs DEF FirstOf
  <2>2. e["region"] = e.region /\ q.detail["region"] = q.detail.region
        /\ q.listed["region"] = q.listed.region
    OBVIOUS
  <2> HIDE DEF e
  <2>. QED BY <1>4, <2>1, <2>2 DEF IsItem
<1>9. /\ named \in Seq(Territory \cap ActiveRegion)
      /\ \E k \in DOMAIN named : named[k] = Expected
  BY <1>7, <1>8, NamedRegions
<1>10. /\ evidence \in Seq(ToSet(evidence)) /\ (\A x \in ToSet(evidence) : IsEvidence(x))
       /\ ~Contradicts(ToSet(evidence)) /\ evidence # <<>>
       /\ RegionsOf(rules).scope = "regional" /\ RegionsOf(rules).rules = rules
       /\ \A rule \in ToSet(rules) : rule.relation = "include" /\ IsUsable(rule)
                                     /\ rule.region \in Territory
       /\ \E rule \in ToSet(rules) : rule.region = Expected
  <2> HIDE DEF named
  <2>. QED BY <1>9, RulesOfNamed
<1>11. accepted.evidence = evidence BY <1>4 DEF Accepted, IsItem
<1> HIDE DEF accepted, evidence, rules, gate, e
<1>12. Normalize(accepted).status # "invalid" BY <1>10, <1>11, InvalidContradicts
<1>13. program.scope = "regional" /\ program.rules = rules
  BY <1>10, <1>11, ProgramIs DEF NormalizeRegionContract, rules
<1>14. answer.status = Normalize(accepted).status /\ answer.found = FoundIn(program)
  BY <1>1, <1>2, <1>3, <1>6 DEF AfterGate
<1>15. answer.status \in {"valid", "partial"} BY <1>12, <1>14, StatusIs
<1> HIDE DEF program
<1>16. answer.found = [r \in ActiveRegion |-> RegionDecision("regional", ToSet(rules), r)]
  BY <1>13, <1>14 DEF FoundIn
<1>17. ASSUME NEW r \in DOMAIN answer.found
       PROVE  answer.found[r] = IF r \in Territory \/ LiesIn(Expected, r) THEN "match" ELSE "mismatch"
  BY <1>10, <1>16, FoundThere
<1>. QED BY <1>15, <1>17 DEF AcceptedIsFoundInItsProvince

(* regional_policy_gate.py and audit_review_admission.py: whatever an item *)
(* says, it enters on evidence of its own, is found in its province and    *)
(* nowhere else, is not scheduled or closed when it passed as open, and a  *)
(* review promotes exactly what gate, normalizer and comparison let pass.  *)
THEOREM EntriesAreEarned == JudgeSpec => []EntryIsEarned
<1>1. JudgeInv => EntryIsEarned
  BY ItemDecides, AcceptedIsFound, GateAgrees, AdmissionsAreEarned DEF EntryIsEarned
<1>. QED BY <1>1, JudgeInvAlways, PTL
=============================================================================

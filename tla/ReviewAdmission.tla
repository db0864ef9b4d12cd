---------------------------- MODULE ReviewAdmission ----------------------------
(***************************************************************************)
(* A second look at the policies a regional source left for review: an     *)
(* audit judges the stored evidence again as of a day and writes a         *)
(* manifest; applying the manifest rebuilds it, compares, and imports what *)
(* it promotes, source by source.  Meanwhile sources are collected, and    *)
(* imports change the number of policies and the aggregators' policies.    *)
(*                                                                         *)
(* Only policies under review are here: item is what Raw and checkpoint    *)
(* hold of one.  The git revision and the migration do not change.         *)
(***************************************************************************)
EXTENDS RegionalGate

CONSTANTS LongerHolds(_, _), \* the longer title holds the shorter, of 5 or more
          Identity,       \* policies (source_id, external_id) under review
          SourceUnder,    \* the source of each
          Item,           \* what may be stored: name -> item
          ItemsOf,        \* names of what may be stored of each identity
          Records,        \* what the aggregators' policies may be: name -> records
          Day,            \* days of an audit
          MaxChanges      \* bound: changes from outside

Sources == {SourceUnder[i] : i \in Identity}

Duplicates == INSTANCE DuplicateGate WITH Holds <- LongerHolds

-----------------------------------------------------------------------------
(* The judgement of one candidate *)

ItemRegionReasons == {"source_region_confirmed", "target_region_confirmed",
                      "implementing_region_confirmed"}
RegionBlockers == {"insufficient_regional_evidence", "nationwide_republication",
                   "region_conflict", "ambiguous_parent_region"}
OpenReasons == {"application_period_open", "application_explicitly_open",
                "source_scope_application_open"}

ClassifyCandidate(c) ==
  LET current == IF c.current # {} THEN c.current ELSE c.original
  IN IF ~c.identified THEN "exclude_invalid"
     ELSE IF c.checkpoint = "failed" THEN "exclude_failed"
     ELSE IF c.checkpoint = "closed" \/ c.application = "closed" THEN "exclude_closed"
     ELSE IF c.checkpoint = "duplicate" THEN "exclude_duplicate"
     ELSE IF \/ c.checkpoint # "review"
             \/ ~c.marked /\ "youth_target_confirmed" \notin c.original \cup current
             \/ current \cap RegionBlockers # {} \/ current \cap ItemRegionReasons = {}
             \/ c.application # "open" \/ current \cap OpenReasons = {} THEN "hold_review"
     ELSE IF c.normalization = "invalid" THEN "exclude_invalid"
     ELSE IF c.normalization \notin {"valid", "partial"} THEN "hold_review"
     ELSE IF c.fingerprint = None THEN "exclude_invalid"
     ELSE IF c.duplicate = "excluded" THEN "exclude_duplicate"
     ELSE IF c.duplicate # "accepted" THEN "hold_review"
     ELSE "promote_partial"

Regional(item, as_of) == DecideRegional(item.source, item, item.policy, as_of, FALSE)
AdmittedBy(gate, item) == IF gate.accepted # None THEN gate.accepted ELSE item.policy

Compared(policy, program) ==
  [title |-> policy.title, organization |-> policy.organization,
   regions |-> {program.rules[k].region : k \in Included(program)},
   start |-> program.start, end |-> program.end, support |-> policy.support]
DuplicateOf(policy, program, records) ==
  Duplicates!Evaluate(Compared(policy, program),
    Duplicates!Evidence(policy.references, policy.urls, policy.announcements),
    [records |-> records]).outcome

(* Normalization and comparison wait until nothing else stands against the *)
(* policy; until then the candidate passes them.                           *)
Unchecked(gate, item) ==
  [identified |-> item.identified, checkpoint |-> item.checkpoint, marked |-> item.youth,
   original |-> item.original, current |-> gate.reasons,
   application |-> gate.application,
   normalization |-> "partial", fingerprint |-> "zeros", duplicate |-> "accepted"]

Verdict(outcome, program) == [outcome |-> outcome, program |-> program]

WithNormal(c, n) ==
  [c EXCEPT !.normalization = n.status,
            !.fingerprint = IF n.status = "invalid" THEN None ELSE n.program]

(* mutant: the comparison that was put off is not made *)
FirstObjectionUncompared(c, normal, whole, program) ==
  IF ClassifyCandidate(c) # "promote_partial" THEN Verdict(ClassifyCandidate(c), None)
  ELSE Verdict(ClassifyCandidate(normal), program)

(* The candidate before it is normalized, before it is compared, and whole.*)
FirstObjection(c, normal, whole, program) ==
  IF ClassifyCandidate(c) # "promote_partial" THEN Verdict(ClassifyCandidate(c), None)
  ELSE IF ClassifyCandidate(normal) # "promote_partial" THEN Verdict(ClassifyCandidate(normal), None)
  ELSE IF ClassifyCandidate(whole) # "promote_partial" THEN Verdict(ClassifyCandidate(whole), None)
  ELSE Verdict("promote_partial", program)

AdmissionOf(c, n, policy, records) ==
  FirstObjection(c, WithNormal(c, n),
    [WithNormal(c, n) EXCEPT !.duplicate = DuplicateOf(policy, n.program, records)], n.program)
AdmissionBy(gate, item, records) ==
  AdmissionOf(Unchecked(gate, item), Normalize(AdmittedBy(gate, item)),
              AdmittedBy(gate, item), records)
Admission(item, as_of, records) == AdmissionBy(Regional(item, as_of), item, records)

Admissions ==
  [k \in DOMAIN Item |-> [as_of \in Day |-> [r \in DOMAIN Records |->
     Admission(Item[k], as_of, Records[r])]]]

(* None is no number, no source and no program. *)
ASSUME ReviewAssumption ==
  /\ IsFiniteSet(Identity) /\ None \notin Nat \cup Sources /\ DOMAIN Records # {}
  /\ \A i \in Identity : ItemsOf[i] # {} /\ ItemsOf[i] \subseteq DOMAIN Item
  /\ \A k \in DOMAIN Item :
       /\ Normalize(Item[k].policy).program # None
       /\ \A as_of \in Day : Normalize(AdmittedBy(Regional(Item[k], as_of), Item[k])).program # None

-----------------------------------------------------------------------------
VARIABLES captured, \* Raw and checkpoint of each identity
          holds,    \* duplicates other sources' newest decisions leave open
          known,    \* the aggregators' policies
          others,   \* stored policies of other identities
          admitted, \* stored programs of the identities
          auditor,
          audit,    \* the manifest on disk
          applier,
          runs, \* collection_runs of the apply: source -> status
          verdict,  \* how the last apply ended
          moves     \* history: changes from outside

reviewVars == <<captured, holds, known, others, admitted, auditor, audit, applier,
                runs, verdict, moves>>

StoredOf(promoted) == {i \in promoted : admitted[i] # None}
PolicyCount == others + Cardinality(StoredOf(Identity))
PromotedBy(manifest) == {i \in Identity : manifest.decisions[i].outcome = "promote_partial"}

Waiting == [step |-> "resting"]
UnchangedStore == UNCHANGED <<captured, holds, known, others, admitted, moves>>

-----------------------------------------------------------------------------
(* The audit: the aggregators' policies and the number of policies in one  *)
(* transaction, then the files, then the number of those it promotes that  *)
(* are stored already.                                                     *)

(* What build_manifest makes of a day, a baseline and a number of policies.*)
ManifestOfDecisions(as_of, records, total, decisions) ==
  [as_of |-> as_of, records |-> records, checkpoint |-> captured, holds |-> holds,
   decisions |-> decisions,
   policy_count |-> total - Cardinality(StoredOf(
     {i \in Identity : decisions[i].outcome = "promote_partial"}))]
AuditOf(as_of, records, total) ==
  ManifestOfDecisions(as_of, records, total,
                      [i \in Identity |-> Admissions[captured[i]][as_of][records]])

AuditReads(as_of) ==
  /\ auditor = Waiting
  /\ auditor' = [step |-> "read", as_of |-> as_of, records |-> known, total |-> PolicyCount,
                 at |-> moves, stored |-> StoredOf(Identity)]
  /\ UnchangedStore /\ UNCHANGED <<audit, applier, runs, verdict>>

(* A count below zero is refused, and the old file stays. *)
AuditFile(manifest) ==
  IF manifest.policy_count < 0 THEN audit
  ELSE [manifest |-> manifest, stored |-> auditor.stored,
        at |-> IF auditor.stored = StoredOf(Identity) THEN auditor.at ELSE None]

AuditWrites ==
  /\ auditor.step = "read"
  /\ audit' = AuditFile(AuditOf(auditor.as_of, auditor.records, auditor.total))
  /\ auditor' = Waiting
  /\ UnchangedStore /\ UNCHANGED <<applier, runs, verdict>>

-----------------------------------------------------------------------------
(* The apply *)

Ends(result) ==
  /\ applier' = Waiting
  /\ verdict' = [result |-> result, promoted |-> PromotedBy(applier.manifest),
                quiet |-> /\ applier.at = moves
                          /\ StoredOf(Identity) \ applier.stored \subseteq PromotedBy(applier.manifest)]

ApplyReads(dry) ==
  /\ applier = Waiting /\ audit # None
  /\ applier' = [step |-> "counted", dry |-> dry, before |-> PolicyCount, records |-> None,
                 manifest |-> audit.manifest, stored |-> audit.stored, at |-> audit.at]
  /\ verdict' = None
  /\ runs' = [s \in Sources |-> None]
  /\ UnchangedStore /\ UNCHANGED <<auditor, audit>>

(* mutant: what an earlier apply stored counts as drift *)
IsBaselineOfAll(before, manifest) == before = manifest.policy_count

IsBaseline(before, manifest) ==
  before - Cardinality(StoredOf(PromotedBy(manifest))) = manifest.policy_count

ApplyChecksCount ==
  /\ applier.step = "counted"
  /\ IF IsBaseline(applier.before, applier.manifest)
     THEN applier' = [applier EXCEPT !.step = "rebuilding", !.records = known] /\ UNCHANGED verdict
     ELSE Ends("drifted")
  /\ UnchangedStore /\ UNCHANGED <<auditor, audit, runs>>

(* mutant: what is rebuilt is not compared with what was audited *)
IsRebuiltAnyhow(rebuilt, manifest) == TRUE

IsRebuilt(rebuilt, manifest) == rebuilt = manifest

(* The number of policies is taken from the manifest. *)
RebuiltFor(manifest, records) ==
  [AuditOf(manifest.as_of, records, 0) EXCEPT !.policy_count = manifest.policy_count]

Importing(rebuilt) ==
  [step |-> "importing", source |-> None, inserted |-> 0, dry |-> applier.dry,
   before |-> applier.before, manifest |-> applier.manifest,
   stored |-> applier.stored, at |-> applier.at,
   programs |-> [i \in PromotedBy(rebuilt) |-> rebuilt.decisions[i].program],
   todo |-> {SourceUnder[i] : i \in PromotedBy(rebuilt)}]

ImportsOrEnds(rebuilt) ==
  IF IsRebuilt(rebuilt, applier.manifest)
  THEN applier' = Importing(rebuilt) /\ UNCHANGED verdict
  ELSE Ends("drifted")

ApplyCompares ==
  /\ applier.step = "rebuilding"
  /\ ImportsOrEnds(RebuiltFor(applier.manifest, applier.records))
  /\ UnchangedStore /\ UNCHANGED <<auditor, audit, runs>>

(* Source by source: the record of a run, one transaction, the record.     *)
StartSource(s) ==
  /\ applier.step = "importing" /\ applier.source = None /\ s \in applier.todo
  /\ applier' = [applier EXCEPT !.source = s]
  /\ runs' = IF applier.dry THEN runs ELSE [runs EXCEPT ![s] = "running"]
  /\ UnchangedStore /\ UNCHANGED <<auditor, audit, verdict>>

OfSourceUnder(s) == {i \in DOMAIN applier.programs : SourceUnder[i] = s}

(* The importer validates each program again, without the warnings of the  *)
(* normalizer: a program that is partial by these alone is refused, and    *)
(* nothing of its source is stored.                                        *)
IsTaken(s) == \A i \in OfSourceUnder(s) : Validate(applier.programs[i], {}) # "invalid"

ImportSource ==
  /\ applier.step = "importing" /\ applier.source \in applier.todo
  /\ IsTaken(applier.source)
  /\ admitted' = [i \in Identity |-> IF ~applier.dry /\ i \in OfSourceUnder(applier.source)
                                     THEN applier.programs[i] ELSE admitted[i]]
  /\ applier' = [applier EXCEPT
       !.todo = @ \ {applier.source},
       !.inserted = @ + Cardinality({i \in OfSourceUnder(applier.source) : admitted[i] = None})]
  /\ UNCHANGED <<captured, holds, known, others, moves, auditor, audit, runs, verdict>>

(* mutant: a source that fails is passed over *)
SourceFailsSilently ==
  /\ applier.step = "importing" /\ applier.source \in applier.todo
  /\ runs' = IF applier.dry THEN runs ELSE [runs EXCEPT ![applier.source] = "failed"]
  /\ applier' = [applier EXCEPT !.source = None, !.todo = @ \ {applier.source}]
  /\ UnchangedStore /\ UNCHANGED <<auditor, audit, verdict>>

(* A program is refused, or the import fails. *)
SourceFails ==
  /\ applier.step = "importing" /\ applier.source \in applier.todo
  /\ runs' = IF applier.dry THEN runs ELSE [runs EXCEPT ![applier.source] = "failed"]
  /\ Ends("failed")
  /\ UnchangedStore /\ UNCHANGED <<auditor, audit>>

FinishSource ==
  /\ applier.step = "importing" /\ applier.source \notin applier.todo \cup {None}
  /\ runs' = IF applier.dry THEN runs ELSE [runs EXCEPT ![applier.source] = "succeeded"]
  /\ applier' = [applier EXCEPT !.source = None]
  /\ UnchangedStore /\ UNCHANGED <<auditor, audit, verdict>>

ApplyVerifies ==
  /\ applier.step = "importing" /\ applier.source = None /\ applier.todo = {}
  /\ Ends(IF PolicyCount # applier.before + (IF applier.dry THEN 0 ELSE applier.inserted)
          THEN "failed" ELSE IF applier.dry THEN "rehearsed" ELSE "succeeded")
  /\ UnchangedStore /\ UNCHANGED <<auditor, audit, runs>>

(* The process dies, or the database fails it: nothing is recorded. *)
ApplyDies ==
  /\ applier # Waiting
  /\ Ends("failed")
  /\ UnchangedStore /\ UNCHANGED <<auditor, audit, runs>>

-----------------------------------------------------------------------------
(* From outside: a collection replaces the evidence, decisions of another  *)
(* source are written, an import changes the aggregators' policies and the *)
(* number of the others, or stores a policy under review.                  *)
Moves ==
  /\ moves < MaxChanges
  /\ moves' = moves + 1
  /\ UNCHANGED <<auditor, audit, applier, runs, verdict>>

EvidenceChanges(i) ==
  /\ Moves
  /\ \E item \in ItemsOf[i] \ {captured[i]} : captured' = [captured EXCEPT ![i] = item]
  /\ UNCHANGED <<holds, known, others, admitted>>

HoldsChange ==
  /\ Moves
  /\ holds' = ~holds
  /\ UNCHANGED <<captured, known, others, admitted>>

OtherImport ==
  /\ Moves
  /\ others' = others + 1
  /\ known' \in DOMAIN Records
  /\ UNCHANGED <<captured, holds, admitted>>

RegionalImport(i) ==
  /\ Moves
  /\ \E item \in ItemsOf[i] : admitted' = [admitted EXCEPT ![i] = Normalize(Item[item].policy).program]
  /\ UNCHANGED <<captured, holds, known, others>>

-----------------------------------------------------------------------------
ReviewInit ==
  /\ captured = [i \in Identity |-> CHOOSE item \in ItemsOf[i] : TRUE]
  /\ holds = FALSE /\ known = (CHOOSE k \in DOMAIN Records : TRUE) /\ others = 0
  /\ admitted = [i \in Identity |-> None]
  /\ auditor = Waiting /\ audit = None /\ applier = Waiting
  /\ runs = [s \in Sources |-> None] /\ verdict = None
  /\ moves = 0

ReviewNext ==
  \/ \E as_of \in Day : AuditReads(as_of)
  \/ AuditWrites
  \/ \E dry \in BOOLEAN : ApplyReads(dry)
  \/ ApplyChecksCount \/ ApplyCompares
  \/ \E s \in Sources : StartSource(s)
  \/ ImportSource \/ SourceFails \/ FinishSource \/ ApplyVerifies \/ ApplyDies
  \/ \E i \in Identity : EvidenceChanges(i) \/ RegionalImport(i)
  \/ HoldsChange \/ OtherImport

ReviewSpec == ReviewInit /\ [][ReviewNext]_reviewVars

-----------------------------------------------------------------------------
(* Properties *)

(* What an apply writes is what its manifest says of a policy it promotes, *)
(* although evidence, baseline and files change after the audit.           *)
AppliedWasAudited ==
  applier.step = "importing" =>
    \A i \in DOMAIN applier.programs :
      /\ applier.manifest.decisions[i].outcome = "promote_partial"
      /\ applier.manifest.decisions[i].program = applier.programs[i]

(* As long as nothing else changed since the audit began, and no apply of  *)
(* another manifest stored anything, its manifest can be applied again,    *)
(* whatever an apply of it stored before it died.                          *)
QuietApplyResumes == verdict # None /\ verdict.quiet => verdict.result # "drifted"

(* An apply that ended well stored every policy its manifest promotes, and *)
(* the records of its runs say so.                                         *)
SuccessIsWhole ==
  verdict # None /\ verdict.result = "succeeded" =>
    \A i \in verdict.promoted : admitted[i] # None /\ runs[SourceUnder[i]] = "succeeded"

(* Applying a review, in all: only what was audited, all of it or no       *)
(* success, and again after a death.                                       *)
ApplyIsWhole == AppliedWasAudited /\ QuietApplyResumes /\ SuccessIsWhole
=============================================================================

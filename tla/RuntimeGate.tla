------------------------------ MODULE RuntimeGate ------------------------------
(***************************************************************************)
(* The import of a regional source: its stored Raw is replayed, compared   *)
(* with the policies of the aggregators as PostgreSQL has them, replayed   *)
(* again with that baseline, its decisions are stored, and what was        *)
(* accepted is written.  Meanwhile the aggregators are collected and       *)
(* imported and the Raw of the source changes.                             *)
(*                                                                         *)
(* Each aggregator has one policy here.  The checkpoint and the life cycle *)
(* of policies are modelled in RegionalCheckpoint and PolicyStore.         *)
(***************************************************************************)
EXTENDS Normalization

CONSTANTS Holds(_, _),
          Aggregator,  \* AGGREGATOR_SOURCE_IDS
          Offers,      \* what an aggregator's policy may be: [policy, regions]
          Batches,     \* what the newest Raw may hold: sequences of policies
          MaxTime,     \* bound: snapshots of aggregators
          MaxImports   \* bound: imports of the source

VARIABLES clock,
          snapshot, \* completed_at of the newest manifest of each aggregator
          pending,  \* a collected policy that is not imported yet
          rows,     \* the stored policy of each aggregator: columns
          regionRows,    \* and its rules, of the same transaction
          since,    \* history: aggregators imported since the columns were read
          raw,      \* the Raw of the source
          importer, imports,
          decided,  \* decision manifests on disk
          imported  \* stored policies of the source

gateVars == <<clock, snapshot, pending, rows, regionRows, since, raw, importer, imports, decided, imported>>

Gate == INSTANCE DuplicateGate

-----------------------------------------------------------------------------
(* The aggregators: a manifest is stored, then its policies are imported.  *)

SaveSnapshot(a) ==
  /\ clock < MaxTime
  /\ clock' = clock + 1
  /\ snapshot' = [snapshot EXCEPT ![a] = clock']
  /\ \E offer \in Offers : pending' = [pending EXCEPT ![a] = offer @@ [at |-> clock']]
  /\ UNCHANGED <<rows, regionRows, since, raw, importer, imports, decided, imported>>

ImportSnapshot(a) ==
  /\ pending[a] # None
  /\ rows' = [rows EXCEPT ![a] = [policy |-> pending[a].policy, at |-> pending[a].at]]
  /\ regionRows' = [regionRows EXCEPT ![a] = [regions |-> pending[a].regions, at |-> pending[a].at]]
  /\ since' = IF importer.step = "policies" THEN since \cup {a} ELSE since
  /\ pending' = [pending EXCEPT ![a] = None]
  /\ UNCHANGED <<clock, snapshot, raw, importer, imports, decided, imported>>

(* The policy left the list of the aggregator and was inactivated. *)
Inactivate(a) ==
  /\ rows[a] # None
  /\ rows' = [rows EXCEPT ![a] = None]
  /\ UNCHANGED <<clock, snapshot, pending, regionRows, since, raw, importer, imports, decided, imported>>

RawChanges ==
  /\ \E batch \in Batches \ {raw} : raw' = batch
  /\ UNCHANGED <<clock, snapshot, pending, rows, regionRows, since, importer, imports, decided, imported>>

-----------------------------------------------------------------------------
(* Replay *)

CandidateOf(e, program) ==
  [title |-> e.title, organization |-> e.organization,
   regions |-> {program.rules[k].region : k \in Included(program)},
   start |-> program.start, end |-> program.end, support |-> e.support]

Judgement(e, n, baseline) ==
  [policy |-> e, program |-> n.program, warnings |-> n.warnings, status |-> n.status,
   decision |-> Gate!Evaluate(CandidateOf(e, n.program),
                  Gate!Evidence(e.references, e.urls, e.announcements), baseline)]

(* A policy the normalizer left invalid has no decision; the others keep   *)
(* their place in the batch.                                               *)
Judgements(batch, baseline) ==
  LET results == [k \in DOMAIN batch |->
                    Judgement(batch[k], Normalize(batch[k]), baseline)]
  IN Restrict(results, {k \in DOMAIN batch : results[k].status # "invalid"})

(* mutant: every accepted program has the warnings of the first result *)
ReplayedFirstWarnings(judged, baseline) ==
  LET first == CHOOSE n \in DOMAIN judged : \A k \in DOMAIN judged : n <= k
  IN [judged |-> judged, baseline |-> baseline,
      programs |-> [k \in {n \in DOMAIN judged : Gate!Accepted(judged[n].decision)} |->
                      [judged[k] EXCEPT !.warnings = judged[first].warnings]]]

Replayed(judged, baseline) ==
  [judged |-> judged, baseline |-> baseline,
   programs |-> Restrict(judged, {k \in DOMAIN judged : Gate!Accepted(judged[k].decision)})]
Replay(batch, baseline) == Replayed(Judgements(batch, baseline), baseline)

-----------------------------------------------------------------------------
(* The import *)

Resting == [step |-> "resting"]
UnchangedSources == UNCHANGED <<clock, snapshot, pending, rows, regionRows, raw>>

(* Without decisions there is nothing to compare. *)
AfterReplay(replay) ==
  IF replay.judged = <<>> THEN [step |-> "replayed", replay |-> replay] ELSE [step |-> "gated"]

ReplayAlone ==
  /\ importer = Resting /\ imports < MaxImports
  /\ imports' = imports + 1
  /\ importer' = AfterReplay(Replay(raw, None))
  /\ UnchangedSources /\ UNCHANGED <<since, decided, imported>>

LoadManifests ==
  /\ importer.step = "gated"
  /\ \A a \in Aggregator : snapshot[a] # None
  /\ importer' = [step |-> "manifests", snapshots |-> snapshot]
  /\ UnchangedSources /\ UNCHANGED <<imports, since, decided, imported>>

(* mutant: rows newer than their snapshot are taken *)
IsOfSnapshotAny(stored, snapshots) == TRUE

IsOfSnapshot(stored, snapshots) ==
  \A a \in Aggregator : stored[a] # None => stored[a].at <= snapshots[a]

LoadPolicies ==
  /\ importer.step = "manifests"
  /\ IsOfSnapshot(rows, importer.snapshots)
  /\ importer' = [step |-> "policies", snapshots |-> importer.snapshots, rows |-> rows]
  /\ since' = {}
  /\ UnchangedSources /\ UNCHANGED <<imports, decided, imported>>

(* The rules are a second statement, which sees what was committed since   *)
(* the first: the age of the rules is not looked at.  The baseline has the *)
(* ages of both parts and the aggregators imported between the two         *)
(* statements as a history.                                                *)
Baseline(snapshots, stored, ruled, between) ==
  [snapshots |-> snapshots,
   at |-> [a \in Aggregator |-> stored[a].at],
   rulesAt |-> [a \in Aggregator |-> ruled[a].at], between |-> between,
   records |-> {Gate!BaselineRecord(a, stored[a].policy, ruled[a].regions) : a \in Aggregator}]

LoadRules ==
  /\ importer.step = "policies"
  /\ \A a \in Aggregator : importer.rows[a] # None
  /\ importer' = [step |-> "compared",
                  baseline |-> Baseline(importer.snapshots, importer.rows, regionRows, since)]
  /\ since' = {}
  /\ UnchangedSources /\ UNCHANGED <<imports, decided, imported>>

ReplayAgain ==
  /\ importer.step = "compared"
  /\ importer' = [step |-> "replayed", replay |-> Replay(raw, importer.baseline)]
  /\ UnchangedSources /\ UNCHANGED <<imports, since, decided, imported>>

(* mutant: the decisions are not stored *)
ManifestOfNone(replay) == {}

(* The manifest of a replay; its name is the hash of what it says, so that *)
(* the same decisions are stored once.                                     *)
ManifestOf(replay) ==
  IF replay.judged = <<>> \/ replay.baseline = None THEN {}
  ELSE {[baseline |-> replay.baseline,
         decisions |-> {[policy |-> replay.judged[k].policy, decision |-> replay.judged[k].decision] :
                          k \in DOMAIN replay.judged}]}

SaveDecisions ==
  /\ importer.step = "replayed"
  /\ decided' = decided \cup ManifestOf(importer.replay)
  /\ importer' = [importer EXCEPT !.step = "recorded"]
  /\ UnchangedSources /\ UNCHANGED <<imports, since, imported>>

(* The importer validates each program again, with the warnings that came  *)
(* with it; one that fails keeps all of them out.                          *)
Rejected(programs) ==
  {k \in DOMAIN programs : Validate(programs[k].program, programs[k].warnings) = "invalid"}

ImportPrograms ==
  /\ importer.step = "recorded"
  /\ LET programs == importer.replay.programs
     IN IF Rejected(programs) # {}
        THEN importer' = [step |-> "rejected"] /\ UNCHANGED imported
        ELSE /\ imported' = {p \in imported : \A k \in DOMAIN programs :
                                                programs[k].policy.id # p.id}
                            \cup {programs[k].policy : k \in DOMAIN programs}
             /\ importer' = Resting
  /\ UnchangedSources /\ UNCHANGED <<imports, since, decided>>

(* A dry run is rolled back; a check that fails, an error and a crash end  *)
(* the import where it is.                                                 *)
ImportEnds ==
  /\ importer # Resting
  /\ importer' = Resting /\ since' = {}
  /\ UnchangedSources /\ UNCHANGED <<imports, decided, imported>>

-----------------------------------------------------------------------------
GateInit ==
  /\ clock = 0
  /\ snapshot = [a \in Aggregator |-> None] /\ pending = snapshot
  /\ rows = snapshot /\ regionRows = [a \in Aggregator |-> [regions |-> {}, at |-> None]]
  /\ since = {}
  /\ raw = <<>> /\ importer = Resting /\ imports = 0
  /\ decided = {} /\ imported = {}

GateNext ==
  \/ \E a \in Aggregator : SaveSnapshot(a) \/ ImportSnapshot(a) \/ Inactivate(a)
  \/ RawChanges
  \/ ReplayAlone \/ LoadManifests \/ LoadPolicies \/ LoadRules \/ ReplayAgain
  \/ SaveDecisions \/ ImportPrograms \/ ImportEnds

GateSpec == GateInit /\ [][GateNext]_gateVars

-----------------------------------------------------------------------------
(* Properties *)

(* Whatever of the source is stored was accepted by a decision on disk,    *)
(* against a baseline with both aggregators, though processes die between  *)
(* the decision, its file and the write.                                   *)
StoredWasJudged ==
  \A p \in imported : \E m \in decided : \E d \in m.decisions :
     d.policy = p /\ Gate!Accepted(d.decision)

(* No decision on disk rests on an aggregator's columns that are newer     *)
(* than the snapshot the manifest names, and the regions compared with     *)
(* them are of the same import, unless that aggregator was imported        *)
(* between the two statements that read them: then the regions may be      *)
(* newer than the columns and than the snapshot, and nothing in the code   *)
(* looks.                                                                  *)
BaselineIsOfItsSnapshots ==
  \A m \in decided : \A a \in Aggregator :
     /\ m.baseline.at[a] <= m.baseline.snapshots[a]
     /\ m.baseline.rulesAt[a] = m.baseline.at[a] \/ a \in m.baseline.between

(* What a replay accepts the importer accepts: it classifies each program  *)
(* as the normalizer did, given the warnings of that program.              *)
ReplayIsImportable == importer.step # "rejected"

(* What an import stores was judged, against columns no newer than the     *)
(* snapshots on record and rules of the same import but for the window     *)
(* between two statements, and no replay is refused halfway.               *)
ImportIsJudged == StoredWasJudged /\ BaselineIsOfItsSnapshots /\ ReplayIsImportable
=============================================================================

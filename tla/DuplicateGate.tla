----------------------------- MODULE DuplicateGate -----------------------------
(***************************************************************************)
(* Whether a policy of a regional source repeats one of the aggregators:   *)
(* official identities decide, equal texts only ask for a review.  Texts   *)
(* are model values that stand for the compared form (letters and digits,  *)
(* folded), URLs for the canonical one (no utm_ keys, no fragment, no      *)
(* trailing slash).                                                        *)
(***************************************************************************)
EXTENDS Integers, FiniteSets

CONSTANTS None,
          Holds(_, _)  \* the longer title holds the shorter, of 5 or more

DuplicateOutcome == {"accepted", "excluded", "review"}

(* A baseline record is a stored policy of an aggregator; stored policies  *)
(* carry no announcement, so its announcement_identities are empty.        *)
BaselineRecord(identity, policy, regions) ==
  [identity |-> identity, title |-> policy.title, organization |-> policy.organization,
   regions |-> regions, start |-> policy.start, end |-> policy.end,
   support |-> policy.support, urls |-> policy.urls, announcements |-> {}]

Evidence(references, urls, announcements) ==
  [references |-> references, urls |-> urls, announcements |-> announcements]

Decision(outcome, reason, matched) ==
  [outcome |-> outcome, reason |-> reason, matched |-> {r.identity : r \in matched}]
Accepted(decision) == decision.outcome = "accepted"

-----------------------------------------------------------------------------
(* Comparisons of texts *)

(* A pair of dates is compared as a pair and is never empty, even of None. *)
FingerprintMatches(c, r) ==
  /\ c.title = r.title
  /\ c.organization # None /\ c.organization = r.organization
  /\ c.regions # {} /\ c.regions = r.regions
  /\ c.start = r.start /\ c.end = r.end
  /\ c.support # None /\ c.support = r.support

(* mutant: a missing date is no gap *)
ComparisonIsIncompleteUndated(c, r) ==
  \/ None \in {c.organization, r.organization, c.support, r.support}
  \/ {} \in {c.regions, r.regions}

ComparisonIsIncomplete(c, r) ==
  \/ None \in {c.organization, r.organization, c.support, r.support,
               c.start, c.end, r.start, r.end}
  \/ {} \in {c.regions, r.regions}

TitleContains(c, r) ==
  c.title # r.title /\ (Holds(c.title, r.title) \/ Holds(r.title, c.title))

-----------------------------------------------------------------------------
(* The decision: the first comparison that finds a record decides. *)

(* mutant: several policies with one URL are left to the texts *)
ByUrlSingle(evidence, records) ==
  LET same == {r \in records : r.urls \cap evidence.urls # {}}
  IN IF Cardinality(same) = 1 THEN {Decision("excluded", "canonical_url_match", same)} ELSE {}

ByUrl(evidence, records) ==
  LET same == {r \in records : r.urls \cap evidence.urls # {}}
  IN CASE same = {} -> {}
       [] Cardinality(same) = 1 -> {Decision("excluded", "canonical_url_match", same)}
       [] OTHER -> {Decision("review", "canonical_url_matches_multiple_policies", same)}

ByReference(evidence, records) ==
  LET same == {r \in records : r.identity \in evidence.references}
  IN IF same = {} THEN {} ELSE {Decision("excluded", "aggregator_external_id_match", same)}

ByAnnouncement(evidence, records) ==
  LET same == {r \in records : r.announcements \cap evidence.announcements # {}}
  IN IF same = {} THEN {} ELSE {Decision("excluded", "official_announcement_id_match", same)}

ByFingerprint(c, records) ==
  LET same == {r \in records : FingerprintMatches(c, r)}
  IN IF same = {} THEN {} ELSE {Decision("review", "full_fingerprint_match", same)}

ByTitle(c, records) ==
  LET same == {r \in records : r.title = c.title}
  IN CASE same = {} -> {}
       [] \E r \in same : ComparisonIsIncomplete(c, r) ->
            {Decision("review", "same_title_with_incomplete_evidence", same)}
       [] OTHER -> {Decision("accepted", "same_title_but_fields_differ", same)}

ByContainment(c, records) ==
  LET like == {r \in records : TitleContains(c, r)}
  IN IF like = {} THEN {} ELSE {Decision("review", "material_title_containment", like)}

FirstOf(a, b) == IF a # {} THEN a ELSE b

EvaluateRecords(c, evidence, records) ==
  FirstOf(ByReference(evidence, records),
  FirstOf(ByUrl(evidence, records),
  FirstOf(ByAnnouncement(evidence, records),
  FirstOf(ByFingerprint(c, records),
  FirstOf(ByTitle(c, records),
  FirstOf(ByContainment(c, records),
          {Decision("accepted", "no_cross_source_candidate", {})}))))))

(* Without a baseline nothing can be ruled out. *)
Evaluate(c, evidence, baseline) ==
  IF baseline = None THEN Decision("review", "aggregator_baseline_unavailable", {})
  ELSE CHOOSE d \in EvaluateRecords(c, evidence, baseline.records) : TRUE

-----------------------------------------------------------------------------
(* What may be expected of a decision *)

(* A policy enters on its own only when no official identity is shared and *)
(* no stored policy of its title is equal or leaves a field open; it is    *)
(* dropped only on an official identity, never on texts.                   *)
IsCautious(c, evidence, records, decision) ==
  LET shared(r) == \/ r.identity \in evidence.references
                   \/ r.urls \cap evidence.urls # {}
                   \/ r.announcements \cap evidence.announcements # {}
      told(r) == /\ None \notin {c[f] : f \in {"organization", "start", "end", "support"}}
                 /\ None \notin {r[f] : f \in {"organization", "start", "end", "support"}}
                 /\ c.regions # {} /\ r.regions # {}
      differs(r) == \E f \in {"organization", "regions", "start", "end", "support"} : c[f] # r[f]
  IN /\ decision.outcome = "accepted" =>
          \A r \in records : ~shared(r) /\ (r.title = c.title => told(r) /\ differs(r))
     /\ decision.outcome = "excluded" => \E r \in records : shared(r)
=============================================================================

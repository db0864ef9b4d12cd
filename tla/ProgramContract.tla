--------------------------- MODULE ProgramContract ---------------------------
(***************************************************************************)
(* What a normalized program may hold, and how the validator classifies    *)
(* one.  The contract is written twice in the code: as issues of the       *)
(* validator, and as the constructor of NormalizedProgram.  Texts, URLs,   *)
(* enumerations and provenance, which the JSON Schema constrains alone,    *)
(* are left out; a text is present or None.                                *)
(***************************************************************************)
EXTENDS Integers, Sequences, FiniteSets, SequencesExt

CONSTANT None  \* a field that is null

CoverageScope == {"nationwide", "regional", "unknown"}
RegionRelation == {"include", "exclude"}
RegionResolutionStatus == {"matched", "unmapped", "ambiguous"}
DataQualityStatus == {"valid", "partial", "invalid"}

RegionRule(relation, resolution, region, source) ==
  [relation |-> relation, resolution |-> resolution,
   region |-> region,  \* scheme and code of a canonical region
   source |-> source]  \* source code or text the rule rests on

Issue(condition, code) == IF condition THEN {code} ELSE {}

-----------------------------------------------------------------------------
(* The validator *)

IsMatched(rule) == rule.resolution = "matched" /\ rule.region # None
Matched(p) == {k \in DOMAIN p.rules : IsMatched(p.rules[k])}
Included(p) == {k \in Matched(p) : p.rules[k].relation = "include"}
SameRegion(p, j, k) == p.rules[j].region = p.rules[k].region
SameRelation(p, j, k) == p.rules[j].relation = p.rules[k].relation

RegionContractIssues(p) ==
  LET Unresolved == {k \in DOMAIN p.rules : p.rules[k].resolution # "matched"}
  IN UNION {
       Issue(\E k \in DOMAIN p.rules : p.rules[k].resolution = "matched" /\ p.rules[k].region = None,
             "matched_region_reference"),
       Issue(\E j, k \in Matched(p) : j # k /\ SameRegion(p, j, k) /\ SameRelation(p, j, k),
             "duplicate_region_relation"),
       Issue(\E k \in Unresolved : p.rules[k].region # None, "unresolved_canonical_region"),
       Issue(\E k \in Unresolved : p.rules[k].source = None, "missing_region_evidence"),
       Issue(p.scope = "nationwide" /\ p.rules # <<>>, "nationwide_region_rules"),
       Issue(p.scope = "regional" /\ Included(p) = {}, "regional_without_include"),
       Issue(p.scope = "unknown" /\ Matched(p) # {}, "unknown_with_matched_region"),
       Issue(\E j, k \in Matched(p) : SameRegion(p, j, k) /\ ~SameRelation(p, j, k),
             "region_include_exclude_conflict")}

Reversed(low, high) == low # None /\ high # None /\ low > high

SemanticIssues(p) ==
  UNION {Issue(Reversed(p.start, p.end), "date_order"),
         Issue(Reversed(p.age_min, p.age_max), "age_order"),
         RegionContractIssues(p)}

IsAge(n) == n = None \/ n \in 0 .. 150
SchemaIssues(p) ==
  UNION {Issue(~IsAge(p.age_min), "schema_age_min"),
         Issue(~IsAge(p.age_max), "schema_age_max"),
         Issue(~IsInjective(p.rules), "schema_uniqueItems")}

QualityGapIssues(p) ==
  LET Undated == p.start = None /\ p.end = None
  IN UNION {
       Issue(p.categories = {}, "missing_categories"),
       Issue(p.regions = {}, "missing_regions"),
       Issue(p.age = None, "missing_age_condition"),
       Issue(p.age \notin {None, "unlimited"} /\ p.age_min = None /\ p.age_max = None,
             "unstructured_age_condition"),
       Issue(p.period = None /\ Undated /\ p.schedule = None /\ p.status = None,
             "missing_application_period"),
       Issue(p.schedule = "fixed_period" /\ Undated, "missing_fixed_period_dates")}

(* Errors make a program invalid; warnings of the normalizer and gaps make *)
(* it partial.                                                             *)
Classify(p, warnings) ==
  IF SchemaIssues(p) \cup SemanticIssues(p) # {} THEN "invalid"
  ELSE IF warnings # {} \/ QualityGapIssues(p) # {} THEN "partial" ELSE "valid"

-----------------------------------------------------------------------------
(* The constructor of NormalizedProgram *)

RuleIsSound(rule) ==
  /\ rule.resolution = "matched" => rule.region # None
  /\ rule.resolution # "matched" => rule.region = None /\ rule.source # None

(* mutant: a region may be included and excluded *)
RegionContractLoose(scope, rules) ==
  LET matched == {k \in DOMAIN rules : rules[k].resolution = "matched"}
  IN /\ scope = "nationwide" => rules = <<>>
     /\ scope = "regional" => \E k \in matched : rules[k].relation = "include"
     /\ scope = "unknown" => matched = {}

RegionContract(scope, rules) ==
  LET matched == {k \in DOMAIN rules : rules[k].resolution = "matched"}
  IN /\ scope = "nationwide" => rules = <<>>
     /\ scope = "regional" => \E k \in matched : rules[k].relation = "include"
     /\ scope = "unknown" => matched = {}
     /\ \A j, k \in matched : rules[j].region = rules[k].region => j = k

IsProgram(p) ==
  /\ \A k \in DOMAIN p.rules : RuleIsSound(p.rules[k])
  /\ IsInjective(p.rules)
  /\ ~Reversed(p.start, p.end)
  /\ RegionContract(p.scope, p.rules)
  /\ IsAge(p.age_min) /\ IsAge(p.age_max)
  /\ ~Reversed(p.age_min, p.age_max)

(* The status of a program that carries one: another than it deserves is   *)
(* an error, and so is a program the constructor refuses.                  *)
Validate(p, warnings) ==
  IF p.quality = Classify(p, warnings) /\ p.quality # "invalid" /\ IsProgram(p)
  THEN p.quality ELSE "invalid"
=============================================================================

----------------------------- MODULE Normalization -----------------------------
(***************************************************************************)
(* From an extracted policy to a normalized program.  What the normalizer  *)
(* reads in a text is given: the words and the dates of a period, the      *)
(* numbers and marks of an age, the tokens of categories and regions, the  *)
(* regions an alias or an external code names.  What it makes of them,     *)
(* with which warnings, is modelled.  Texts copied as they are, eligibility*)
(* and provenance are left out.                                            *)
(***************************************************************************)
EXTENDS ProgramContract

CONSTANTS Candidates(_),  \* the regions an alias or an external code names
          Bad             \* no day or month of the calendar

(* What a text says.  A date may be written in words, which the pattern of *)
(* the regional gate takes and the one of the normalizer does not: dates   *)
(* are those of the gate, plain those of the normalizer.                   *)
Period(words, dates, plain, months) ==
  [words |-> words, dates |-> dates, plain |-> plain, months |-> months]
Age(unlimited, numbers, marks) == [unlimited |-> unlimited, numbers |-> numbers, marks |-> marks]
RegionEvidence(relation, key) == [relation |-> relation, key |-> key]

-----------------------------------------------------------------------------
(* Application period *)

Undated(schedule, status, warnings) ==
  [start |-> None, end |-> None, schedule |-> schedule, status |-> status,
   warnings |-> warnings]
Dated(start, end, status, warnings) ==
  [start |-> start, end |-> end, schedule |-> "fixed_period", status |-> status,
   warnings |-> warnings]
Unusable(warning) == Undated(None, None, {warning})

StatusBetween(start, end, today) ==
  IF today < start THEN "scheduled" ELSE IF today > end THEN "closed" ELSE "open"

(* mutant: the order of the dates is taken as it is written *)
InOrderAny(start, end, today, warnings) ==
  Dated(start, end, StatusBetween(start, end, today), warnings)

InOrder(start, end, today, warnings) ==
  IF start > end THEN Unusable("invalid_application_date_order")
  ELSE Dated(start, end, StatusBetween(start, end, today), warnings)

FromDates(v, today) ==
  LET d == v.plain
  IN IF Len(d) >= 2 THEN
            InOrder(d[1], d[2], today,
                    IF Len(d) > 2 THEN {"extra_application_dates"} ELSE {})
     ELSE IF "until" \in v.words THEN
            Dated(None, d[1], IF today > d[1] THEN "closed" ELSE "open", {})
     ELSE Dated(d[1], None, IF today < d[1] THEN "scheduled" ELSE None, {})

NormalizePeriod(v, today) ==
  IF v = None THEN Undated(None, None, {})
  ELSE IF "always" \in v.words THEN Undated("always", "open", {})
  ELSE IF "closed" \in v.words THEN Undated(None, "closed", {})
  ELSE IF "budget" \in v.words THEN Undated("until_budget_exhausted", None, {})
  ELSE IF v.words = {"fixed"} THEN Undated("fixed_period", None, {})
  ELSE IF Bad \in ToSet(v.plain) THEN Unusable("invalid_application_date")
  ELSE IF v.plain # <<>> THEN FromDates(v, today)
  ELSE IF v.months = None THEN Unusable("unparsed_application_period")
  ELSE IF v.months = Bad THEN Unusable("invalid_application_date")
  ELSE InOrder(v.months[1], v.months[2], today, {})

-----------------------------------------------------------------------------
(* Age *)

Ages(min, max, warnings) == [min |-> min, max |-> max, warnings |-> warnings]

(* mutant: the range is not checked *)
AgeRangeAny(min, max, placeholder) ==
  IF placeholder /\ min = 0 /\ max = 0 THEN Ages(None, None, {"placeholder_age_range"})
  ELSE Ages(min, max, {})

AgeRange(min, max, placeholder) ==
  IF placeholder /\ min = 0 /\ max = 0 THEN Ages(None, None, {"placeholder_age_range"})
  ELSE IF ~IsAge(min) \/ ~IsAge(max) \/ Reversed(min, max) THEN
         Ages(None, None, {"invalid_age_range"})
  ELSE Ages(min, max, {})

NormalizeAge(v, placeholder) ==
  IF v = None \/ v.unlimited THEN Ages(None, None, {})
  ELSE IF Len(v.numbers) >= 2 /\ "range" \in v.marks THEN
         AgeRange(v.numbers[1], v.numbers[2], placeholder)
  ELSE IF Len(v.numbers) = 1 /\ "from" \in v.marks THEN AgeRange(v.numbers[1], None, placeholder)
  ELSE IF Len(v.numbers) = 1 /\ "to" \in v.marks THEN AgeRange(None, v.numbers[1], placeholder)
  ELSE Ages(None, None, IF v.numbers = <<>> THEN {} ELSE {"unparsed_age_condition"})

-----------------------------------------------------------------------------
(* Categories: a token is the set of categories it is mapped to. *)

NormalizeCategories(tokens) ==
  [categories |-> UNION ToSet(tokens) \cup (IF {} \in ToSet(tokens) THEN {"other"} ELSE {}),
   warnings |-> IF {} \in ToSet(tokens) THEN {"unmapped_category"} ELSE {}]

-----------------------------------------------------------------------------
(* Regions *)

Resolution(key) ==
  CASE Candidates(key) = {} -> "unmapped"
    [] Cardinality(Candidates(key)) = 1 -> "matched"
    [] OTHER -> "ambiguous"

RuleOf(evidence) ==
  LET status == Resolution(evidence.key)
  IN RegionRule(evidence.relation, status,
                IF status = "matched" THEN CHOOSE r \in Candidates(evidence.key) : TRUE ELSE None,
                evidence.key)

(* mutant: the same evidence twice makes the same rule twice *)
RepeatsNever(rules, rule) == FALSE

(* A rule is taken once for a region and a relation, or, when no region is *)
(* matched, for the evidence.                                              *)
Repeats(rules, rule) ==
  \E k \in DOMAIN rules :
     /\ rules[k].relation = rule.relation
     /\ IF rule.resolution = "matched" THEN rules[k].region = rule.region
        ELSE rules[k] = rule

Rules(evidence) ==
  FoldLeft(LAMBDA rules, e : IF Repeats(rules, RuleOf(e)) THEN rules
                             ELSE Append(rules, RuleOf(e)), <<>>, evidence)

(* Without evidence the text names regions but no rule; a text of codes    *)
(* names none.                                                             *)
NormalizeRegions(text) ==
  IF text = None THEN [regions |-> {}, warnings |-> {}]
  ELSE IF text = "codes" THEN [regions |-> {}, warnings |-> {"unmapped_region_code"}]
  ELSE [regions |-> ToSet(text) \ {None},
        warnings |-> IF None \in ToSet(text) THEN {"unmapped_region"} ELSE {}]

IncludedOf(rules) ==
  {k \in DOMAIN rules : rules[k].relation = "include" /\ IsMatched(rules[k])}
RegionsOf(rules) ==
  [regions |-> {rules[k].region : k \in IncludedOf(rules)},
   scope |-> IF IncludedOf(rules) # {} THEN "regional" ELSE "unknown",
   rules |-> rules,
   warnings |-> {rules[k].resolution : k \in {j \in DOMAIN rules : ~IsMatched(rules[j])}}]

NormalizeRegionContract(e) ==
  IF e.evidence = <<>>
  THEN [regions |-> NormalizeRegions(e.region_text).regions,
        scope |-> IF e.nationwide THEN "nationwide" ELSE "unknown",
        rules |-> <<>>,
        warnings |-> NormalizeRegions(e.region_text).warnings]
  ELSE RegionsOf(Rules(e.evidence))

-----------------------------------------------------------------------------
AgeText(v) ==
  IF v = None THEN None ELSE IF v.unlimited THEN "unlimited" ELSE "text"

ProgramOf(e, period, age, categories, region) ==
  [start |-> period.start, end |-> period.end,
   schedule |-> period.schedule, status |-> period.status,
   period |-> IF e.period = None THEN None ELSE "text",
   age_min |-> age.min, age_max |-> age.max, age |-> AgeText(e.age),
   categories |-> categories.categories, regions |-> region.regions,
   scope |-> region.scope, rules |-> region.rules, quality |-> "valid"]
Classified(program, warnings) == [program EXCEPT !.quality = Classify(program, warnings)]

(* The program, its warnings and its status; an invalid one has no program.*)
Result(program, warnings) ==
  [program |-> program, warnings |-> warnings, status |-> Validate(program, warnings)]
NormalizeParts(e, period, age, categories, region, warnings) ==
  Result(Classified(ProgramOf(e, period, age, categories, region), warnings), warnings)
NormalizeWith(e, period, age, categories, region) ==
  NormalizeParts(e, period, age, categories, region,
                 UNION {period.warnings, age.warnings, categories.warnings, region.warnings})

Normalize(e) ==
  NormalizeWith(e, NormalizePeriod(e.period, e.collected), NormalizeAge(e.age, e.placeholder),
                NormalizeCategories(e.categories), NormalizeRegionContract(e))
=============================================================================

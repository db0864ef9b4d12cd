----------------------------- MODULE PolicySearch -----------------------------
(***************************************************************************)
(* What a search and a recommendation make of a stored policy.  Every      *)
(* condition has three answers, and only a certain mismatch hides a        *)
(* policy.  Words are model values: which ones a query holds and which ones*)
(* a policy's texts hold is given; scores, order and pages are left out.   *)
(*                                                                         *)
(* The columns of a policy and its region rules are read by two statements *)
(* that may see different commits, so they are separate arguments.         *)
(***************************************************************************)
EXTENDS ProgramContract

CONSTANTS Region,
          ParentOf,      \* aggregate_parent_code or parent_code, or None
          Province,      \* regions of level province
          ActiveRegion,
          Aliases(_),    \* the active regions an alias names
          Meant(_),      \* full names the parser takes a name for: a sequence
          CategoryWord(_),  \* words of a category: CATEGORY_KEYWORD_MAP
          GenericWord    \* GENERIC_RELEVANCE_TERMS

MatchState == {"match", "mismatch", "unknown"}
RegionConditionResolution == {"resolved", "ambiguous", "unmapped"}

-----------------------------------------------------------------------------
(* Regions *)

(* A region and those above it. *)
Upward[r \in Region] == IF ParentOf[r] = None THEN {r} ELSE {r} \cup Upward[ParentOf[r]]
LiesIn(r, wider) == wider \in Upward[r]
ProvinceOf(r) == IF r = None THEN {} ELSE Upward[r] \cap Province

(* An alias of one active region; of none or several is undecided. *)
Decided(alias) ==
  IF Cardinality(Aliases(alias)) = 1 THEN CHOOSE r \in Aliases(alias) : TRUE ELSE None

IsUsable(rule) == IsMatched(rule) /\ rule.region \in ActiveRegion

(* A rule that cannot be used concerns the query unless both provinces are *)
(* known and differ.                                                       *)
MayConcern(rule, query) ==
  \/ ProvinceOf(query) = {} \/ ProvinceOf(rule.region) = {}
  \/ ProvinceOf(rule.region) = ProvinceOf(query)

(* mutant: a query for a wider region misses the policies inside it *)
IsInsideNever(rule, query) == FALSE

IsInside(rule, query) == LiesIn(rule.region, query)

(* mutant: that a regional policy has no rule to go by is no doubt *)
IsDoubtfulByRules(rules, query) == \E rule \in rules : ~IsUsable(rule) /\ MayConcern(rule, query)

IsDoubtful(rules, query) ==
  \/ \E rule \in rules : ~IsUsable(rule) /\ MayConcern(rule, query)
  \/ ~\E rule \in rules : IsUsable(rule) /\ rule.relation = "include"

RegionDecision(scope, rules, query) ==
  LET usable(relation) == {rule \in rules : IsUsable(rule) /\ rule.relation = relation}
      covers(rule) == LiesIn(query, rule.region)
  IN IF scope = "nationwide" THEN "match"
     ELSE IF scope = "unknown" \/ query = None THEN "unknown"
     ELSE IF \E rule \in usable("exclude") : covers(rule) THEN "mismatch"
     ELSE IF \E rule \in usable("include") : covers(rule) \/ IsInside(rule, query) THEN "match"
     ELSE IF IsDoubtful(rules, query) THEN "unknown" ELSE "mismatch"

-----------------------------------------------------------------------------
(* Age, status and category *)

(* A stored range of zero to zero is a placeholder. *)
AgeDecision(age, p) ==
  LET isPlaceholder == p.age_min = 0 /\ p.age_max = 0
      known(bound) == bound # None /\ ~isPlaceholder
  IN IF known(p.age_min) /\ age < p.age_min THEN "mismatch"
     ELSE IF known(p.age_max) /\ age > p.age_max THEN "mismatch"
     ELSE IF known(p.age_min) \/ known(p.age_max) \/ p.age = "unlimited" THEN "match"
     ELSE "unknown"

StatusDecision(status, p) ==
  IF p.status = None THEN "unknown" ELSE IF p.status = status THEN "match" ELSE "mismatch"

CategoryDecision(categories, p) ==
  IF categories \cap p.categories # {} THEN "match"
  ELSE IF p.categories = {} THEN "unknown" ELSE "mismatch"

-----------------------------------------------------------------------------
(* The conditions of a search: what a form says replaces what the words of *)
(* the query say, dimension by dimension.                                  *)

RegionResolution(name) ==
  CASE Meant(name) = <<>> -> "unmapped"
    [] Len(Meant(name)) = 1 -> "resolved"
    [] OTHER -> "ambiguous"

RegionCondition(form, words) ==
  IF form # None THEN [value |-> form, resolution |-> RegionResolution(form), explicit |-> TRUE]
  ELSE IF words # None THEN
         [value |-> IF Meant(words) = <<>> THEN words ELSE Meant(words)[1],
          resolution |-> RegionResolution(words), explicit |-> FALSE]
  ELSE None

Chosen(form, words) == IF form # None THEN form ELSE words

(* A word for a category is also looked for in the texts. *)
Keyword(form, words) == IF form.keyword # None THEN form.keyword ELSE words.category_word

(* form: the explicit parameters; words: what the query is read as. *)
Interpret(form, words) ==
  [region |-> RegionCondition(form.region, words.region),
   age |-> Chosen(form.age, words.age),
   status |-> Chosen(form.status, words.status),
   category |-> Chosen(form.category, words.category),
   keyword |-> IF form.category = None THEN Keyword(form, words) ELSE form.keyword,
   terms |-> words.rest]

(* A request with nothing to look for, or with an explicit region that is  *)
(* not one region, is refused.                                             *)
IsAnswered(c) ==
  /\ c.region # None /\ c.region.explicit => c.region.resolution = "resolved"
  /\ \/ c.terms # {}
     \/ \E d \in {"region", "age", "status", "category", "keyword"} : c[d] # None

-----------------------------------------------------------------------------
(* Search *)

(* All words that are not generic must occur; of generic words alone one.  *)
SpeaksOf(c, p) ==
  LET all == c.terms \cup ({c.keyword} \ {None})
      anchors == (all \ GenericWord) \cup ({c.keyword} \ {None})
  IN IF anchors # {} THEN anchors \subseteq p.words
     ELSE all # {} => all \cap p.words # {}

(* The answers to the conditions a search has. *)
Verdicts(c, p, rules) ==
  UNION {IF c.status = None THEN {} ELSE {StatusDecision(c.status, p)},
         IF c.age = None THEN {} ELSE {AgeDecision(c.age, p)},
         IF c.category = None THEN {} ELSE {CategoryDecision({c.category}, p)},
         IF c.region = None THEN {} ELSE {RegionDecision(p.scope, rules, Decided(c.region.value))}}

(* mutant: closed policies are found unless the search asks for others *)
IsFoundClosed(c, p, rules, include_partial) ==
  /\ p.quality \in IF include_partial THEN {"valid", "partial"} ELSE {"valid"}
  /\ SpeaksOf(c, p)
  /\ "mismatch" \notin Verdicts(c, p, rules)

(* Without a condition on the status a closed policy is hidden. *)
IsFound(c, p, rules, include_partial) ==
  /\ p.quality \in IF include_partial THEN {"valid", "partial"} ELSE {"valid"}
  /\ SpeaksOf(c, p)
  /\ c.status = None => p.status # "closed"
  /\ "mismatch" \notin Verdicts(c, p, rules)

-----------------------------------------------------------------------------
(* Recommendation *)

(* A profile: [categories, region, age, status]; a status it asks for has  *)
(* to be known.                                                            *)
IsRecommended(profile, p, rules, include_partial) ==
  /\ p.quality \in IF include_partial THEN {"valid", "partial"} ELSE {"valid"}
  /\ profile.categories # {} => CategoryDecision(profile.categories, p) # "mismatch"
  /\ profile.region # None =>
       RegionDecision(p.scope, rules, Decided(profile.region)) # "mismatch"
  /\ profile.age # None => AgeDecision(profile.age, p) # "mismatch"
  /\ IF profile.status # None THEN StatusDecision(profile.status, p) = "match"
     ELSE p.status # "closed"
=============================================================================

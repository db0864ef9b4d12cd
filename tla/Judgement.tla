------------------------------- MODULE Judgement -------------------------------
(***************************************************************************)
(* One question put to one pure part of the pipeline, and its answer: the  *)
(* contract of a program, the normalizer, the comparison with aggregators, *)
(* the regional gate, the admission of a review, the region conditions of  *)
(* a search, a profile.  What may be asked is a constant, so that a run    *)
(* puts every question of a bounded set and a proof puts any.              *)
(***************************************************************************)
EXTENDS RuntimeGate, ReviewAdmission, PolicySearch

CONSTANTS Styles,       \* parts at work
          Questions(_)  \* what a part may be asked

Judged == {"contract", "normalize", "compare", "region", "profile", "regional", "admission"}

VARIABLES style, question, answer

judgeVars == <<style, question, answer>>

-----------------------------------------------------------------------------
(* The search of a profile, by a form or in words.                         *)
NoWords == [region |-> None, age |-> None, status |-> None, category |-> None,
            category_word |-> None, rest |-> {}]
NoForm == [region |-> None, age |-> None, status |-> None, category |-> None, keyword |-> None]
Searched(none, profile, category) ==
  [none EXCEPT !.region = profile.region, !.age = profile.age,
               !.status = profile.status, !.category = category]

(* The parser knows a category by one of its words, and keeps the word.    *)
WordsOf(category) == IF category = None THEN {None} ELSE CategoryWord(category)
InWords(profile, category, word) ==
  [Searched(NoWords, profile, category) EXCEPT !.category_word = word]
SaysNothing == [categories |-> {}, region |-> None, age |-> None, status |-> None]
CategoriesOf(profile) == IF profile.categories = {} THEN {None} ELSE profile.categories
IsFoundAs(form, words, q) ==
  LET c == Interpret(form, words)
  IN IsAnswered(c) /\ IsFound(c, q.policy, q.rules, TRUE)
IsFoundByForm(q) ==
  \E category \in CategoriesOf(q.profile) : IsFoundAs(Searched(NoForm, q.profile, category), NoWords, q)
IsFoundInWords(q) ==
  \E category \in CategoriesOf(q.profile) : \E word \in WordsOf(category) :
     IsFoundAs(NoForm, InWords(q.profile, category, word), q)

(* What becomes of an item after the gate. *)
FoundIn(program) ==
  [r \in ActiveRegion |-> RegionDecision(program.scope, ToSet(program.rules), r)]
AfterGate(gate, q) ==
  LET passed == gate.accepted # None
  IN [gate |-> gate, application |-> Normalize(q.policy).program.status,
      status |-> IF passed THEN Normalize(gate.accepted).status ELSE None,
      found |-> IF passed THEN FoundIn(Normalize(gate.accepted).program) ELSE None]

(* A verdict on the columns and the rules of one commit, of a later one,   *)
(* and of columns and rules of different ones.                             *)
VerdictsOn(q) ==
  LET decision(scope, rules) == RegionDecision(scope, ToSet(rules), q.query)
  IN [old |-> decision(q.old.scope, q.old.rules), new |-> decision(q.new.scope, q.new.rules),
      torn |-> decision(q.old.scope, q.new.rules)]

Answer(s, q) ==
  CASE s = "contract" ->
         [issues |-> SchemaIssues(q) \cup SemanticIssues(q), made |-> IsProgram(q)]
    [] s = "normalize" -> Normalize(q)
    [] s = "compare" ->
         Gate!Evaluate(q.candidate, Gate!Evidence(q.references, q.urls, {}), [records |-> q.records])
    [] s = "region" -> VerdictsOn(q)
    [] s = "profile" ->
         [recommended |-> IsRecommended(q.profile, q.policy, q.rules, TRUE),
          found |-> IsFoundByForm(q), said |-> IsFoundInWords(q)]
    [] s = "regional" ->
         AfterGate(DecideRegional(q.source, q, q.policy, q.policy.collected, TRUE), q)
    [] s = "admission" -> Admission(q.item, q.as_of, q.records)

Judge ==
  /\ style \in Judged
  /\ answer = None
  /\ answer' = Answer(style, question)
  /\ UNCHANGED <<style, question>>

JudgeInit == style \in Styles /\ question \in Questions(style) /\ answer = None
JudgeSpec == JudgeInit /\ [][Judge]_judgeVars

-----------------------------------------------------------------------------
(* What may be asked *)

(* RegionReference: every parent is known and no chain of parents comes    *)
(* back to where it began; one province lies in no other.                  *)
ASSUME TreeAssumption ==
  /\ IsFiniteSet(Region) /\ None \notin Region
  /\ ParentOf \in [Region -> Region \cup {None}]
  /\ \A S \in SUBSET Region : S # {} => \E r \in S : ParentOf[r] \notin S
  /\ Province \subseteq Region /\ ActiveRegion \subseteq Region
  /\ \A p, q \in Province : LiesIn(p, q) => p = q

(* _regional_context: a source stands for an active region and what lies   *)
(* in it; the full name of an active region names that region alone.       *)
ASSUME SourceAssumption ==
  /\ Expected \in ActiveRegion
  /\ Territory = {r \in Region : LiesIn(r, Expected)}
  /\ \A r \in Territory \cap ActiveRegion : Candidates(r) = {r}

IsEvidence(e) ==
  /\ e = RegionEvidence(e.relation, e.key) /\ e.relation \in RegionRelation /\ e.key # None
  /\ IsFiniteSet(Candidates(e.key)) /\ None \notin Candidates(e.key)
IsCoverage(k) ==
  /\ k.scope \in CoverageScope /\ RegionContract(k.scope, k.rules)
  /\ \A rule \in ToSet(k.rules) : rule.region \in Region \cup {None}
IsProfile(p) ==
  /\ p = [categories |-> p.categories, region |-> p.region, age |-> p.age, status |-> p.status]
  /\ None \notin p.categories /\ \A c \in p.categories : None \notin CategoryWord(c)

(* What is read of a period, and of the texts of an item: days and months  *)
(* are numbers, and only active regions have aliases.                      *)
IsPeriod(period) ==
  /\ period.dates \in Seq(Int \cup {Bad}) /\ period.plain \in Seq(Int \cup {Bad})
  /\ period.months \notin {None, Bad} => {period.months[1], period.months[2]} \subseteq Int
MeansActive(text) == text # None /\ text.whole # None => Candidates(text.whole) \subseteq ActiveRegion
IsItem(item) ==
  /\ MeansActive(item.detail.region) /\ MeansActive(item.listed.region)
  /\ "evidence" \in DOMAIN item.policy
  /\ item.policy.period # None => IsPeriod(item.policy.period)
  /\ Accepted(item.policy, Evidence(item.source, item)) # None

IsQuestion(s, q) ==
  CASE s = "normalize" -> q.evidence \in Seq(ToSet(q.evidence)) /\ \A e \in ToSet(q.evidence) : IsEvidence(e)
    [] s = "compare" -> [records |-> q.records] # None
    [] s = "region" -> IsCoverage(q.old) /\ IsCoverage(q.new) /\ q.query \in Region \cup {None}
    [] s = "profile" ->
         /\ IsProfile(q.profile)
         /\ q.profile.region # None =>
              None \notin {RegionCondition(q.profile.region, None), RegionCondition(None, q.profile.region)}
    [] s = "regional" -> IsItem(q)
    [] s = "admission" -> IsItem(q.item)
         /\ Normalize(AdmittedBy(Regional(q.item, q.as_of), q.item)).program # None
    [] OTHER -> TRUE

(* None is no answer and nothing that an answer is made of.                *)
ASSUME JudgementAssumption ==
  /\ None \notin Int /\ None # "zeros"
  /\ \A s \in Styles \cap Judged : \A q \in Questions(s) : IsQuestion(s, q)

-----------------------------------------------------------------------------
(* The validator and the constructor of NormalizedProgram state one        *)
(* contract in two forms: what one refuses the other refuses.              *)
ContractsAgree ==
  style = "contract" /\ answer # None => (answer.issues = {} <=> answer.made)

(* Whatever a source says, the normalizer makes a program that fulfils its *)
(* contract, except of region evidence that contradicts itself.            *)
NormalizerKeepsContract ==
  style = "normalize" /\ answer # None =>
    LET of(relation) == {e \in ToSet(question.evidence) :
                           e.relation = relation /\ Cardinality(Candidates(e.key)) = 1}
        named(es) == UNION {Candidates(e.key) : e \in es}
        contradicts == \/ of("include") = {} /\ of("exclude") # {}
                       \/ named(of("include")) \cap named(of("exclude")) # {}
    IN answer.status = "invalid" <=> contradicts

ContractIsKept == ContractsAgree /\ NormalizerKeepsContract

(* What the comparison lets in or drops, it has the right to.              *)
GateIsCautious ==
  style = "compare" /\ answer # None =>
    Gate!IsCautious(question.candidate, Gate!Evidence(question.references, question.urls, {}),
                    question.records, answer)

(* The regions in r that no other lies in.                                 *)
Districts(r) == {d \in Region : LiesIn(d, r) /\ ~\E k \in Region : ParentOf[k] = d}

UsableOf(rules, relation) == {rule \in rules : IsUsable(rule) /\ rule.relation = relation}
Covered(rules) == UNION {Districts(rule.region) : rule \in UsableOf(rules, "include")}
Excludes(rules, query) ==
  \E rule \in UsableOf(rules, "exclude") :
     LiesIn(query, rule.region) /\ Districts(query) \subseteq Districts(rule.region)
LeavesDoubt(rules, query) ==
  \E rule \in rules : ~IsUsable(rule) /\
    (rule.region = None \/ \E p \in ProvinceOf(rule.region) : Districts(p) \cap Districts(query) # {})

(* A region is refused only when nobody who lives there is covered and no  *)
(* rule is in doubt, and accepted only when somebody is: by the districts  *)
(* each rule stands for, whatever the levels of rule and query.            *)
VerdictIsSound ==
  style = "region" /\ answer # None /\ question.query # None /\ question.new.scope = "regional" =>
    LET rules == ToSet(question.new.rules)
        reached == Districts(question.query) \cap Covered(rules)
        excluded == Excludes(rules, question.query)
    IN CASE answer.new = "match" -> reached # {} /\ ~excluded
         [] answer.new = "mismatch" -> excluded \/ (reached = {} /\ ~LeavesDoubt(rules, question.query))
         [] OTHER -> ~excluded /\ reached = {}

(* Columns of one commit and rules of a later one never make a verdict     *)
(* that neither commit deserves, other than doubt.                         *)
TornReadIsHonest ==
  style = "region" /\ answer # None => answer.torn \in {answer.old, answer.new, "unknown"}

RegionVerdictIsSound == VerdictIsSound /\ TornReadIsHonest

(* A region that the parser takes a name for and that the name itself is   *)
(* an alias of: two ways to decide one name, the second by forms and       *)
(* recommendations.                                                        *)
ByParser(name) == Decided(Meant(name)[1])
ByAlias(name) == Decided(name)

(* Every category of the profile is named in the policy's texts.           *)
NamesCategories(q) ==
  \A category \in q.profile.categories : CategoryWord(category) \cap q.policy.words # {}

(* A profile is recommended what a search by form for the same conditions  *)
(* finds, but for policies of unknown status when it asks for one.  A      *)
(* search in words also looks for the word that names the category: it     *)
(* finds no policy that the form does not find, and misses one only where  *)
(* the texts do not hold that word, as long as the name of the region is   *)
(* decided alike; a name that only one of the two ways decides makes that  *)
(* way the narrower one.  Of a search for nothing, or for a name that is   *)
(* not of one region, nothing is said.                                     *)
SearchAndRecommendationAgree ==
  style = "profile" /\ answer # None /\ question.profile # SaysNothing
    /\ (question.profile.region # None => Len(Meant(question.profile.region)) = 1) =>
    LET name == question.profile.region
    IN /\ answer.recommended <=> /\ answer.found
                                 /\ question.profile.status # None => question.policy.status # None
       /\ (name # None => ByAlias(name) \in {None, ByParser(name)}) /\ answer.said => answer.found
       /\ (name # None => ByParser(name) \in {None, ByAlias(name)}) /\ NamesCategories(question)
            /\ answer.found => answer.said

(* A policy of a regional source enters on evidence of its own: a text of  *)
(* the policy names the province or a region in it, and a text of the      *)
(* policy or its ages say it is for the young; none says nationwide, and   *)
(* its region is no other one (RegionalSourceScopeEvidence: "never         *)
(* sufficient without item evidence").  No decision contradicts itself.    *)
ItemEvidenceDecides ==
  style = "regional" /\ answer # None => IsDecision(answer.gate) /\ (answer.gate.accepted # None =>
    LET fields == {"region", "target", "organization"}
        own == {question.detail[f] : f \in fields}
               \cup IF question.source = "gyeongbuk" THEN {question.listed[f] : f \in fields} ELSE {}
    IN /\ \E text \in own : Mentions(text)
       /\ question.youth \/ question.years
       /\ Meaning(question.detail.region) \in Territory \cup {None}
       /\ ~SaysNationwide(question.detail.region) /\ ~SaysNationwide(question.detail.target))

(* What the gate accepts the normalizer makes a regional program of, and a *)
(* search finds it everywhere in the province and in what the province is  *)
(* part of, and nowhere else.                                              *)
AcceptedIsFoundInItsProvince ==
  style = "regional" /\ answer # None /\ answer.gate.accepted # None =>
    /\ answer.status \in {"valid", "partial"}
    /\ \A r \in DOMAIN answer.found :
         answer.found[r] = IF r \in Territory \/ LiesIn(Expected, r) THEN "match" ELSE "mismatch"

(* Where both patterns match the same dates, the gate and the normalizer   *)
(* read a period alike: what the gate lets pass as open is not scheduled   *)
(* or closed afterwards, but for a single day without "until".  A date in  *)
(* words, which only the gate sees, is for OnlyOpenGoesOn.                 *)
GateAgreesOnPeriods ==
  style = "regional" /\ answer # None /\ question.policy.period # None
    /\ question.policy.period.plain = question.policy.period.dates
    /\ (Len(question.policy.period.dates) = 1 => "until" \in question.policy.period.words) =>
    (answer.gate.application = "open" => answer.application \in {"open", None})

(* normalization_rules.md: only what is open now goes on to the normalizer;*)
(* scheduled and closed policies do not.                                   *)
OnlyOpenGoesOn ==
  style = "regional" /\ answer # None =>
    (answer.gate.accepted # None => answer.application \notin {"scheduled", "closed"})

IsEarned(accepted, n) ==
  /\ question.item.identified /\ question.item.checkpoint = "review"
  /\ question.item.youth \/ "youth_target_confirmed" \in question.item.original
  /\ n.status # "invalid"
  /\ DuplicateOf(accepted, n.program, question.records) = "accepted"
PromotesWhatIsEarned(gate) ==
  LET earned == /\ gate.accepted # None
                /\ gate.reasons \cap OpenReasons # {}
                /\ IsEarned(gate.accepted, Normalize(gate.accepted))
  IN /\ answer.outcome = "promote_partial" <=> earned
     /\ earned => answer.program = Normalize(gate.accepted).program

(* A candidate is promoted when the gate of the day, the normalizer and the*)
(* comparison all let it pass, although they are asked one after another   *)
(* and each with the others taken for granted.                             *)
AdmissionIsEarned ==
  style = "admission" /\ answer # None =>
    PromotesWhatIsEarned(Regional(question.item, question.as_of))

(* A regional policy enters on evidence of its own, by the gate or by a    *)
(* review: what the gate lets through has it, and what a review promotes   *)
(* passed the gate, the normalizer and the comparison.                     *)
EntryIsEarned == /\ ItemEvidenceDecides /\ AcceptedIsFoundInItsProvince
                 /\ GateAgreesOnPeriods /\ AdmissionIsEarned
=============================================================================

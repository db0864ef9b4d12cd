----------------------------- MODULE MCPipeline -----------------------------
(***************************************************************************)
(* Small instances of the pipeline from extracted policies to released     *)
(* programs.  The style says which part is at work: the import gate of a   *)
(* regional source (RuntimeGate), a review (ReviewAdmission), the release  *)
(* of a public dataset (PublicRelease), the acceptance snapshot, or one    *)
(* judgement of a pure part on every question of a bounded set.            *)
(***************************************************************************)
EXTENDS Judgement, PublicRelease, AcceptanceSnapshot, TLC

CONSTANTS r1, r2, p1, p2, t1, t2, longer, o1, s1, u1, u2, g1, g2

pipelineVars == <<gateVars, releaseVars, reviewVars, acceptanceVars, judgeVars>>

-----------------------------------------------------------------------------
(* Regions by name: two names of one region, one of two, one of none; the  *)
(* regions of a province and beyond by their full names.                   *)
Named(key) ==
  CASE key \in {"one", "alias"} -> {r1}
    [] key = "two" -> {r2}
    [] key = "both" -> {r1, r2}
    [] key = "twin" -> {"D1", "E"}
    [] key \in {"N", "P", "C", "D1", "D2", "Q", "E"} -> {key}
    [] OTHER -> {}
HoldsTitle(long, short) == long = longer /\ short = t1

-----------------------------------------------------------------------------
(* Questions *)

RulesOfAll == [relation : RegionRelation, resolution : RegionResolutionStatus,
               region : {None, r1, r2}, source : {None, "text"}]
Ranges(low, high) == {<<None, None>>, <<low, None>>, <<None, high>>, <<low, high>>, <<high, low>>}

Stated(rs, scope, dates, ages) ==
  [rules |-> rs, scope |-> scope, start |-> dates[1], end |-> dates[2],
   age_min |-> ages[1], age_max |-> ages[2]]
ContractQuestions ==
  {Stated(rs, scope, <<None, None>>, <<None, None>>) :
     rs \in BoundedSeq(RulesOfAll, 2), scope \in CoverageScope}
  \cup {Stated(<<>>, "unknown", dates, ages) :
          dates \in Ranges(1, 2), ages \in Ranges(19, 34) \cup {<<151, None>>, <<None, 151>>}}

Extracted(period, age, evidence) ==
  [period |-> period, collected |-> 2, age |-> age, placeholder |-> TRUE,
   categories |-> <<{"job"}>>, region_text |-> None, evidence |-> evidence,
   nationwide |-> FALSE]
Days == {1, 2, 3, Bad}
InNumbers(words, dates) == Period(words, dates, dates, None)
Months(months) == Period({}, <<>>, <<>>, months)
Periods == {None}
  \cup {InNumbers(words, dates) :
          words \in {{}, {"always"}, {"until"}, {"fixed"}}, dates \in BoundedSeq(Days, 3)}
  \cup {Months(months) : months \in {Bad, <<1, 3>>, <<3, 1>>}}
AgeTexts == {None, Age(TRUE, <<>>, {})}
  \cup {Age(FALSE, numbers, marks) :
          numbers \in BoundedSeq({0, 19, 34, 151}, 3),
          marks \in {{}, {"range"}, {"from"}, {"to"}}}
EvidenceOfAll == {RegionEvidence(relation, key) :
                    relation \in RegionRelation, key \in {"one", "alias", "two", "both", "none"}}
NormalizeQuestions ==
  {Extracted(period, None, <<>>) : period \in Periods}
  \cup {Extracted(None, age, <<>>) : age \in AgeTexts}
  \cup {Extracted(None, None, evidence) : evidence \in BoundedSeq(EvidenceOfAll, 3)}

Fields == [title : {t1, t2}, organization : {None, o1}, regions : {{}, {r1}},
           start : {None, 1}, end : {None, 2}, support : {None, s1}]
OneField == {f \in Fields : f.organization = o1 /\ f.regions = {r1} /\ f.start = 1}
CompareQuestions ==
  {[candidate |-> c, references |-> references, urls |-> urls,
    records |-> {Gate!BaselineRecord(g1, [f EXCEPT !.title = title] @@ [urls |-> {u1}], f.regions),
                 Gate!BaselineRecord(g2, d @@ [urls |-> of2], d.regions)}] :
     c \in OneField, f \in Fields, title \in {t1, longer}, d \in {e \in OneField : e.end = 2},
     references \in {{}, {g1}}, urls \in {{}, {u1}, {u2}}, of2 \in {{}, {u1}}}

(* A country, a province in it with a city of two districts, and one with  *)
(* a district and a retired one.                                           *)
Regions == {"N", "P", "C", "D1", "D2", "Q", "E", "X"}
Above == [r \in Regions |-> CASE r \in {"D1", "D2"} -> "C" [] r = "C" -> "P"
                              [] r \in {"E", "X"} -> "Q" [] r = "P" -> "N" [] OTHER -> None]
AliasOf(name) ==
  CASE name \in Regions \ {"X"} -> {name} [] name = "twin" -> {"D1", "E"}
    [] name = "moved" -> {"E"} [] OTHER -> {}

(* A shorthand, a name of a retired region, and one of a retired region    *)
(* that is an alias of another.                                            *)
NameMeans(name) ==
  CASE name \in Regions \ {"X"} -> <<name>> [] name = "short" -> <<"D1">>
    [] name \in {"retired", "moved"} -> <<"X">>
    [] name = "twin" -> <<"D1", "E">> [] OTHER -> <<>>
WordOfCategory(category) ==
  CASE category = "job" -> {"work", "hiring"} [] category = "home" -> {"rent"} [] OTHER -> {}

TerritoryOfP == {r \in Regions : LiesIn(r, "P")}

Ruling == {RegionRule(relation, "matched", r, "text") : relation \in RegionRelation, r \in Regions \ {"D2"}}
  \cup {RegionRule(relation, "unmapped", None, "text") : relation \in RegionRelation}
Coverages == {k \in [scope : CoverageScope, rules : {rs \in BoundedSeq(Ruling, 2) : Len(rs) < 2 \/ rs[1] # rs[2]}] :
                RegionContract(k.scope, k.rules)}
RegionQuestions ==
  [old : {k \in Coverages : Len(k.rules) < 2}, new : Coverages,
   query : {"N", "P", "C", "D1", "E", None}]

Policies ==
  [quality : {"partial"}, status : {None, "open", "closed"}, age : {None, "unlimited"},
   age_min : {None, 0}, age_max : {None, 0, 34}, categories : {{}, {"job"}, {"home"}},
   scope : {"regional"}, words : {{}, {"hiring"}, {"rent"}, {"work", "rent"}}]
ProfileQuestions ==
  [policy : Policies, rules : {{RegionRule("include", "matched", r, "text")} : r \in {"C", "E"}},
   profile : [categories : {{}, {"job"}, {"job", "home"}}, region : {None, "D1", "short", "retired", "moved"},
              age : {None, 25, 40}, status : {None, "open", "closed"}]]

(* Policies of a regional source: what texts may say of regions, and all   *)
(* that a period may say.                                                  *)
OfProvince == Text({"P"}, None, FALSE)
RegionTexts == {None, Text({"P"}, "P", FALSE), Text({"P", "D1"}, "D1", FALSE), Text({"E"}, "E", FALSE),
                Text({"twin"}, "twin", FALSE), Text({"P", "E"}, None, FALSE), Text({}, None, TRUE)}
Accepting == InNumbers({"accepting"}, <<>>)
GatePeriods == {None, Bad}
  \cup {Period(words, <<1, 3>>, plain, None) : plain \in {<<>>, <<1>>, <<3>>}, words \in {{}, {"until"}}}
  \cup {Period(words, <<day>>, <<>>, None) : day \in Days, words \in {{}, {"until"}, {"accepting"}}}
  \cup {InNumbers(words, dates) : dates \in BoundedSeq(Days, 3),
          words \in {w \in SUBSET {"closed", "ended", "always", "budget", "accepting", "available", "until"} :
                     Cardinality(w) <= 2}}
  \cup {Months(months) : months \in {Bad, <<1, 1>>, <<1, 3>>, <<3, 1>>, <<3, 3>>}}
Regionally(source, region, target, organization, scope, youth, years, period) ==
  [source |-> source, detail |-> [region |-> region, target |-> target, organization |-> organization],
   listed |-> [region |-> OfProvince, target |-> None, organization |-> OfProvince],
   scope |-> scope, youth |-> youth, years |-> years,
   policy |-> Extracted(period, None, <<>>)]
Scopes == {None, SourceScope(OfProvince, OfProvince, TRUE, TRUE),
           SourceScope(OfProvince, Text({"E"}, None, FALSE), TRUE, TRUE),
           SourceScope(OfProvince, OfProvince, FALSE, FALSE)}
RegionalQuestions ==
  {Regionally(source, region, target, organization, scope, youth[1], youth[2], period) :
     source \in {"gyeongbuk", "busan", "gwangju", "incheon"},
     region \in RegionTexts, target \in RegionTexts, organization \in RegionTexts, scope \in Scopes,
     youth \in {<<TRUE, FALSE>>, <<FALSE, TRUE>>, <<FALSE, FALSE>>}, period \in {None, Accepting}}
  \cup {Regionally("daegu", OfProvince, OfProvince, OfProvince, scope, TRUE, FALSE, period) :
          scope \in Scopes, period \in GatePeriods \ {Bad}}

(* Candidates of a review: by evidence, by period and day, by comparison.  *)
Reviewed(item, checkpoint, original, title, urls, identified) ==
  [item EXCEPT !.policy = @ @@ [title |-> title, organization |-> o1, support |-> s1,
                                references |-> {}, urls |-> urls, announcements |-> {}]]
    @@ [checkpoint |-> checkpoint, original |-> original, identified |-> identified]
ReviewItem(region, organization, youth, period, title, urls) ==
  Reviewed(Regionally("gwangju", region, None, organization, None, youth, FALSE, period),
           "review", {"youth_target_unconfirmed"}, title, urls, TRUE)
Compare == [title |-> t1, organization |-> o1, start |-> None, end |-> 3, support |-> s1, urls |-> {u1}]
AdmissionQuestions ==
  {[item |-> ReviewItem(region, organization, youth, period, title, urls), as_of |-> as_of,
    records |-> {Duplicates!BaselineRecord(g1, Compare, {"P"})}] :
     region \in RegionTexts, organization \in RegionTexts, youth \in BOOLEAN, as_of \in {2, 3},
     period \in {None, Accepting} \cup {InNumbers({}, dates) : dates \in BoundedSeq(Days, 2)}
              \cup {Period({}, <<1, 3>>, <<3>>, None)},
     title \in {t1, t2}, urls \in {{}, {u1}}}

-----------------------------------------------------------------------------
(* The gate: both policies of the batch fall under the same comparisons.   *)
OfSource(id, title, evidence, references) ==
  Extracted(InNumbers({"always"}, <<>>), Age(TRUE, <<>>, {}), evidence)
    @@ [id |-> id, title |-> title, organization |-> o1, support |-> s1,
        references |-> references, urls |-> {}, announcements |-> {}]
First == OfSource(p1, t1, <<RegionEvidence("include", "one")>>, {})
Second == OfSource(p2, t2, <<RegionEvidence("include", "two"), RegionEvidence("include", "both")>>, {})
Repeated == OfSource(p2, t2, <<RegionEvidence("include", "two")>>, {g2})
Torn == OfSource(p2, t2, <<RegionEvidence("exclude", "two")>>, {})
GateBatches == {<<>>, <<First, Second>>, <<Repeated, First>>, <<Torn, First>>}
Offered(title, regions) ==
  [policy |-> [title |-> title, organization |-> o1, start |-> None, end |-> None,
               support |-> s1, urls |-> {u1}], regions |-> regions]
GateOffers == {Offered(t1, {r1}), Offered(longer, {r2})}

-----------------------------------------------------------------------------
(* The review: two policies of two sources, each with evidence that is and *)
(* that is not good enough; one of them may repeat an aggregator's, and    *)
(* one lacks nothing but a period that can be read.                        *)
Items ==
  [k \in {"good", "repeats", "other", "vague", "warned"} |->
     CASE k = "repeats" -> ReviewItem(OfProvince, OfProvince, TRUE, Accepting, t1, {})
       [] k = "warned" ->
            [ReviewItem(OfProvince, OfProvince, TRUE, Accepting, t2, {})
               EXCEPT !.policy.age = Age(TRUE, <<>>, {})]
       [] k = "vague" -> ReviewItem(None, OfProvince, TRUE, Accepting, t2, {})
       [] OTHER -> ReviewItem(OfProvince, OfProvince, TRUE, Accepting, t2, {})]
ItemsUnder == p1 :> {"repeats", "good"} @@ p2 :> {"vague", "other", "warned"}
SourceOfReview == p1 :> "x" @@ p2 :> "y"
Known == "empty" :> {} @@ "like" :> {Duplicates!BaselineRecord(g1, Compare, {"P"})}

-----------------------------------------------------------------------------
(* The release *)
Kept(scope, rs, categories, safe, warnings) ==
  [program |-> [start |-> None, end |-> None, schedule |-> "always", status |-> "open",
                period |-> "text", age_min |-> None, age_max |-> None, age |-> "unlimited",
                categories |-> categories, regions |-> {r1}, scope |-> scope, rules |-> rs,
                quality |-> "valid"],
   warnings |-> warnings, safe |-> safe]
ReleaseContents ==
  {Kept("regional", <<RegionRule("include", "matched", r1, "text")>>, {"job"}, TRUE, {"unmapped_category"}),
   Kept("nationwide", <<>>, {"job"}, TRUE, {}),
   Kept("nationwide", <<>>, {}, FALSE, {})}
SourcesOf == p1 :> "bokjiro" @@ p2 :> "youthcenter"

ExpectedRowCounts == [t \in {"collection_runs", "policies", "policy_region_rules"} |-> 1]

-----------------------------------------------------------------------------
QuestionsOf(s) ==
  CASE s = "contract" -> ContractQuestions
    [] s = "normalize" -> NormalizeQuestions
    [] s = "compare" -> CompareQuestions
    [] s = "region" -> RegionQuestions
    [] s = "profile" -> ProfileQuestions
    [] s = "regional" -> RegionalQuestions
    [] s = "admission" -> AdmissionQuestions
    [] OTHER -> {None}

PipelineInit ==
  /\ JudgeInit /\ GateInit /\ ReleaseInit /\ ReviewInit /\ AcceptanceInit
PipelineNext ==
  \/ /\ style = "gate" /\ GateNext
     /\ UNCHANGED <<releaseVars, judgeVars, reviewVars, acceptanceVars>>
  \/ /\ style = "release" /\ ReleaseNext
     /\ UNCHANGED <<gateVars, judgeVars, reviewVars, acceptanceVars>>
  \/ /\ style = "review" /\ ReviewNext
     /\ UNCHANGED <<gateVars, judgeVars, releaseVars, acceptanceVars>>
  \/ /\ style = "acceptance" /\ AcceptanceNext
     /\ UNCHANGED <<gateVars, judgeVars, releaseVars, reviewVars>>
  \/ Judge /\ UNCHANGED <<gateVars, releaseVars, reviewVars, acceptanceVars>>
PipelineSpec == PipelineInit /\ [][PipelineNext]_pipelineVars

=============================================================================

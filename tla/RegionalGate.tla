----------------------------- MODULE RegionalGate -----------------------------
(***************************************************************************)
(* What makes a policy of a regional portal a regional policy that can be  *)
(* applied for today (regional_policy_gate.py), and how the sources hand   *)
(* their captures to that gate.  A text is the aliases of regions that     *)
(* occur in it, the one it is as a whole or None, and whether it says      *)
(* nationwide; a period is that of Normalization, with more words.         *)
(***************************************************************************)
EXTENDS Normalization

CONSTANTS Expected,      \* the region the source is responsible for
          Territory,     \* Expected and the regions in it
          MoreAliases    \* additional_region_aliases of the source

RegionalityStatus == {"regional_confirmed", "regional_review_required", "non_regional"}
ApplicationAvailability == {"open", "scheduled", "closed", "review_required"}

Text(names, whole, nationwide) ==
  [names |-> names, whole |-> whole, nationwide |-> nationwide]

-----------------------------------------------------------------------------
(* Evidence *)

(* The scope of a source, from the list it publishes; it is no evidence    *)
(* without a jurisdiction and an operator.                                 *)
SourceScope(jurisdiction, operator, youth, accepting) ==
  [jurisdiction |-> jurisdiction, operator |-> operator, youth |-> youth,
   accepting |-> accepting]
IsScope(scope) == scope.jurisdiction # None /\ scope.operator # None

(* The Gyeongbuk portal has a list and a detail page, the detail first.    *)
(* The others have a detail page, whose scope may come with it.            *)
FirstOf(a, b) == IF a # None THEN a ELSE b
Evidence(source, item) ==
  LET text(f) == IF source = "gyeongbuk" THEN FirstOf(item.detail[f], item.listed[f])
                 ELSE item.detail[f]
  IN [region |-> text("region"), target |-> text("target"), organization |-> text("organization"),
      scope |-> IF source \in {"gyeongbuk", "busan", "seoul"} THEN None ELSE item.scope]

(* The pairs with the organization that are enough for a source.           *)
Enough(source) ==
  CASE source = "gwangju" -> {"region"}
    [] source \in {"incheon", "gangwon", "seoul browser", "ulsan", "jeju"} -> {"target"}
    [] OTHER -> {}

-----------------------------------------------------------------------------
(* Regionality *)

Names(k) == Cardinality(Candidates(k)) = 1 /\ Candidates(k) \subseteq Territory
Mentions(text) == text # None /\ \E k \in text.names : Names(k) \/ k \in MoreAliases
SaysNationwide(text) == text # None /\ text.nationwide

(* The region a text is an alias of, and of no other. *)
Meaning(text) ==
  IF text # None /\ text.whole # None /\ Cardinality(Candidates(text.whole)) = 1
  THEN CHOOSE r \in Candidates(text.whole) : TRUE ELSE None

Confirmed(text, reason) == IF Mentions(text) THEN {reason} ELSE {}

ScopeNames(scope) ==
  scope # None /\ IsScope(scope) /\ Mentions(scope.jurisdiction) /\ Mentions(scope.operator)

IsConfirmed(e, enough) ==
  \/ Mentions(e.region) /\ Mentions(e.target) /\ Mentions(e.organization)
  \/ Mentions(e.organization) /\ \E f \in enough : Mentions(e[f])

(* mutant: the scope of the source is enough *)
IsConfirmedByScopeAlone(e) == ScopeNames(e.scope)

IsConfirmedByScope(e) ==
  ScopeNames(e.scope) /\ (Mentions(e.target) \/ Mentions(e.organization))

Regionality(e, enough) ==
  IF SaysNationwide(e.region) \/ SaysNationwide(e.target) THEN
         [status |-> "non_regional", reasons |-> {"nationwide_republication"}]
  ELSE IF Meaning(e.region) \notin Territory \cup {None} THEN
         [status |-> "non_regional", reasons |-> {"other_region_policy"}]
  ELSE IF IsConfirmed(e, enough) THEN
         [status |-> "regional_confirmed",
          reasons |-> Confirmed(e.region, "source_region_confirmed")
                        \cup Confirmed(e.target, "target_region_confirmed")
                        \cup Confirmed(e.organization, "implementing_region_confirmed")]
  ELSE IF IsConfirmedByScope(e) THEN
         [status |-> "regional_confirmed",
          reasons |-> {"source_scope_region_confirmed", "source_scope_operator_confirmed"}
                        \cup Confirmed(e.target, "target_region_confirmed")
                        \cup Confirmed(e.organization, "implementing_region_confirmed")]
  ELSE [status |-> "regional_review_required", reasons |-> {"insufficient_regional_evidence"}]

-----------------------------------------------------------------------------
(* Application *)

Availability(status, reason) == [status |-> status, reason |-> reason]

(* A single day is the last one. *)
Between(start, end, today) ==
  IF Reversed(start, end) THEN Availability("review_required", "application_period_invalid")
  ELSE IF start # None /\ today < start THEN Availability("scheduled", "application_not_started")
  ELSE IF today > end THEN Availability("closed", "application_period_ended")
  ELSE Availability("open", "application_period_open")

ScopeAccepts(scope) == scope # None /\ scope.accepting

OfNoDates(v, today, scope) ==
  IF v.months = Bad THEN Availability("review_required", "application_period_invalid")
  ELSE IF v.months # None THEN Between(v.months[1], v.months[2], today)
  ELSE IF v.words \cap {"accepting", "available"} # {} THEN
         Availability("open", "application_explicitly_open")
  ELSE IF ScopeAccepts(scope) THEN Availability("open", "source_scope_application_open")
  ELSE Availability("review_required", "application_period_unresolved")

(* mutant: words that close an application come after its dates *)
ApplicationByDates(v, today, scope) ==
  IF v # None /\ v.dates # <<>> /\ Bad \notin ToSet(v.dates) THEN
         IF Len(v.dates) >= 2 THEN Between(v.dates[1], v.dates[2], today)
         ELSE Between(None, v.dates[1], today)
  ELSE IF v # None /\ v.words \cap {"closed", "ended"} = {} THEN OfNoDates(v, today, scope)
  ELSE Availability("review_required", "application_period_missing")

Application(v, today, scope) ==
  IF v = None /\ ScopeAccepts(scope) THEN Availability("open", "source_scope_application_open")
  ELSE IF v = None THEN Availability("review_required", "application_period_missing")
  ELSE IF v.words \cap {"closed", "ended"} # {} THEN
         Availability("closed", "application_explicitly_closed")
  ELSE IF "always" \in v.words THEN Availability("open", "application_always_open")
  ELSE IF "budget" \in v.words /\ "accepting" \in v.words THEN
         Availability("open", "application_open_until_budget")
  ELSE IF "budget" \in v.words THEN Availability("review_required", "budget_exhaustion_state_unknown")
  ELSE IF Bad \in ToSet(v.dates) THEN Availability("review_required", "application_period_invalid")
  ELSE IF Len(v.dates) >= 2 THEN Between(v.dates[1], v.dates[2], today)
  ELSE IF Len(v.dates) = 1 THEN Between(None, v.dates[1], today)
  ELSE OfNoDates(v, today, scope)

-----------------------------------------------------------------------------
(* Decision *)

(* mutant: a policy of a district is one of that district only *)
AcceptedRegionsOfDistrict(text) == IF Meaning(text) = None THEN <<Expected>> ELSE <<Meaning(text)>>

(* The canonical region of the policy and the one the source stands for. *)
AcceptedRegions(text) ==
  IF Meaning(text) \in Territory \ {Expected} THEN <<Meaning(text), Expected>> ELSE <<Expected>>

Accepted(policy, e) ==
  [policy EXCEPT !.region_text = IF @ = None THEN <<AcceptedRegions(e.region)[1]>> ELSE @,
                 !.evidence = [k \in DOMAIN AcceptedRegions(e.region) |->
                                 RegionEvidence("include", AcceptedRegions(e.region)[k])]]

DecisionOn(policy, e, regionality, application) ==
  [regionality |-> regionality.status, application |-> application.status,
   reasons |-> regionality.reasons \cup {application.reason},
   accepted |-> IF regionality.status = "regional_confirmed" /\ application.status = "open"
                THEN Accepted(policy, e) ELSE None]
Evaluate(policy, e, enough, today) ==
  DecisionOn(policy, e, Regionality(e, enough), Application(policy.period, today, e.scope))

(* RegionalPolicyDecision refuses a decision that contradicts itself. *)
IsDecision(d) ==
  /\ (d.regionality = "regional_confirmed" /\ d.application = "open") <=> d.accepted # None
  /\ d.reasons # {}

SpeaksOfYouth(item, scope) ==
  item.youth \/ (scope # None /\ scope.youth /\ item.years)

EnforceYouthTarget(d, item, scope) ==
  IF SpeaksOfYouth(item, scope) THEN [d EXCEPT !.reasons = @ \cup {"youth_target_confirmed"}]
  ELSE [d EXCEPT !.regionality = IF d.accepted # None THEN "regional_review_required" ELSE @,
                 !.reasons = @ \cup {"youth_target_unconfirmed"},
                 !.accepted = None]

ForYouthOnly(d, item, scope, require_youth_target) ==
  IF require_youth_target THEN EnforceYouthTarget(d, item, scope) ELSE d

(* decide_*_regional_policy *)
DecideRegional(source, item, policy, today, require_youth_target) ==
  LET e == Evidence(source, item)
  IN ForYouthOnly(Evaluate(policy, e, Enough(source), today), item, e.scope,
                  require_youth_target)
=============================================================================

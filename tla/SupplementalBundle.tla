------------------------- MODULE SupplementalBundle -------------------------
(***************************************************************************)
(* The supplemental official sources: a collection asks for a list and for *)
(* at most three pages of details, of which several may be tabs of one     *)
(* policy; it verifies what it got as a whole and saves it document by     *)
(* document.  A replay selects a batch of what is stored, merges the pages *)
(* of each policy and decides whether the policy may enter.  A collection  *)
(* fails or dies anywhere, and the next one finds another list.            *)
(*                                                                         *)
(* A source is collected by one process at a time, which holds its lock.   *)
(* No caller asks for an offset into the details.  A page is what its      *)
(* parser finds on it, of what the decision looks at.                      *)
(***************************************************************************)
EXTENDS Integers, FiniteSets, Sequences, SequencesExt

CONSTANTS Nil,
          Identity,     \* what the list may name, in the order of names
          Young,        \* those whose titles name the young
          Lead,         \* the one with several pages (intro, scholarship05_04_01)
          Required,     \* evidence a decision needs, but for the availability
          PagesOf,      \* kind of source -> what a request may be answered with
          DetailLimit,  \* detail_limit of a collection
          MaxGathers,   \* bound: collections
          LastDay       \* bound: days

ASSUME BundleAssumption ==
  /\ Identity \subseteq Nat /\ Lead \in Identity /\ Young \subseteq Identity
  /\ DetailLimit \subseteq 0 .. 3

(* What parsers find: a status of their own or a period of days and words. *)
ASSUME PagesAssumption ==
  /\ Nil \notin {"open", "closed", "dated", "unknown"}
  /\ \A k \in {"pages", "tabs", "cards"} : \A page \in PagesOf[k] :
       /\ page.status \in {Nil, "open", "closed"}
       /\ page.period # Nil => page.period.ranges \subseteq Int \X Int

VARIABLES kind,     \* of the source: "pages", "tabs" (KOSAF) or "cards" (KPASS)
          day, gathers,
          gather,   \* the collection at work
          stored,   \* Raw documents of the source
          complete, \* its snapshot manifests
          verified  \* history: what each collection has verified

bundleVars == <<kind, day, gathers, gather, stored, complete, verified>>

-----------------------------------------------------------------------------
(* Pages: [title, status, shows, period], a period [ranges, word] or Nil.  *)
(* LH's pages may say "closed" and KPASS's "open" without a period.        *)

Ranges(period) == {r \in period.ranges : r[1] <= r[2]}

PeriodAvailability(period) ==
  CASE period = Nil -> "unknown"
    [] period # Nil /\ Ranges(period) # {} -> "dated"
    [] OTHER -> period.word
Availability(page) == IF page.status # Nil THEN page.status ELSE PeriodAvailability(page.period)

MergedAvailability(old, new) ==
  IF old \in {Nil, "unknown"} \/ new = "open" THEN new ELSE old

(* What the pages of a policy say together: the first that says something  *)
(* is heard, but an open application is heard before all.                  *)
Merge(pages) ==
  LET dated == {n \in DOMAIN pages : pages[n].period # Nil}
  IN [shows |-> UNION {p.shows : p \in ToSet(pages)},
      period |-> IF dated = {} THEN Nil ELSE pages[Min(dated)].period,
      availability |-> FoldLeft(LAMBDA old, p : MergedAvailability(old, Availability(p)), Nil, pages)]

(* _extract_detail_bundle: the title is that of the first page; KPASS's    *)
(* parser compares it on every page.                                       *)
TitleDrifts(pages) ==
  ~pages[1].title \/ (kind = "cards" /\ \E p \in ToSet(pages) : ~p.title)

ResolvedOnceDated(status, period, as_of) ==    \* mutant: dates are not compared
  IF status = "dated" THEN "open" ELSE status
Resolved(status, period, as_of) ==
  IF status # "dated" \/ period = Nil THEN status
  ELSE LET ranges == Ranges(period)
       IN CASE \E r \in ranges : r[1] <= as_of /\ as_of <= r[2] -> "open"
            [] ranges # {} /\ \A r \in ranges : as_of > r[2] -> "closed"
            [] OTHER -> "unknown"

(* decide_supplemental_policy, on the day its last document was collected. *)
Decide(merged, as_of) ==
  LET availability == Resolved(merged.availability, merged.period, as_of)
  IN CASE availability = "closed" -> "closed"
       [] availability = "open" /\ Required \subseteq merged.shows -> "accepted"
       [] OTHER -> "review"

-----------------------------------------------------------------------------
(* Raw documents: lists and items of a collection, and details, numbered   *)
(* in the order of their requests.                                         *)

ListRaw(g) == [role |-> "list_response", of |-> g]
ItemRaw(g, i) == [role |-> "list_item", of |-> g, item |-> i]
DetailRaw(g, i, nr, page) ==
  [role |-> "detail_response", of |-> g, item |-> i, nr |-> nr, page |-> page, day |-> day]

Role(docs, role) == {d \in docs : d.role = role}
ItemsIn(docs) == {d.item : d \in docs}
IsNewer(d, e) == d.of > e.of \/ (d.of = e.of /\ d.nr > e.nr)

(* _roles_by_identity: the pages of a policy in the order they came.       *)
InOrder(docs) ==
  CHOOSE s \in [1 .. Cardinality(docs) -> docs] :
    \A m, n \in DOMAIN s : m < n => IsNewer(s[n], s[m])
BundleOf(details, i) == InOrder({d \in details : d.item = i})
PagesIn(documents) == [n \in DOMAIN documents |-> documents[n].page]

(* SupplementalOfficialExtractor.extract, and the decision on each policy. *)
Extract(batch) ==
  LET bundle(i) == BundleOf(batch.details, i)
  IN IF \/ batch.items = {} \/ batch.details = {}
        \/ ~(ItemsIn(batch.details) \subseteq ItemsIn(batch.items))
        \/ \E i \in ItemsIn(batch.details) : TitleDrifts(PagesIn(bundle(i)))
     THEN Nil
     ELSE [i \in ItemsIn(batch.details) |->
             Decide(Merge(PagesIn(bundle(i))), Last(bundle(i)).day)]

-----------------------------------------------------------------------------
(* The collection *)

Idle == gather = Nil

(* _detail_plan: the tabs of the one policy that has several, or one page  *)
(* each of the first policies, those for the young before others.          *)
Plan(items, limit) ==
  LET before(i, j) == \/ i \in Young /\ j \notin Young
                      \/ (i \in Young <=> j \in Young) /\ i < j
      ordered == SetToSortSeq(items, before)
      tabs == CASE kind = "cards" -> IF items = {Lead} THEN <<Lead, Lead>> ELSE <<>>
                [] kind = "tabs" -> IF Lead \in items THEN <<Lead, Lead, Lead>> ELSE <<>>
                [] OTHER -> ordered
  IN SubSeq(tabs, 1, IF limit < Len(tabs) THEN limit ELSE Len(tabs))

(* The list is answered with some of the identities; the first of them are *)
(* taken, all of them for a snapshot.                                      *)
GatherList(listed, limit, details, whole) ==
  /\ Idle /\ gathers < MaxGathers
  /\ listed # {}
  /\ gathers' = gathers + 1
  /\ LET items == IF whole THEN listed
                  ELSE {i \in listed : Cardinality({j \in listed : j < i}) < limit}
     IN gather' = [phase |-> "details", whole |-> whole, items |-> items,
                   plan |-> Plan(items, details), details |-> {}, unsaved |-> {}]
  /\ UNCHANGED <<kind, day, stored, complete, verified>>

GatherDetail(page) ==
  /\ ~Idle /\ gather.phase = "details" /\ gather.plan # <<>>
  /\ gather' = [gather EXCEPT
       !.plan = Tail(@),
       !.details = @ \cup {DetailRaw(gathers, Head(gather.plan), Cardinality(@) + 1, page)}]
  /\ UNCHANGED <<kind, day, gathers, stored, complete, verified>>

ItemsRaw == {ItemRaw(gathers, i) : i \in gather.items}

(* All the documents are extracted once before the first of them is saved. *)
Verify ==
  /\ ~Idle /\ gather.phase = "details" /\ gather.plan = <<>>
  /\ LET drifts == /\ gather.details # {}
                   /\ Extract([items |-> ItemsRaw, details |-> gather.details]) = Nil
     IN IF drifts
        THEN gather' = Nil /\ UNCHANGED verified
        ELSE /\ gather' = [gather EXCEPT !.phase = "save",
                             !.unsaved = {ListRaw(gathers)} \cup ItemsRaw \cup gather.details]
             /\ verified' = verified \cup
                  {[of |-> gathers, items |-> ItemsRaw, details |-> gather.details]}
  /\ UNCHANGED <<kind, day, gathers, stored, complete>>

(* The list is saved first, then its items, then the details as they came. *)
IsSavedBefore(d, e) ==
  \/ d.role = "list_response"
  \/ d.role = "list_item" /\ e.role = "list_item" /\ d.item < e.item
  \/ d.role = "list_item" /\ e.role = "detail_response"
  \/ d.role = "detail_response" /\ e.role = "detail_response" /\ d.nr < e.nr

SaveRaw ==
  /\ ~Idle /\ gather.phase = "save"
  /\ \E d \in gather.unsaved :
       /\ \A e \in gather.unsaved \ {d} : IsSavedBefore(d, e)
       /\ stored' = stored \cup {d}
       /\ gather' = [gather EXCEPT !.unsaved = @ \ {d}]
  /\ UNCHANGED <<kind, day, gathers, complete, verified>>

(* A collection of the whole list ends with a manifest of its documents.   *)
EndGather ==
  /\ ~Idle /\ gather.phase = "save" /\ gather.unsaved = {}
  /\ gather' = Nil
  /\ complete' = IF gather.whole
                 THEN complete \cup {[of |-> gathers, details |-> gather.details]}
                 ELSE complete
  /\ UNCHANGED <<kind, day, gathers, stored, verified>>

(* A request fails for good, or the process dies.                          *)
GatherFails == ~Idle /\ gather' = Nil /\ UNCHANGED <<kind, day, gathers, stored, complete, verified>>

NextDay == day < LastDay /\ day' = day + 1
           /\ UNCHANGED <<kind, gathers, gather, stored, complete, verified>>

-----------------------------------------------------------------------------
(* The replay *)

OneDetailOfEach(details) ==     \* mutant: of each policy the newest page
  {d \in details : ~\E e \in details : e.item = d.item /\ IsNewer(e, d)}
DetailsOfManifest(details) == details

(* _snapshot_batch: what the manifest names.                               *)
SnapshotBatch(m) ==
  [items |-> {d \in Role(stored, "list_item") : d.of = m.of},
   details |-> DetailsOfManifest(m.details)]

NotOlderAnything(d, list) == TRUE   \* mutant: older details are not left out
NotOlder(d, list) == d.of >= list.of

(* _latest_batch: the newest list, its items, and of each the newest of    *)
(* the details that are not older than the list.                           *)
LatestBatch ==
  LET lists == Role(stored, "list_response")
      list == CHOOSE l \in lists : \A k \in lists : k.of <= l.of
      items == {d \in Role(stored, "list_item") : d.of = list.of}
      details == {d \in Role(stored, "detail_response") :
                    d.item \in ItemsIn(items) /\ NotOlder(d, list)}
  IN [items |-> items,
      details |-> {d \in details : ~\E e \in details : e.item = d.item /\ IsNewer(e, d)}]

HasLatest == Role(stored, "list_response") # {}

-----------------------------------------------------------------------------
BundleInit ==
  /\ kind \in {"pages", "tabs", "cards"}
  /\ day = 1 /\ gathers = 0
  /\ gather = Nil /\ stored = {} /\ complete = {} /\ verified = {}

BundleNext ==
  \/ \E listed \in SUBSET Identity, details \in DetailLimit, limit \in 1 .. Cardinality(Identity),
        whole \in BOOLEAN : GatherList(listed, limit, details, whole)
  \/ \E page \in PagesOf[kind] : GatherDetail(page)
  \/ Verify \/ SaveRaw \/ EndGather \/ GatherFails
  \/ NextDay

BundleSpec == BundleInit /\ [][BundleNext]_bundleVars

-----------------------------------------------------------------------------
(* Properties *)

(* A replay of a snapshot decides what its collection verified: on all the *)
(* pages of a policy together, whatever was collected before and since.    *)
SnapshotDecidesOnTheBundle ==
  \A m \in complete : \E v \in verified :
    v.of = m.of /\ Extract(SnapshotBatch(m)) = Extract(v)

(* A replay of the latest batch takes the details of the collection that   *)
(* made the list, or none: a collection that died or asked for fewer pages *)
(* is not filled up from an older one.                                     *)
LatestIsOfOneCollection ==
  HasLatest => Cardinality({d.of : d \in LatestBatch.items \cup LatestBatch.details}) <= 1

(* What a replay accepts is open on the day its last page was collected,   *)
(* by a page of its own: pages merged into one do not make a policy open   *)
(* that none of them says is.                                              *)
SaysOpen(page, on) ==
  LET p == page.period
  IN /\ page.status # "closed"
     /\ \/ page.status = "open"
        \/ p # Nil /\ Ranges(p) = {} /\ p.word = "open"
        \/ p # Nil /\ \E r \in Ranges(p) : on \in r[1] .. r[2]
AcceptedIsOpenByAPage ==
  LET decided(batch) == Extract(batch)
      opened(batch) ==
        decided(batch) # Nil =>
          \A i \in DOMAIN decided(batch) :
            decided(batch)[i] = "accepted" =>
              LET bundle == BundleOf(batch.details, i)
              IN \E d \in ToSet(bundle) : SaysOpen(d.page, Last(bundle).day)
  IN /\ \A m \in complete : opened(SnapshotBatch(m))
     /\ HasLatest => opened(LatestBatch)
=============================================================================

------------------------- MODULE SnapshotCollection -------------------------
(***************************************************************************)
(* A complete collection of one source and its replay.  collect_snapshot   *)
(* pages through a list that changes meanwhile; the collector saves every  *)
(* answer as Raw documents; a manifest names the documents of a complete   *)
(* collection.  A replay reads the Raw directory and then a manifest, as   *)
(* another process may do while a collection runs.                         *)
(*                                                                         *)
(* Documents and manifests are files that appear whole (a link to a file   *)
(* that was synced) and are never deleted.  An answer of the source is     *)
(* well formed, though its total may lag behind its list; every other one  *)
(* ends the collection as an error.                                        *)
(***************************************************************************)
EXTENDS FiniteSets, Integers, Sequences, SequencesExt

CONSTANTS None,
          Item,       \* identities the source may list, numbered
          Start,      \* the list at first
          PageSize,   \* page_size
          Details,    \* detail_limit
          Budget,     \* request_budget
          Limit,      \* limits of the replays
          Lag,        \* how far the total of an answer may lag behind its list
          MaxRuns,    \* bound: collections
          MaxChanges  \* bound: changes of the source's list

ASSUME SnapshotAssumption ==
  /\ Item \subseteq Nat
  /\ Start \in Seq(Item)
  /\ PageSize \in 1 .. 500 /\ Details \in 0 .. 5 /\ Budget \in 1 .. 100
  /\ Limit \subseteq 1 .. 5000 /\ Lag \in Nat

VARIABLES listing,   \* the list of the source now
          changes,   \* number of its changes so far
          runs,      \* collections started
          pc, run,   \* the collection: where it is, and its local state
          raw,       \* Raw documents of the source
          manifests, \* snapshot manifests of the source
          rpc, replay

collection == <<pc, run>>
replaying == <<rpc, replay>>
vars == <<listing, changes, runs, pc, run, raw, manifests, rpc, replay>>

-----------------------------------------------------------------------------
(* Raw documents *)

(* An identity is the run that made the document and what it is of. *)
ListDoc(r, p) == [role |-> "list_response", run |-> r, page |-> p, item |-> None]
ItemDoc(r, p, i) == [role |-> "list_item", run |-> r, page |-> p, item |-> i]
DetailDoc(r, i) == [role |-> "detail_response", run |-> r, page |-> 1, item |-> i]

Children(docs, lists) ==
  {d \in docs : /\ d.role = "list_item"
                /\ \E l \in lists : l.run = d.run /\ l.page = d.page}
Items(docs) == {d.item : d \in docs}

(* One page of the list, as the source answers it. *)
PageOf(seq, page) ==
  SubSeq(seq, (page - 1) * PageSize + 1,
         IF page * PageSize < Len(seq) THEN page * PageSize ELSE Len(seq))

Listed == ToSet(listing)

-----------------------------------------------------------------------------
(* The source *)

Withdraw(at) ==
  /\ changes < MaxChanges
  /\ listing' = RemoveAt(listing, at)
  /\ changes' = changes + 1
  /\ UNCHANGED <<runs, collection, raw, manifests, replaying>>

Publish(i, at) ==
  /\ changes < MaxChanges
  /\ i \notin Listed
  /\ at \in 1 .. Len(listing) + 1
  /\ listing' = InsertAt(listing, at, i)
  /\ changes' = changes + 1
  /\ UNCHANGED <<runs, collection, raw, manifests, replaying>>

-----------------------------------------------------------------------------
(* The collection *)

Goto(where) == pc' = where

(* collect_snapshot starts with page 1 and nothing seen. *)
Begin ==
  /\ pc = "idle" /\ runs < MaxRuns
  /\ runs' = runs + 1
  /\ run' = [page |-> 1, total |-> None, seen |-> {}, lists |-> {},
             details |-> {}, requests |-> 0, answer |-> <<>>, reported |-> 0,
             changes |-> changes, exact |-> TRUE]
  /\ Goto("request")
  /\ UNCHANGED <<listing, changes, raw, manifests, replaying>>

PlannedDetails == IF run.page = 1 THEN Details ELSE 0

(* The list request of a page; it must fit in the budget together with the *)
(* details that are planned.                                               *)
RequestPage ==
  /\ pc = "request"
  /\ IF run.requests + 1 + PlannedDetails > Budget \/ PageOf(listing, run.page) = <<>>
     THEN Goto("idle") /\ UNCHANGED run
     ELSE /\ \E lag \in 0 .. Lag :
               /\ Len(listing) - lag >= Len(PageOf(listing, run.page))
               /\ run' = [run EXCEPT !.answer = PageOf(listing, run.page),
                                     !.reported = Len(listing) - lag,
                                     !.exact = @ /\ lag = 0]
          /\ Goto("list")
  /\ UNCHANGED <<listing, changes, runs, raw, manifests, replaying>>

SaveList ==
  /\ pc = "list"
  /\ raw' = raw \cup {ListDoc(runs, run.page)}
  /\ Goto("items")
  /\ UNCHANGED <<listing, changes, runs, run, manifests, replaying>>

Unsaved ==
  {i \in ToSet(run.answer) : ItemDoc(runs, run.page, i) \notin raw}

\* The first item of the answer that has no document yet.
IsNext(i) ==
  \E n \in 1 .. Len(run.answer) :
    /\ i = run.answer[n] /\ i \in Unsaved
    /\ \A k \in 1 .. n - 1 : run.answer[k] \notin Unsaved

SaveItem ==
  /\ pc = "items"
  /\ \/ Unsaved = {} /\ Goto("details") /\ UNCHANGED raw
     \/ /\ \E i \in Unsaved :
             IsNext(i) /\ raw' = raw \cup {ItemDoc(runs, run.page, i)}
        /\ UNCHANGED pc
  /\ UNCHANGED <<listing, changes, runs, run, manifests, replaying>>

WantedDetails ==
  ToSet(SubSeq(run.answer, 1,
               IF PlannedDetails < Len(run.answer) THEN PlannedDetails
               ELSE Len(run.answer)))

SaveDetailUnchecked ==          \* mutant: the identity is not compared
  /\ pc = "details"
  /\ IF Cardinality(run.details) >= Cardinality(WantedDetails)
     THEN Goto("accept") /\ UNCHANGED <<run, raw>>
     ELSE \E answered \in Listed :
            /\ raw' = raw \cup {DetailDoc(runs, answered)}
            /\ run' = [run EXCEPT !.details = @ \cup {DetailDoc(runs, answered)}]
            /\ UNCHANGED pc
  /\ UNCHANGED <<listing, changes, runs, manifests, replaying>>

(* Details of the first items of page 1: one request and document each.    *)
(* The source may answer with another item or, for one that is gone, with  *)
(* an error (see Fail); both end the collection.                           *)
SaveDetail ==
  /\ pc = "details"
  /\ IF WantedDetails \subseteq Items(run.details)
     THEN Goto("accept") /\ UNCHANGED <<run, raw>>
     ELSE \E wanted \in WantedDetails \ Items(run.details), answered \in Listed :
            IF answered = wanted
            THEN /\ raw' = raw \cup {DetailDoc(runs, answered)}
                 /\ run' = [run EXCEPT !.details = @ \cup {DetailDoc(runs, answered)}]
                 /\ UNCHANGED pc
            ELSE Goto("idle") /\ UNCHANGED <<run, raw>>
  /\ UNCHANGED <<listing, changes, runs, manifests, replaying>>

(* A request failed for good, or the process died. *)
Fail ==
  /\ pc # "idle"
  /\ Goto("idle")
  /\ UNCHANGED <<listing, changes, runs, run, raw, manifests, replaying>>

SameTotal == run.total = None \/ run.total = run.reported

RepeatsAllowed == TRUE          \* mutant: repeated items are merged
NoRepeats == ToSet(run.answer) \cap run.seen = {}

TotalSeen(seen) == Cardinality(seen)  \* mutant: what was seen is the total
Total(seen) == run.reported

RequiredPages == (run.reported + PageSize - 1) \div PageSize

(* The checks of collect_snapshot on an answer that was saved: it is the   *)
(* last one, there is another page, or the collection is an error.         *)
AcceptPage ==
  LET seen == run.seen \cup ToSet(run.answer)
      requests == run.requests + 1
                  + (IF run.page = 1 THEN Cardinality(WantedDetails) ELSE 0)
      more == /\ Cardinality(seen) < run.reported
              /\ Len(run.answer) = PageSize
              /\ requests + RequiredPages - run.page <= Budget
              /\ run.page < 1000
      accepted == [run EXCEPT !.seen = seen, !.requests = requests,
                              !.total = Total(seen),
                              !.lists = @ \cup {ListDoc(runs, run.page)}]
  IN  /\ pc = "accept"
      /\ IF ~SameTotal \/ ~NoRepeats \/ requests > Budget
         THEN Goto("idle") /\ UNCHANGED run
         ELSE IF Cardinality(seen) = Total(seen)
         THEN Goto("manifest") /\ run' = accepted
         ELSE IF more
         THEN Goto("request") /\ run' = [accepted EXCEPT !.page = @ + 1]
         ELSE Goto("idle") /\ UNCHANGED run
      /\ UNCHANGED <<listing, changes, runs, raw, manifests, replaying>>

(* The manifest checks its own counts and is linked into place. *)
SaveManifest ==
  /\ pc = "manifest"
  /\ Goto("idle")
  /\ IF /\ Cardinality(run.seen) = run.total /\ run.total > 0
        /\ run.requests = Cardinality(run.lists \cup run.details)
     THEN manifests' = manifests \cup
            {[run |-> runs, items |-> run.total, lists |-> run.lists,
              details |-> run.details,
              quiet |-> run.exact /\ run.changes = changes, listed |-> Listed]}
     ELSE UNCHANGED manifests
  /\ UNCHANGED <<listing, changes, runs, run, raw, replaying>>

-----------------------------------------------------------------------------
(* The replay *)

Latest == IF manifests = {} THEN None
          ELSE CHOOSE m \in manifests : \A n \in manifests : n.run <= m.run

(* _load_source_documents reads every document of the source ... *)
LoadDocuments(limit) ==
  /\ rpc = "idle"
  /\ raw # {}
  /\ rpc' = "loaded"
  /\ replay' = [limit |-> limit, docs |-> raw, known |-> manifests,
                manifest |-> None, items |-> {}, details |-> {},
                complete |-> FALSE]
  /\ UNCHANGED <<listing, changes, runs, collection, raw, manifests>>

(* ... and then the latest manifest, or the one it was told to use. *)
LoadManifest(m) ==
  /\ rpc = "loaded"
  /\ rpc' = "select"
  /\ replay' = [replay EXCEPT !.manifest = m]
  /\ UNCHANGED <<listing, changes, runs, collection, raw, manifests>>

(* The first documents in the order of pages and identities. *)
Before(d, e) == d.page < e.page \/ (d.page = e.page /\ d.item < e.item)
First(docs, limit) ==
  {d \in docs : Cardinality({e \in docs : Before(e, d)}) < limit}

CompleteWhenFound(m) == TRUE    \* mutant: the limit is not compared
CompleteWithin(m) == replay.limit >= m.items

MatchesUpToLimit(items, m) ==   \* mutant: the items are cut before they are counted
  Cardinality(First(items, replay.limit)) = m.items
MatchesManifest(items, m) ==
  Cardinality(items) = m.items /\ Cardinality(Items(items)) = m.items

(* _snapshot_batch: the documents of the manifest, all of them present. *)
SelectSnapshot ==
  LET m == replay.manifest
      items == Children(replay.docs, m.lists)
      chosen == First(items, replay.limit)
  IN  /\ rpc = "select" /\ m # None
      /\ IF m.lists \cup m.details \subseteq replay.docs /\ MatchesManifest(items, m)
         THEN /\ rpc' = "done"
              /\ replay' = [replay EXCEPT !.items = chosen,
                   !.details = {d \in m.details : d.item \in Items(chosen)},
                   !.complete = CompleteWithin(m)]
         ELSE rpc' = "missing" /\ UNCHANGED replay
      /\ UNCHANGED <<listing, changes, runs, collection, raw, manifests>>

(* _latest_batch, when the source has no manifest: the newest list answer, *)
(* the items saved for it and their details that are not older.            *)
SelectLatest ==
  LET lists == {d \in replay.docs : d.role = "list_response"}
      newest == CHOOSE d \in lists : \A e \in lists :
                  e.run < d.run \/ (e.run = d.run /\ e.page <= d.page)
      items == Children(replay.docs, {newest})
      chosen == First(items, replay.limit)
  IN  /\ rpc = "select" /\ replay.manifest = None
      /\ IF items = {}
         THEN rpc' = "missing" /\ UNCHANGED replay
         ELSE /\ rpc' = "done"
              /\ replay' = [replay EXCEPT !.items = chosen,
                   !.details = {d \in replay.docs :
                                  /\ d.role = "detail_response"
                                  /\ newest.page = 1
                                  /\ d.run = newest.run
                                  /\ d.item \in Items(chosen)}]
      /\ UNCHANGED <<listing, changes, runs, collection, raw, manifests>>

EndReplay ==
  /\ rpc \in {"done", "missing"}
  /\ rpc' = "idle" /\ replay' = None
  /\ UNCHANGED <<listing, changes, runs, collection, raw, manifests>>

-----------------------------------------------------------------------------
Init ==
  /\ listing = Start
  /\ changes = 0
  /\ runs = 0
  /\ pc = "idle" /\ run = None
  /\ raw = {} /\ manifests = {}
  /\ rpc = "idle" /\ replay = None

Collect ==
  \/ Begin \/ RequestPage \/ SaveList \/ SaveItem \/ SaveDetail
  \/ AcceptPage \/ SaveManifest \/ Fail

Replay ==
  \/ \E limit \in Limit : LoadDocuments(limit)
  \/ LoadManifest(Latest)
  \/ \E m \in manifests : LoadManifest(m)
  \/ SelectSnapshot \/ SelectLatest \/ EndReplay

Next ==
  \/ \E at \in 1 .. Len(listing) : Withdraw(at)
  \/ \E i \in Item : \E at \in 1 .. Len(listing) + 1 : Publish(i, at)
  \/ Collect
  \/ Replay

Spec == Init /\ [][Next]_vars

-----------------------------------------------------------------------------
(* Properties *)

(* Wherever a collection fails or dies, a manifest names documents that    *)
(* are all stored, their items are distinct and as many as it says, and    *)
(* its details are of them.  A source that did not change meanwhile, and   *)
(* reported its total, is collected whole.                                 *)
ManifestIsWhole ==
  \A m \in manifests :
    LET items == Children(raw, m.lists)
    IN  /\ m.lists \cup m.details \subseteq raw
        /\ Cardinality(items) = m.items
        /\ Cardinality(Items(items)) = m.items
        /\ Items(m.details) \subseteq Items(items)
        /\ m.quiet => Items(items) = m.listed

(* A replay that calls itself complete holds every item of its manifest,   *)
(* whatever a collection writes meanwhile; what a collection that failed   *)
(* left behind is in no such replay.  Only a manifest published after the  *)
(* replay read its documents makes the replay of a manifest fail.          *)
ReplayIsWhole ==
  /\ rpc = "done" /\ replay.complete =>
       /\ replay.manifest \in manifests
       /\ replay.items = Children(raw, replay.manifest.lists)
       /\ replay.details = replay.manifest.details
  /\ rpc = "missing" /\ replay.manifest # None => replay.manifest \notin replay.known

=============================================================================

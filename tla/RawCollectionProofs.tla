------------------------ MODULE RawCollectionProofs ------------------------
(***************************************************************************)
(* Proofs about the two ways in which Raw documents are collected and      *)
(* replayed, for every value of the constants.  SnapshotCollection: a      *)
(* manifest is whole, and so is the replay of one.  SupplementalBundle:    *)
(* what a replay takes is of one collection, a snapshot decides as the     *)
(* collection verified, and what is accepted is open by a page of its own. *)
(***************************************************************************)
EXTENDS SnapshotCollection, SupplementalBundle, SequenceFacts, FiniteSetTheorems, TLAPS

-----------------------------------------------------------------------------
(***************************************************************************)
(* SnapshotCollection.  The inductive invariant.                           *)
(***************************************************************************)

\* Documents of the Raw directory; those of items name one.
Document ==
  {d \in [role : {"list_response", "list_item", "detail_response"},
          run : Nat, page : Nat, item : Item \cup {None}] :
     d.role = "list_item" => d.item \in Item}

\* Where a collection under way is, and where it has an answer in hand.
Stages == {"request", "list", "items", "details", "accept", "manifest"}
Answered == {"list", "items", "details", "accept"}
Local == [page : Nat \ {0}, total : Nat \cup {None}, seen : SUBSET Item,
          lists : SUBSET Document, details : SUBSET Document, requests : Nat,
          answer : Seq(Item), reported : Nat, changes : Nat, exact : BOOLEAN]

TypesInv ==
  /\ listing \in Seq(Item) /\ changes \in Nat /\ runs \in Nat
  /\ pc \in Stages \cup {"idle"}
  /\ pc # "idle" => run \in Local /\ IsFiniteSet(run.seen) /\ run.changes <= changes
  /\ raw \subseteq Document
  /\ \A d \in raw : d.run <= runs

\* No two documents of one item.
OneEach(docs) == \A d, e \in docs : d.item = e.item => d = e

\* The pages that were accepted: their lists, and one document of each item.
AcceptedPages ==
  /\ run.lists \subseteq raw
  /\ \A l \in run.lists :
       /\ l = ListDoc(runs, l.page)
       /\ l.page < run.page \/ (pc = "manifest" /\ l.page = run.page)
  /\ Items(Children(raw, run.lists)) = run.seen
  /\ OneEach(Children(raw, run.lists))

\* The page under way.
CurrentPage ==
  /\ \A d \in raw : d.run = runs /\ d.role = "list_item" =>
       \/ d.page < run.page
       \/ /\ d.page = run.page /\ pc \notin {"request", "list"}
          /\ d.item \in ToSet(run.answer)
  /\ pc \in {"items", "details", "accept"} => ListDoc(runs, run.page) \in raw
  /\ pc \in {"details", "accept"} => Unsaved = {}

\* The items of the answers taken so far.
Taken == run.seen \cup (IF pc \in Answered THEN ToSet(run.answer) ELSE {})
DetailsInv == run.details \subseteq raw /\ Items(run.details) \subseteq Taken

\* Nothing that was taken is gone, as long as nothing changed.
QuietInv ==
  run.exact /\ run.changes = changes =>
    /\ Taken \subseteq Listed
    /\ pc \in Answered => run.reported = Len(listing)
    /\ pc = "manifest" => run.total = Len(listing)

CollectionInv == pc # "idle" => AcceptedPages /\ CurrentPage /\ DetailsInv /\ QuietInv

ManifestsInv ==
  /\ \A m \in manifests :
       /\ m.run \in Nat /\ m.run <= runs /\ (pc # "idle" => m.run < runs)
       /\ \A l \in m.lists : l.run = m.run
       /\ IsFiniteSet(Children(raw, m.lists))
  /\ manifests # {} => \E m \in manifests : \A n \in manifests : n.run <= m.run
  /\ ManifestIsWhole

\* What a replay that read docs can make a batch of.
Readable(m, docs) ==
  m.lists \cup m.details \subseteq docs /\ MatchesManifest(Children(docs, m.lists), m)

ReplayInv ==
  /\ rpc # "idle" =>
       /\ rpc \in {"loaded", "select", "done", "missing"}
       /\ replay = [limit |-> replay.limit, docs |-> replay.docs, known |-> replay.known,
                    manifest |-> replay.manifest, items |-> replay.items,
                    details |-> replay.details, complete |-> replay.complete]
       /\ replay.limit \in Nat
       /\ replay.docs \subseteq raw
       /\ \A m \in replay.known : Readable(m, replay.docs)
       /\ replay.manifest \in manifests \cup {None}
       /\ rpc \in {"loaded", "select"} => replay.complete = FALSE
  /\ ReplayIsWhole

SnapshotInv == TypesInv /\ CollectionInv /\ ManifestsInv /\ ReplayInv

-----------------------------------------------------------------------------
(* Sequences and pages *)

LEMMA SetOfSeq ==
  ASSUME NEW s \in Seq(Item)
  PROVE  /\ ToSet(s) \subseteq Item /\ IsFiniteSet(ToSet(s))
         /\ Cardinality(ToSet(s)) <= Len(s)
<1>1. ToSet(s) = {s[i] : i \in 1 .. Len(s)}
  BY DEF ToSet
<1>2. s \in Surjection(1 .. Len(s), ToSet(s))
  BY <1>1 DEF Surjection
<1>3. IsFiniteSet(1 .. Len(s)) /\ Cardinality(1 .. Len(s)) = Len(s)
  <2>1. Len(s) \in Nat /\ Len(s) \in Int /\ 1 \in Int
    OBVIOUS
  <2>2. 1 > Len(s) => Len(s) = 0
    BY <2>1
  <2> QED
    BY <2>1, <2>2, FS_Interval
<1> QED
  BY <1>1, <1>2, <1>3, FS_Surjection

LEMMA PartOfSeq ==
  ASSUME NEW s \in Seq(Item), NEW a \in Nat \ {0}, NEW b \in 0 .. Len(s)
  PROVE  SubSeq(s, a, b) \in Seq(Item) /\ ToSet(SubSeq(s, a, b)) \subseteq ToSet(s)
<1>1. SubSeq(s, a, b) \in Seq(Item)
  OBVIOUS
<1>2. \A i \in 1 .. Len(SubSeq(s, a, b)) :
        /\ SubSeq(s, a, b)[i] = s[i + a - 1]
        /\ i + a - 1 \in 1 .. Len(s)
  OBVIOUS
<1> QED
  BY <1>1, <1>2 DEF ToSet

LEMMA PageIsListed ==
  ASSUME NEW s \in Seq(Item), NEW page \in Nat \ {0}
  PROVE  PageOf(s, page) \in Seq(Item) /\ ToSet(PageOf(s, page)) \subseteq ToSet(s)
<1> DEFINE from == (page - 1) * PageSize + 1
           to == IF page * PageSize < Len(s) THEN page * PageSize ELSE Len(s)
<1>1. PageSize \in Nat
  BY SnapshotAssumption
<1>2. (page - 1) * PageSize \in Nat /\ page * PageSize \in Nat
  <2>1. page - 1 \in Nat
    OBVIOUS
  <2>2. \A m, n \in Nat : m * n \in Nat
    OBVIOUS
  <2> QED
    BY <1>1, <2>1, <2>2
<1>3. from \in Nat \ {0} /\ to \in 0 .. Len(s)
  BY <1>2
<1> HIDE DEF from, to
<1>4. SubSeq(s, from, to) \in Seq(Item) /\ ToSet(SubSeq(s, from, to)) \subseteq ToSet(s)
  BY <1>3, PartOfSeq
<1> QED
  BY <1>4 DEF PageOf, from, to

-----------------------------------------------------------------------------
(* Documents *)

LEMMA DocumentForms ==
  ASSUME NEW r \in Nat, NEW p \in Nat
  PROVE  /\ ListDoc(r, p) \in Document /\ ListDoc(r, p).role = "list_response"
         /\ ListDoc(r, p).run = r /\ ListDoc(r, p).page = p
         /\ \A i \in Item : /\ ItemDoc(r, p, i) \in Document
                            /\ ItemDoc(r, p, i).role = "list_item"
                            /\ ItemDoc(r, p, i).run = r /\ ItemDoc(r, p, i).page = p
                            /\ ItemDoc(r, p, i).item = i
         /\ \A i \in Item : /\ DetailDoc(r, i) \in Document
                            /\ DetailDoc(r, i).role = "detail_response"
                            /\ DetailDoc(r, i).run = r
                            /\ DetailDoc(r, i).item = i
  BY DEF ListDoc, ItemDoc, DetailDoc, Document

LEMMA SameDocument ==
  ASSUME NEW d \in Document, NEW e \in Document,
         d.role = e.role, d.run = e.run, d.page = e.page, d.item = e.item
  PROVE  d = e
  BY DEF Document

(* What another collection saves is no child of these lists.               *)
LEMMA ChildrenStay ==
  ASSUME NEW docs, NEW more, NEW lists, docs \subseteq more,
         \A d \in more \ docs : d.role = "list_item" =>
           \A l \in lists : l.run # d.run \/ l.page # d.page
  PROVE  Children(more, lists) = Children(docs, lists)
  BY DEF Children

(* One document of each item: as many documents as items.                  *)
LEMMA OneEachCount ==
  ASSUME NEW docs, OneEach(docs), IsFiniteSet(Items(docs))
  PROVE  IsFiniteSet(docs) /\ Cardinality(docs) = Cardinality(Items(docs))
<1> DEFINE of == [d \in docs |-> d.item]
<1>1. of \in Injection(docs, Items(docs)) /\ of \in Surjection(docs, Items(docs))
  BY DEF OneEach, Items, Injection, Surjection, IsInjective
<1> QED
  BY <1>1, FS_Injection

-----------------------------------------------------------------------------
(* What a step leaves alone *)

LEMMA ManifestsStay ==
  ASSUME SnapshotInv, manifests' = manifests, raw \subseteq raw',
         runs' \in Nat, runs <= runs', pc' # "idle" => \A m \in manifests : m.run < runs',
         \A d \in raw' \ raw : \A m \in manifests : m.run # d.run
  PROVE  /\ ManifestsInv'
         /\ \A m \in manifests : Children(raw', m.lists) = Children(raw, m.lists)
<1>1. \A m \in manifests : Children(raw', m.lists) = Children(raw, m.lists)
  <2>1. SUFFICES ASSUME NEW m \in manifests
                 PROVE  Children(raw', m.lists) = Children(raw, m.lists)
    OBVIOUS
  <2>2. \A d \in raw' \ raw : d.role = "list_item" =>
          \A l \in m.lists : l.run # d.run \/ l.page # d.page
    BY DEF SnapshotInv, ManifestsInv
  <2> QED
    BY <2>2, ChildrenStay
<1>2. ManifestIsWhole'
  <2>1. SUFFICES ASSUME NEW m \in manifests
                 PROVE  LET items == Children(raw', m.lists)
                        IN  /\ m.lists \cup m.details \subseteq raw'
                            /\ Cardinality(items) = m.items
                            /\ Cardinality(Items(items)) = m.items
                            /\ Items(m.details) \subseteq Items(items)
                            /\ m.quiet => Items(items) = m.listed
    BY DEF ManifestIsWhole
  <2> QED
    BY <1>1 DEF SnapshotInv, ManifestsInv, ManifestIsWhole
<1>3. \A m \in manifests :
        /\ m.run \in Nat /\ m.run <= runs' /\ (pc' # "idle" => m.run < runs')
        /\ \A l \in m.lists : l.run = m.run
        /\ IsFiniteSet(Children(raw', m.lists))
  BY <1>1 DEF SnapshotInv, ManifestsInv, TypesInv
<1> QED
  BY <1>1, <1>2, <1>3 DEF SnapshotInv, ManifestsInv

LEMMA ReplayStays ==
  ASSUME SnapshotInv, UNCHANGED replaying, raw \subseteq raw', manifests \subseteq manifests',
         \A m \in manifests : Children(raw', m.lists) = Children(raw, m.lists)
  PROVE  ReplayInv'
<1>1. rpc' = rpc /\ replay' = replay
  BY DEF replaying
<1>2. ReplayIsWhole'
  BY <1>1 DEF SnapshotInv, ReplayInv, ReplayIsWhole
<1> QED
  BY <1>1, <1>2 DEF SnapshotInv, ReplayInv

\* What a collection stores is of its own run.
LEMMA DocumentsAdded ==
  ASSUME SnapshotInv, raw \subseteq raw', \A d \in raw' \ raw : d.run = runs,
         pc' # "idle" \/ raw' # raw => pc # "idle",
         UNCHANGED <<runs, manifests, rpc, replay>>
  PROVE  ManifestsInv' /\ ReplayInv'
<1>1. runs \in Nat /\ \A m \in manifests : m.run \in Nat
  BY DEF SnapshotInv, TypesInv, ManifestsInv
<1>2. pc # "idle" => \A m \in manifests : m.run < runs
  BY DEF SnapshotInv, ManifestsInv
<1>3. \A d \in raw' \ raw : \A m \in manifests : m.run # d.run
  BY <1>1, <1>2
<1>4. /\ ManifestsInv'
      /\ \A m \in manifests : Children(raw', m.lists) = Children(raw, m.lists)
  BY <1>1, <1>2, <1>3, ManifestsStay
<1>5. ReplayInv'
  BY <1>4, ReplayStays DEF replaying
<1> QED
  BY <1>4, <1>5

LEMMA CollectionStays ==
  ASSUME SnapshotInv, UNCHANGED <<listing, changes, runs, pc, run, raw>>
  PROVE  TypesInv' /\ CollectionInv'
<1>1. TypesInv'
  BY DEF SnapshotInv, TypesInv
<1>2. Taken' = Taken /\ Unsaved' = Unsaved /\ Listed' = Listed
  BY DEF Taken, Unsaved, Listed
<1> QED
  BY <1>1, <1>2 DEF SnapshotInv, CollectionInv, AcceptedPages, CurrentPage, DetailsInv, QuietInv

-----------------------------------------------------------------------------
(* The source *)

LEMMA SourceStep ==
  ASSUME SnapshotInv, changes' = changes + 1, listing' \in Seq(Item),
         UNCHANGED <<runs, pc, run, raw, manifests, rpc, replay>>
  PROVE  SnapshotInv'
<1>1. ManifestsInv' /\ ReplayInv'
  BY DocumentsAdded
<1>2. TypesInv'
  <2>1. changes \in Nat /\ (pc # "idle" => run.changes \in Nat /\ run.changes <= changes)
    BY DEF SnapshotInv, TypesInv, Local
  <2>2. changes' \in Nat /\ (pc # "idle" => run.changes <= changes')
    BY <2>1
  <2> QED
    BY <2>2 DEF SnapshotInv, TypesInv
<1>3. CollectionInv'
  <2>1. Taken' = Taken /\ Unsaved' = Unsaved
    BY DEF Taken, Unsaved
  <2>2. pc # "idle" => run.changes \in Nat /\ changes \in Nat /\ run.changes <= changes
    BY DEF SnapshotInv, TypesInv, Local
  <2>3. pc # "idle" => run.changes # changes'
    BY <2>2
  <2> QED
    BY <2>1, <2>3
    DEF SnapshotInv, CollectionInv, AcceptedPages, CurrentPage, DetailsInv, QuietInv
<1> QED
  BY <1>1, <1>2, <1>3 DEF SnapshotInv

LEMMA WithdrawStep ==
  ASSUME SnapshotInv, NEW at \in 1 .. Len(listing), Withdraw(at)
  PROVE  SnapshotInv'
<1>1. listing \in Seq(Item)
  BY DEF SnapshotInv, TypesInv
<1>2. SubSeq(listing, 1, at - 1) \in Seq(Item) /\ SubSeq(listing, at + 1, Len(listing)) \in Seq(Item)
  BY <1>1
<1>3. listing' \in Seq(Item)
  BY <1>2 DEF Withdraw, RemoveAt
<1> QED
  BY <1>3, SourceStep DEF Withdraw, collection, replaying

LEMMA PublishStep ==
  ASSUME SnapshotInv, NEW i \in Item, NEW at \in 1 .. Len(listing) + 1, Publish(i, at)
  PROVE  SnapshotInv'
<1>1. listing \in Seq(Item)
  BY DEF SnapshotInv, TypesInv
<1>2. /\ SubSeq(listing, 1, at - 1) \in Seq(Item) /\ <<i>> \in Seq(Item)
      /\ SubSeq(listing, at, Len(listing)) \in Seq(Item)
  BY <1>1
<1>3. listing' \in Seq(Item)
  BY <1>2 DEF Publish, InsertAt
<1> QED
  BY <1>3, SourceStep DEF Publish, collection, replaying

-----------------------------------------------------------------------------
(* The collection *)

\* A step that ends the collection.
LEMMA EndsHere ==
  ASSUME SnapshotInv, pc' = "idle",
         UNCHANGED <<listing, changes, runs, raw, manifests, rpc, replay>>
  PROVE  SnapshotInv'
<1>1. ManifestsInv' /\ ReplayInv'
  BY DocumentsAdded
<1>2. TypesInv' /\ CollectionInv'
  BY DEF SnapshotInv, TypesInv, CollectionInv
<1> QED
  BY <1>1, <1>2 DEF SnapshotInv

LEMMA BeginStep ==
  ASSUME SnapshotInv, Begin
  PROVE  SnapshotInv'
<1>1. /\ run' = [page |-> 1, total |-> None, seen |-> {}, lists |-> {},
                 details |-> {}, requests |-> 0, answer |-> <<>>, reported |-> 0,
                 changes |-> changes, exact |-> TRUE]
      /\ pc' = "request" /\ runs' = runs + 1
      /\ UNCHANGED <<listing, changes, raw, manifests, rpc, replay>>
  BY DEF Begin, Goto, replaying
<1>2. changes \in Nat /\ runs \in Nat /\ runs' \in Nat /\ runs <= runs'
  BY <1>1 DEF SnapshotInv, TypesInv
<1>3. TypesInv'
  <2>1. run' \in Local
    BY <1>1, <1>2 DEF Local
  <2>2. run'.seen = {} /\ run'.changes = changes
    BY <1>1
  <2>3. \A d \in raw : d.run <= runs'
    <3>1. \A d \in raw : d.run \in Nat /\ d.run <= runs
      BY DEF SnapshotInv, TypesInv, Document
    <3> QED
      BY <3>1, <1>1, <1>2
  <2> QED
    BY <1>1, <1>2, <2>1, <2>2, <2>3, FS_EmptySet DEF SnapshotInv, TypesInv, Stages
<1>4. CollectionInv'
  <2>1. AcceptedPages'
    BY <1>1 DEF AcceptedPages, Children, Items, OneEach
  <2>2. CurrentPage'
    <3>1. \A d \in raw : d.run \in Nat /\ d.run <= runs
      BY DEF SnapshotInv, TypesInv, Document
    <3>2. \A d \in raw : d.run # runs'
      BY <3>1, <1>1, <1>2
    <3> QED
      BY <1>1, <3>2 DEF CurrentPage
  <2>3. Taken' = {}
    BY <1>1 DEF Taken, Answered
  <2>4. DetailsInv' /\ QuietInv'
    BY <1>1, <2>3 DEF DetailsInv, Items, QuietInv, Answered
  <2> QED
    BY <2>1, <2>2, <2>4 DEF CollectionInv
<1>5. ManifestsInv' /\ ReplayInv'
  <2>1. \A m \in manifests : m.run \in Nat /\ m.run <= runs
    BY DEF SnapshotInv, ManifestsInv
  <2>2. \A m \in manifests : m.run < runs'
    BY <2>1, <1>1, <1>2
  <2>3. /\ ManifestsInv'
        /\ \A m \in manifests : Children(raw', m.lists) = Children(raw, m.lists)
    BY <1>1, <1>2, <2>2, ManifestsStay
  <2> QED
    BY <1>1, <2>3, ReplayStays DEF replaying
<1> QED
  BY <1>3, <1>4, <1>5 DEF SnapshotInv

LEMMA RequestPageStep ==
  ASSUME SnapshotInv, RequestPage
  PROVE  SnapshotInv'
<1> DEFINE answer == PageOf(listing, run.page)
<1>1. UNCHANGED <<listing, changes, runs, raw, manifests, rpc, replay>> /\ pc = "request"
  BY DEF RequestPage, replaying
<1>2. CASE pc' = "idle"
  BY <1>1, <1>2, EndsHere
<1>3. CASE pc' # "idle"
  <2>1. PICK lag \in 0 .. Lag :
          /\ Len(listing) - lag >= Len(answer)
          /\ run' = [run EXCEPT !.answer = answer, !.reported = Len(listing) - lag,
                                !.exact = @ /\ lag = 0]
          /\ pc' = "list"
    BY <1>3 DEF RequestPage, Goto
  <2>2. run \in Local /\ listing \in Seq(Item) /\ lag \in Nat
    BY <1>1, SnapshotAssumption DEF SnapshotInv, TypesInv
  <2>3. answer \in Seq(Item) /\ ToSet(answer) \subseteq Listed
    BY <2>2, PageIsListed DEF Local, Listed
  <2> HIDE DEF answer
  <2>4. Len(listing) - lag \in Nat
    BY <2>1, <2>2, <2>3
  <2>5. /\ run' \in Local
        /\ run'.seen = run.seen /\ run'.lists = run.lists /\ run'.details = run.details
        /\ run'.page = run.page /\ run'.changes = run.changes /\ run'.answer = answer
        /\ run'.reported = Len(listing) - lag /\ (run'.exact => run.exact /\ lag = 0)
    BY <2>1, <2>2, <2>3, <2>4 DEF Local
  <2>6. TypesInv'
    BY <1>1, <2>1, <2>5 DEF SnapshotInv, TypesInv, Stages
  <2>7. AcceptedPages /\ CurrentPage /\ DetailsInv /\ QuietInv
    BY <1>1 DEF SnapshotInv, CollectionInv
  <2>8. AcceptedPages' /\ CurrentPage'
    BY <1>1, <2>1, <2>5, <2>7 DEF AcceptedPages, CurrentPage
  <2>9. Taken = run.seen /\ Taken' = run.seen \cup ToSet(answer)
    BY <1>1, <2>1, <2>5 DEF Taken, Answered
  <2>10. DetailsInv'
    BY <1>1, <2>5, <2>7, <2>9 DEF DetailsInv
  <2>11. QuietInv'
    <3>1. lag = 0 => Len(listing) - lag = Len(listing)
      BY <2>2
    <3> QED
      BY <1>1, <2>1, <2>3, <2>5, <2>7, <2>9, <3>1 DEF QuietInv, Listed
  <2>12. ManifestsInv' /\ ReplayInv'
    BY <1>1, DocumentsAdded
  <2> QED
    BY <2>1, <2>6, <2>8, <2>10, <2>11, <2>12 DEF SnapshotInv, CollectionInv
<1> QED
  BY <1>2, <1>3

LEMMA SaveListStep ==
  ASSUME SnapshotInv, SaveList
  PROVE  SnapshotInv'
<1> DEFINE doc == ListDoc(runs, run.page)
<1>1. /\ UNCHANGED <<listing, changes, runs, run, manifests, rpc, replay>>
      /\ pc = "list" /\ pc' = "items" /\ raw' = raw \cup {doc}
  BY DEF SaveList, Goto, replaying
<1>2. /\ run \in Local /\ runs \in Nat /\ run.page \in Nat
      /\ raw \subseteq Document
  BY <1>1 DEF SnapshotInv, TypesInv, Local
<1>3. doc \in Document /\ doc.role = "list_response" /\ doc.run = runs
  BY <1>2, DocumentForms
<1>4. AcceptedPages /\ CurrentPage /\ DetailsInv /\ QuietInv
  BY <1>1 DEF SnapshotInv, CollectionInv
<1>5. TypesInv'
  BY <1>1, <1>2, <1>3 DEF SnapshotInv, TypesInv, Stages
<1>6. AcceptedPages'
  <2>1. Children(raw', run.lists) = Children(raw, run.lists)
    BY <1>1, <1>3 DEF Children
  <2> QED
    BY <1>1, <1>4, <2>1 DEF AcceptedPages
<1>7. CurrentPage'
  BY <1>1, <1>3, <1>4 DEF CurrentPage
<1>8. Taken' = Taken
  BY <1>1 DEF Taken, Answered
<1>9. DetailsInv' /\ QuietInv'
  BY <1>1, <1>4, <1>8 DEF DetailsInv, QuietInv, Listed, Answered
<1>10. ManifestsInv' /\ ReplayInv'
  BY <1>1, <1>3, DocumentsAdded
<1> QED
  BY <1>5, <1>6, <1>7, <1>9, <1>10 DEF SnapshotInv, CollectionInv

LEMMA SaveItemStep ==
  ASSUME SnapshotInv, SaveItem
  PROVE  SnapshotInv'
<1>1. /\ UNCHANGED <<listing, changes, runs, run, manifests, rpc, replay>>
      /\ pc = "items"
  BY DEF SaveItem, replaying
<1>2. /\ run \in Local /\ runs \in Nat /\ run.page \in Nat /\ run.answer \in Seq(Item)
      /\ raw \subseteq Document
  BY <1>1 DEF SnapshotInv, TypesInv, Local
<1>3. AcceptedPages /\ CurrentPage /\ DetailsInv /\ QuietInv
  BY <1>1 DEF SnapshotInv, CollectionInv
<1>4. CASE Unsaved = {} /\ pc' = "details" /\ raw' = raw
  <2>1. Taken' = Taken /\ Unsaved' = Unsaved
    BY <1>1, <1>4 DEF Taken, Answered, Unsaved
  <2>2. TypesInv'
    BY <1>1, <1>4 DEF SnapshotInv, TypesInv, Stages
  <2>3. AcceptedPages' /\ CurrentPage'
    BY <1>1, <1>3, <1>4, <2>1 DEF AcceptedPages, CurrentPage
  <2>4. DetailsInv' /\ QuietInv'
    BY <1>1, <1>3, <1>4, <2>1 DEF DetailsInv, QuietInv, Listed, Answered
  <2>5. ManifestsInv' /\ ReplayInv'
    BY <1>1, <1>4, DocumentsAdded
  <2> QED
    BY <2>2, <2>3, <2>4, <2>5 DEF SnapshotInv, CollectionInv
<1>5. ASSUME NEW i \in Unsaved, raw' = raw \cup {ItemDoc(runs, run.page, i)}, pc' = pc
      PROVE  SnapshotInv'
  <2> DEFINE doc == ItemDoc(runs, run.page, i)
  <2>1. i \in ToSet(run.answer) /\ i \in Item
    BY <1>2, SetOfSeq DEF Unsaved
  <2>2. /\ doc \in Document /\ doc.role = "list_item" /\ doc.run = runs
        /\ doc.page = run.page /\ doc.item = i
    BY <1>2, <2>1, DocumentForms
  <2> HIDE DEF doc
  <2>3. raw' = raw \cup {doc}
    BY <1>5 DEF doc
  <2>4. TypesInv'
    BY <1>1, <1>2, <1>5, <2>2, <2>3 DEF SnapshotInv, TypesInv, Stages
  <2>5. AcceptedPages'
    <3>1. \A l \in run.lists : l.page < run.page /\ l \in Document
      BY <1>1, <1>2, <1>3 DEF AcceptedPages
    <3>2. \A l \in run.lists : l.page # run.page
      BY <1>2, <3>1 DEF Document
    <3>3. Children(raw', run.lists) = Children(raw, run.lists)
      BY <2>2, <2>3, <3>2 DEF Children
    <3> QED
      BY <1>1, <1>3, <1>5, <2>3, <3>3 DEF AcceptedPages
  <2>6. CurrentPage'
    BY <1>1, <1>3, <1>5, <2>1, <2>2, <2>3 DEF CurrentPage
  <2>7. Taken' = Taken
    BY <1>1, <1>5 DEF Taken
  <2>8. DetailsInv' /\ QuietInv'
    BY <1>1, <1>3, <1>5, <2>3, <2>7 DEF DetailsInv, QuietInv, Listed
  <2>9. ManifestsInv' /\ ReplayInv'
    BY <1>1, <2>2, <2>3, DocumentsAdded
  <2> QED
    BY <2>4, <2>5, <2>6, <2>8, <2>9 DEF SnapshotInv, CollectionInv
<1> QED
  BY <1>1, <1>4, <1>5 DEF SaveItem, Goto

LEMMA WantedAreAnswered ==
  ASSUME run.answer \in Seq(Item)
  PROVE  WantedDetails \subseteq ToSet(run.answer) /\ IsFiniteSet(WantedDetails)
<1> DEFINE to == IF PlannedDetails < Len(run.answer) THEN PlannedDetails ELSE Len(run.answer)
<1>1. PlannedDetails \in Nat
  BY SnapshotAssumption DEF PlannedDetails
<1>2. to \in 0 .. Len(run.answer)
  BY <1>1
<1> HIDE DEF to
<1>3. /\ SubSeq(run.answer, 1, to) \in Seq(Item)
      /\ ToSet(SubSeq(run.answer, 1, to)) \subseteq ToSet(run.answer)
  BY <1>2, PartOfSeq
<1>4. IsFiniteSet(ToSet(SubSeq(run.answer, 1, to)))
  BY <1>3, SetOfSeq
<1> QED
  BY <1>3, <1>4 DEF WantedDetails, to

LEMMA SaveDetailStep ==
  ASSUME SnapshotInv, SaveDetail
  PROVE  SnapshotInv'
<1>1. /\ UNCHANGED <<listing, changes, runs, manifests, rpc, replay>>
      /\ pc = "details"
  BY DEF SaveDetail, replaying
<1>2. /\ run \in Local /\ runs \in Nat /\ run.page \in Nat /\ run.answer \in Seq(Item)
      /\ raw \subseteq Document
  BY <1>1 DEF SnapshotInv, TypesInv, Local
<1>3. AcceptedPages /\ CurrentPage /\ DetailsInv /\ QuietInv
  BY <1>1 DEF SnapshotInv, CollectionInv
<1>4. CASE pc' = "accept" /\ run' = run /\ raw' = raw
  <2>1. Taken' = Taken /\ Unsaved' = Unsaved
    BY <1>1, <1>4 DEF Taken, Answered, Unsaved
  <2>2. TypesInv'
    BY <1>1, <1>4 DEF SnapshotInv, TypesInv, Stages
  <2>3. AcceptedPages' /\ CurrentPage'
    BY <1>1, <1>3, <1>4, <2>1 DEF AcceptedPages, CurrentPage
  <2>4. DetailsInv' /\ QuietInv'
    BY <1>1, <1>3, <1>4, <2>1 DEF DetailsInv, QuietInv, Listed, Answered
  <2>5. ManifestsInv' /\ ReplayInv'
    BY <1>1, <1>4, DocumentsAdded
  <2> QED
    BY <2>2, <2>3, <2>4, <2>5 DEF SnapshotInv, CollectionInv
<1>5. CASE pc' = "idle" /\ run' = run /\ raw' = raw
  BY <1>1, <1>5, EndsHere
<1>6. ASSUME NEW i \in WantedDetails, pc' = pc,
             raw' = raw \cup {DetailDoc(runs, i)},
             run' = [run EXCEPT !.details = @ \cup {DetailDoc(runs, i)}]
      PROVE  SnapshotInv'
  <2> DEFINE doc == DetailDoc(runs, i)
  <2>1. i \in ToSet(run.answer) /\ i \in Item
    BY <1>2, WantedAreAnswered, SetOfSeq
  <2>2. /\ doc \in Document /\ doc.role = "detail_response" /\ doc.run = runs
        /\ doc.item = i
    BY <1>2, <2>1, DocumentForms
  <2> HIDE DEF doc
  <2>3. /\ raw' = raw \cup {doc} /\ run' \in Local
        /\ run'.seen = run.seen /\ run'.lists = run.lists /\ run'.page = run.page
        /\ run'.details = run.details \cup {doc} /\ run'.answer = run.answer
        /\ run'.changes = run.changes /\ run'.exact = run.exact
        /\ run'.reported = run.reported /\ run'.total = run.total
    BY <1>2, <1>6, <2>2 DEF doc, Local
  <2>4. TypesInv'
    BY <1>1, <1>2, <1>6, <2>2, <2>3 DEF SnapshotInv, TypesInv, Stages
  <2>5. AcceptedPages'
    <3>1. Children(raw', run.lists) = Children(raw, run.lists)
      BY <2>2, <2>3 DEF Children
    <3> QED
      BY <1>1, <1>3, <1>6, <2>3, <3>1 DEF AcceptedPages
  <2>6. CurrentPage'
    <3>1. Unsaved = {} => Unsaved' = {}
      BY <1>1, <2>3 DEF Unsaved
    <3> QED
      BY <1>1, <1>3, <1>6, <2>2, <2>3, <3>1 DEF CurrentPage
  <2>7. Taken' = Taken /\ i \in Taken
    BY <1>1, <1>6, <2>1, <2>3 DEF Taken, Answered
  <2>8. DetailsInv'
    BY <1>3, <2>2, <2>3, <2>7 DEF DetailsInv, Items
  <2>9. QuietInv'
    BY <1>1, <1>3, <1>6, <2>3, <2>7 DEF QuietInv, Listed
  <2>10. ManifestsInv' /\ ReplayInv'
    BY <1>1, <2>2, <2>3, DocumentsAdded
  <2> QED
    BY <2>4, <2>5, <2>6, <2>8, <2>9, <2>10 DEF SnapshotInv, CollectionInv
<1> QED
  BY <1>1, <1>4, <1>5, <1>6 DEF SaveDetail, Goto

\* The documents of a page whose items are all saved, with those before.
LEMMA PageIsWhole ==
  ASSUME SnapshotInv, pc = "accept", NoRepeats
  PROVE  LET lists == run.lists \cup {ListDoc(runs, run.page)}
         IN  /\ lists \subseteq raw
             /\ Items(Children(raw, lists)) = run.seen \cup ToSet(run.answer)
             /\ OneEach(Children(raw, lists))
<1> DEFINE list == ListDoc(runs, run.page)
           before == Children(raw, run.lists)
           here == {d \in raw : d.role = "list_item" /\ d.run = runs /\ d.page = run.page}
           all == Children(raw, run.lists \cup {list})
<1>1. /\ run \in Local /\ runs \in Nat /\ run.page \in Nat /\ run.answer \in Seq(Item)
      /\ raw \subseteq Document
  BY DEF SnapshotInv, TypesInv, Local
<1>2. AcceptedPages /\ CurrentPage
  BY DEF SnapshotInv, CollectionInv
<1>3. list.run = runs /\ list.page = run.page
  BY <1>1, DocumentForms
<1> HIDE DEF list
<1>4. all = before \cup here
  BY <1>3 DEF Children
<1>5. \A d \in here : d.item \in ToSet(run.answer)
  BY <1>1, <1>2 DEF CurrentPage, Document
<1>6. ASSUME NEW i \in ToSet(run.answer)
      PROVE  \E d \in here : d.item = i
  <2>1. i \in Item /\ ItemDoc(runs, run.page, i) \in raw
    BY <1>1, <1>2, SetOfSeq DEF CurrentPage, Unsaved
  <2> DEFINE doc == ItemDoc(runs, run.page, i)
  <2>2. doc.role = "list_item" /\ doc.run = runs /\ doc.page = run.page /\ doc.item = i
    BY <1>1, <2>1, DocumentForms
  <2>3. doc \in here
    BY <2>1, <2>2
  <2> HIDE DEF doc, here
  <2> QED
    BY <2>2, <2>3
<1>7. Items(here) = ToSet(run.answer)
  BY <1>5, <1>6 DEF Items
<1>8. OneEach(here)
  BY <1>1, SameDocument DEF OneEach
<1>9. Items(before) = run.seen /\ OneEach(before) /\ Items(before) \cap Items(here) = {}
  BY <1>2, <1>7 DEF AcceptedPages, NoRepeats
<1> HIDE DEF before, here, all
<1>10. Items(all) = Items(before) \cup Items(here)
  BY <1>4 DEF Items
<1>11. OneEach(all)
  BY <1>4, <1>8, <1>9 DEF OneEach, Items
<1>12. run.lists \cup {list} \subseteq raw
  BY <1>2 DEF AcceptedPages, CurrentPage, list
<1> QED
  BY <1>7, <1>9, <1>10, <1>11, <1>12 DEF all, list

LEMMA AcceptPageStep ==
  ASSUME SnapshotInv, AcceptPage
  PROVE  SnapshotInv'
<1> DEFINE seen == run.seen \cup ToSet(run.answer)
           lists == run.lists \cup {ListDoc(runs, run.page)}
<1>1. /\ UNCHANGED <<listing, changes, runs, raw, manifests, rpc, replay>>
      /\ pc = "accept"
  BY DEF AcceptPage, replaying
<1>2. CASE pc' = "idle"
  BY <1>1, <1>2, EndsHere
<1>3. CASE pc' # "idle"
  <2>1. run \in Local /\ runs \in Nat /\ run.page \in Nat /\ run.answer \in Seq(Item)
    BY <1>1 DEF SnapshotInv, TypesInv, Local
  <2>2. AcceptedPages /\ CurrentPage /\ DetailsInv /\ QuietInv
    BY <1>1 DEF SnapshotInv, CollectionInv
  <2>3. NoRepeats
    BY <1>3 DEF AcceptPage, Goto
  <2>4. PICK requests :
          /\ requests = run.requests + 1
                        + (IF run.page = 1 THEN Cardinality(WantedDetails) ELSE 0)
          /\ \/ /\ pc' = "manifest"
                /\ run' = [run EXCEPT !.seen = seen, !.requests = requests,
                                      !.total = run.reported, !.lists = lists]
             \/ /\ pc' = "request"
                /\ run' = [run EXCEPT !.seen = seen, !.requests = requests,
                                      !.total = run.reported, !.lists = lists,
                                      !.page = @ + 1]
    <3>1. PICK requests : requests = run.requests + 1
                        + (IF run.page = 1 THEN Cardinality(WantedDetails) ELSE 0)
      OBVIOUS
    <3> QED
      BY <1>3, <2>1, <3>1 DEF AcceptPage, Goto, Total, Local
  <2>5. requests \in Nat
    <3>1. IsFiniteSet(WantedDetails)
      BY <2>1, WantedAreAnswered
    <3>2. Cardinality(WantedDetails) \in Nat
      BY <3>1, FS_CardinalityType
    <3> QED
      BY <2>1, <2>4, <3>2 DEF Local
  <2>6. seen \subseteq Item /\ IsFiniteSet(seen)
    <3>1. /\ run.seen \subseteq Item /\ IsFiniteSet(run.seen)
          /\ ToSet(run.answer) \subseteq Item /\ IsFiniteSet(ToSet(run.answer))
      BY <1>1, <2>1, SetOfSeq DEF SnapshotInv, TypesInv, Local
    <3> QED
      BY <3>1, FS_Union
  <2>7. lists \subseteq Document /\ ListDoc(runs, run.page).page = run.page
    BY <2>1, DocumentForms DEF Local
  <2>8. /\ lists \subseteq raw /\ Items(Children(raw, lists)) = seen
        /\ OneEach(Children(raw, lists))
    BY <1>1, <2>3, PageIsWhole
  <2>9. \A l \in lists : l = ListDoc(runs, l.page) /\ (l.page < run.page \/ l.page = run.page)
    BY <1>1, <2>2, <2>7 DEF AcceptedPages
  <2> HIDE DEF seen, lists
  <2>10. /\ run' \in Local /\ run'.seen = seen /\ run'.lists = lists
         /\ run'.details = run.details /\ run'.answer = run.answer
         /\ run'.changes = run.changes /\ run'.exact = run.exact
         /\ run'.total = run.reported
         /\ \/ pc' = "manifest" /\ run'.page = run.page
            \/ pc' = "request" /\ run'.page = run.page + 1
    <3>1. run.page + 1 \in Nat \ {0}
      BY <2>1
    <3> QED
      BY <2>1, <2>4, <2>5, <2>6, <2>7, <3>1 DEF Local
  <2>11. TypesInv'
    BY <1>1, <2>6, <2>10 DEF SnapshotInv, TypesInv, Stages
  <2>12. AcceptedPages'
    <3>1. \A l \in lists : l.page \in Nat
      BY <2>7 DEF Document
    <3>2. \A l \in lists : l.page < run'.page \/ (pc' = "manifest" /\ l.page = run'.page)
      BY <2>1, <2>9, <2>10, <3>1
    <3> QED
      BY <1>1, <2>8, <2>9, <2>10, <3>2 DEF AcceptedPages
  <2>13. CurrentPage'
    <3>1. \A d \in raw : d.page \in Nat
      BY DEF SnapshotInv, TypesInv, Document
    <3> QED
      BY <1>1, <2>1, <2>2, <2>10, <3>1 DEF CurrentPage
  <2>14. Taken' = seen /\ Taken = seen
    BY <1>1, <2>10 DEF Taken, Answered, seen
  <2>15. DetailsInv' /\ QuietInv'
    BY <1>1, <2>2, <2>10, <2>14 DEF DetailsInv, QuietInv, Listed, Answered
  <2>16. ManifestsInv' /\ ReplayInv'
    BY <1>1, DocumentsAdded
  <2> QED
    BY <2>11, <2>12, <2>13, <2>15, <2>16 DEF SnapshotInv, CollectionInv
<1> QED
  BY <1>2, <1>3

LEMMA SaveManifestStep ==
  ASSUME SnapshotInv, SaveManifest
  PROVE  SnapshotInv'
<1> DEFINE new == [run |-> runs, items |-> run.total, lists |-> run.lists,
                   details |-> run.details,
                   quiet |-> run.exact /\ run.changes = changes, listed |-> Listed]
           items == Children(raw, run.lists)
<1>1. /\ UNCHANGED <<listing, changes, runs, raw, run, rpc, replay>>
      /\ pc = "manifest" /\ pc' = "idle"
  BY DEF SaveManifest, Goto, replaying
<1>2. CASE manifests' = manifests
  BY <1>1, <1>2, EndsHere
<1>3. CASE /\ manifests' = manifests \cup {new}
           /\ Cardinality(run.seen) = run.total
  <2>1. /\ run \in Local /\ runs \in Nat /\ IsFiniteSet(run.seen) /\ listing \in Seq(Item)
    BY <1>1 DEF SnapshotInv, TypesInv
  <2>2. AcceptedPages /\ DetailsInv /\ QuietInv
    BY <1>1 DEF SnapshotInv, CollectionInv
  <2>3. /\ Items(items) = run.seen /\ IsFiniteSet(items)
        /\ Cardinality(items) = run.total /\ Cardinality(Items(items)) = run.total
    BY <1>3, <2>1, <2>2, OneEachCount DEF AcceptedPages
  <2>4. Taken = run.seen
    BY <1>1 DEF Taken, Answered
  <2>5. ASSUME run.exact /\ run.changes = changes
        PROVE  run.seen = Listed
    <3>1. run.seen \subseteq Listed /\ Cardinality(run.seen) = Len(listing)
      BY <1>1, <1>3, <2>2, <2>4, <2>5 DEF QuietInv
    <3>2. IsFiniteSet(Listed) /\ Cardinality(Listed) <= Len(listing)
      BY <2>1, SetOfSeq DEF Listed
    <3>3. Cardinality(run.seen) <= Cardinality(Listed) /\ Cardinality(Listed) \in Nat
      BY <3>1, <3>2, FS_Subset, FS_CardinalityType
    <3>4. Cardinality(run.seen) = Cardinality(Listed)
      BY <2>1, <3>1, <3>2, <3>3
    <3> QED
      BY <3>1, <3>2, <3>4, FS_Subset
  <2>6. /\ new.run = runs /\ new.lists = run.lists /\ new.details = run.details
        /\ new.items = run.total /\ new.listed = Listed
        /\ new.quiet => run.exact /\ run.changes = changes
    OBVIOUS
  <2> HIDE DEF new, items
  <2>7. /\ new.lists \cup new.details \subseteq raw
        /\ Children(raw, new.lists) = items
        /\ Items(new.details) \subseteq Items(items)
        /\ new.quiet => Items(items) = new.listed
    BY <2>2, <2>3, <2>4, <2>5, <2>6 DEF AcceptedPages, DetailsInv, items
  <2>8. ManifestIsWhole'
    <3>1. \A m \in manifests' :
            /\ m.lists \cup m.details \subseteq raw
            /\ Cardinality(Children(raw, m.lists)) = m.items
            /\ Cardinality(Items(Children(raw, m.lists))) = m.items
            /\ Items(m.details) \subseteq Items(Children(raw, m.lists))
            /\ m.quiet => Items(Children(raw, m.lists)) = m.listed
      BY <1>3, <2>3, <2>6, <2>7 DEF SnapshotInv, ManifestsInv, ManifestIsWhole
    <3> QED
      BY <1>1, <3>1 DEF ManifestIsWhole
  <2>9. ManifestsInv'
    <3>1. \A m \in manifests' :
            /\ m.run \in Nat /\ m.run <= runs
            /\ \A l \in m.lists : l.run = m.run
            /\ IsFiniteSet(Children(raw, m.lists))
      <4>1. \A l \in new.lists : l.run = runs
        <5>1. \A l \in run.lists : l = ListDoc(runs, l.page) /\ l.page \in Nat
          BY <2>1, <2>2 DEF AcceptedPages, Local, Document
        <5> QED
          BY <2>1, <2>6, <5>1, DocumentForms
      <4> QED
        BY <1>3, <2>1, <2>3, <2>6, <2>7, <4>1 DEF SnapshotInv, ManifestsInv
    <3>2. \E m \in manifests' : \A n \in manifests' : n.run <= m.run
      BY <1>3, <2>6, <3>1
    <3> QED
      BY <1>1, <2>8, <3>1, <3>2 DEF ManifestsInv
  <2>10. ReplayInv'
    BY <1>1, <1>3, ReplayStays DEF replaying
  <2>11. TypesInv' /\ CollectionInv'
    BY <1>1 DEF SnapshotInv, TypesInv, CollectionInv
  <2> QED
    BY <2>9, <2>10, <2>11 DEF SnapshotInv
<1> QED
  BY <1>2, <1>3 DEF SaveManifest

-----------------------------------------------------------------------------
(* The replay *)

LEMMA ReadableWhole ==
  ASSUME SnapshotInv, NEW m \in manifests
  PROVE  Readable(m, raw)
  BY DEF SnapshotInv, ManifestsInv, ManifestIsWhole, Readable, MatchesManifest

LEMMA LoadDocumentsStep ==
  ASSUME SnapshotInv, NEW limit \in Limit, LoadDocuments(limit)
  PROVE  SnapshotInv'
<1>1. /\ UNCHANGED <<listing, changes, runs, pc, run, raw, manifests>>
      /\ rpc' = "loaded"
      /\ replay' = [limit |-> limit, docs |-> raw, known |-> manifests,
                    manifest |-> None, items |-> {}, details |-> {}, complete |-> FALSE]
  BY DEF LoadDocuments, collection
<1>2. TypesInv' /\ CollectionInv'
  BY <1>1, CollectionStays
<1>3. ManifestsInv'
  BY <1>1 DEF SnapshotInv, ManifestsInv, ManifestIsWhole
<1>4. ReplayInv'
  <2>1. limit \in Nat
    BY SnapshotAssumption
  <2>2. \A m \in manifests : Readable(m, raw)
    BY ReadableWhole
  <2>3. ReplayIsWhole'
    BY <1>1 DEF ReplayIsWhole
  <2> QED
    BY <1>1, <2>1, <2>2, <2>3 DEF ReplayInv
<1> QED
  BY <1>2, <1>3, <1>4 DEF SnapshotInv

LEMMA LatestIsAManifest == ASSUME SnapshotInv PROVE Latest \in manifests \cup {None}
  BY DEF SnapshotInv, ManifestsInv, Latest

LEMMA LoadManifestStep ==
  ASSUME SnapshotInv, NEW m \in manifests \cup {None}, LoadManifest(m)
  PROVE  SnapshotInv'
<1>1. /\ UNCHANGED <<listing, changes, runs, pc, run, raw, manifests>>
      /\ rpc = "loaded" /\ rpc' = "select" /\ replay' = [replay EXCEPT !.manifest = m]
  BY DEF LoadManifest, collection
<1>2. TypesInv' /\ CollectionInv'
  BY <1>1, CollectionStays
<1>3. ManifestsInv'
  BY <1>1 DEF SnapshotInv, ManifestsInv, ManifestIsWhole
<1>4. ReplayInv'
  <2>1. ReplayIsWhole'
    BY <1>1 DEF ReplayIsWhole
  <2> QED
    BY <1>1, <2>1 DEF SnapshotInv, ReplayInv
<1> QED
  BY <1>2, <1>3, <1>4 DEF SnapshotInv

\* A limit of as many documents takes them all.
LEMMA FirstIsAll ==
  ASSUME NEW docs \in SUBSET Document, IsFiniteSet(docs), NEW limit \in Nat,
         Cardinality(docs) <= limit, \A d \in docs : d.item \in Item
  PROVE  First(docs, limit) = docs
<1>1. SUFFICES ASSUME NEW d \in docs
               PROVE  Cardinality({e \in docs : Before(e, d)}) < limit
  BY DEF First
<1> DEFINE earlier == {e \in docs : Before(e, d)}
<1>2. d.page \in Nat /\ d.item \in Nat
  <2>1. d \in Document /\ d.item \in Item
    OBVIOUS
  <2>2. d.page \in Nat
    BY <2>1 DEF Document
  <2>3. Item \subseteq Nat
    BY SnapshotAssumption
  <2> QED
    BY <2>1, <2>2, <2>3
<1>3. d \notin earlier
  BY <1>2 DEF Before
<1>4. earlier \in SUBSET docs
  OBVIOUS
<1> HIDE DEF earlier
<1>5. /\ IsFiniteSet(earlier) /\ Cardinality(earlier) <= Cardinality(docs)
      /\ Cardinality(earlier) # Cardinality(docs)
  BY <1>3, <1>4, FS_Subset
<1>6. Cardinality(earlier) \in Nat /\ Cardinality(docs) \in Nat
  BY <1>5, FS_CardinalityType
<1> QED
  BY <1>5, <1>6 DEF earlier

LEMMA SelectSnapshotStep ==
  ASSUME SnapshotInv, SelectSnapshot
  PROVE  SnapshotInv'
<1> DEFINE m == replay.manifest
           items == Children(replay.docs, m.lists)
           chosen == First(items, replay.limit)
<1>1. /\ UNCHANGED <<listing, changes, runs, pc, run, raw, manifests>>
      /\ rpc = "select"
  BY DEF SelectSnapshot, collection
<1>2. TypesInv' /\ CollectionInv'
  BY <1>1, CollectionStays
<1>3. ManifestsInv'
  BY <1>1 DEF SnapshotInv, ManifestsInv, ManifestIsWhole
<1>4. /\ m \in manifests /\ replay.docs \subseteq raw /\ replay.limit \in Nat
      /\ \A n \in replay.known : Readable(n, replay.docs)
      /\ replay = [limit |-> replay.limit, docs |-> replay.docs, known |-> replay.known,
                   manifest |-> replay.manifest, items |-> replay.items,
                   details |-> replay.details, complete |-> replay.complete]
  BY <1>1 DEF SnapshotInv, ReplayInv, SelectSnapshot
<1>5. CASE /\ Readable(m, replay.docs)
           /\ rpc' = "done"
           /\ replay' = [replay EXCEPT !.items = chosen,
                !.details = {d \in m.details : d.item \in Items(chosen)},
                !.complete = CompleteWithin(m)]
  <2>1. /\ Children(raw, m.lists) \subseteq Document /\ IsFiniteSet(Children(raw, m.lists))
        /\ Cardinality(Children(raw, m.lists)) = m.items
        /\ Items(m.details) \subseteq Items(Children(raw, m.lists))
        /\ items \subseteq Children(raw, m.lists)
    BY <1>4 DEF SnapshotInv, TypesInv, ManifestsInv, ManifestIsWhole, Children
  <2>2. Cardinality(items) = m.items
    BY <1>5 DEF Readable, MatchesManifest
  <2>3. items = Children(raw, m.lists)
    BY <2>1, <2>2, FS_Subset
  <2>4. ASSUME CompleteWithin(m)
        PROVE  chosen = items /\ {d \in m.details : d.item \in Items(chosen)} = m.details
    <3>1. Cardinality(items) <= replay.limit
      BY <1>4, <2>1, <2>2, <2>3, <2>4, FS_CardinalityType DEF CompleteWithin
    <3>2. \A d \in items : d.item \in Item
      BY <2>1, <2>3 DEF Children, Document
    <3>3. chosen = items
      BY <1>4, <2>1, <2>3, <3>1, <3>2, FirstIsAll
    <3> HIDE DEF chosen
    <3> QED
      BY <2>1, <2>3, <3>3 DEF Items
  <2>5. ReplayIsWhole'
    BY <1>1, <1>4, <1>5, <2>3, <2>4 DEF ReplayIsWhole
  <2>6. ReplayInv'
    BY <1>1, <1>4, <1>5, <2>5 DEF ReplayInv
  <2> QED
    BY <1>2, <1>3, <2>6 DEF SnapshotInv
<1>6. CASE ~Readable(m, replay.docs) /\ rpc' = "missing" /\ replay' = replay
  <2>1. m \notin replay.known
    BY <1>4, <1>6
  <2>2. ReplayInv'
    BY <1>1, <1>4, <1>6, <2>1 DEF ReplayInv, ReplayIsWhole
  <2> QED
    BY <1>2, <1>3, <2>2 DEF SnapshotInv
<1> QED
  BY <1>5, <1>6 DEF SelectSnapshot, Readable

LEMMA SelectLatestStep ==
  ASSUME SnapshotInv, SelectLatest
  PROVE  SnapshotInv'
<1>1. /\ UNCHANGED <<listing, changes, runs, pc, run, raw, manifests>>
      /\ rpc = "select" /\ replay.manifest = None
  BY DEF SelectLatest, collection
<1>2. PICK items, details :
        \/ rpc' = "missing" /\ replay' = replay
        \/ rpc' = "done" /\ replay' = [replay EXCEPT !.items = items, !.details = details]
  BY DEF SelectLatest
<1>3. TypesInv' /\ CollectionInv'
  BY <1>1, CollectionStays
<1>4. ManifestsInv'
  BY <1>1 DEF SnapshotInv, ManifestsInv, ManifestIsWhole
<1>5. /\ replay = [limit |-> replay.limit, docs |-> replay.docs, known |-> replay.known,
                   manifest |-> replay.manifest, items |-> replay.items,
                   details |-> replay.details, complete |-> replay.complete]
      /\ replay.complete = FALSE
  BY <1>1 DEF SnapshotInv, ReplayInv
<1>6. /\ replay'.complete = FALSE /\ replay'.manifest = None /\ replay'.docs = replay.docs
      /\ replay'.known = replay.known /\ replay'.limit = replay.limit
      /\ replay' = [limit |-> replay'.limit, docs |-> replay'.docs, known |-> replay'.known,
                    manifest |-> replay'.manifest, items |-> replay'.items,
                    details |-> replay'.details, complete |-> replay'.complete]
  BY <1>1, <1>2, <1>5
<1>7. ReplayIsWhole'
  BY <1>2, <1>6 DEF ReplayIsWhole
<1>8. ReplayInv'
  BY <1>1, <1>2, <1>6, <1>7 DEF SnapshotInv, ReplayInv
<1> QED
  BY <1>3, <1>4, <1>8 DEF SnapshotInv

LEMMA EndReplayStep ==
  ASSUME SnapshotInv, EndReplay
  PROVE  SnapshotInv'
<1>1. /\ UNCHANGED <<listing, changes, runs, pc, run, raw, manifests>>
      /\ rpc' = "idle"
  BY DEF EndReplay, collection
<1>2. TypesInv' /\ CollectionInv'
  BY <1>1, CollectionStays
<1>3. ManifestsInv' /\ ReplayInv'
  BY <1>1 DEF SnapshotInv, ManifestsInv, ManifestIsWhole, ReplayInv, ReplayIsWhole
<1> QED
  BY <1>2, <1>3 DEF SnapshotInv

-----------------------------------------------------------------------------
(* The theorems *)

LEMMA SnapshotInit == ASSUME Init PROVE SnapshotInv
<1>1. TypesInv /\ CollectionInv
  BY SnapshotAssumption DEF Init, TypesInv, CollectionInv
<1>2. ManifestsInv /\ ReplayInv
  BY DEF Init, ManifestsInv, ManifestIsWhole, ReplayInv, ReplayIsWhole
<1> QED
  BY <1>1, <1>2 DEF SnapshotInv

LEMMA SnapshotStep == ASSUME SnapshotInv, [Next]_vars PROVE SnapshotInv'
<1>1. CASE \E at \in 1 .. Len(listing) : Withdraw(at)
  BY <1>1, WithdrawStep
<1>2. CASE \E i \in Item : \E at \in 1 .. Len(listing) + 1 : Publish(i, at)
  BY <1>2, PublishStep
<1>3. CASE Begin
  BY <1>3, BeginStep
<1>4. CASE RequestPage
  BY <1>4, RequestPageStep
<1>5. CASE SaveList
  BY <1>5, SaveListStep
<1>6. CASE SaveItem
  BY <1>6, SaveItemStep
<1>7. CASE SaveDetail
  BY <1>7, SaveDetailStep
<1>8. CASE AcceptPage
  BY <1>8, AcceptPageStep
<1>9. CASE SaveManifest
  BY <1>9, SaveManifestStep
<1>10. CASE Fail
  BY <1>10, EndsHere DEF Fail, Goto, replaying
<1>11. CASE \E limit \in Limit : LoadDocuments(limit)
  BY <1>11, LoadDocumentsStep
<1>12. CASE LoadManifest(Latest) \/ \E m \in manifests : LoadManifest(m)
  BY <1>12, LatestIsAManifest, LoadManifestStep
<1>13. CASE SelectSnapshot
  BY <1>13, SelectSnapshotStep
<1>14. CASE SelectLatest
  BY <1>14, SelectLatestStep
<1>15. CASE EndReplay
  BY <1>15, EndReplayStep
<1>16. CASE UNCHANGED vars
  <2>1. UNCHANGED <<listing, changes, runs, pc, run, raw, manifests, rpc, replay>>
    BY <1>16 DEF vars, collection, replaying
  <2>2. TypesInv' /\ CollectionInv'
    BY <2>1, CollectionStays
  <2>3. ManifestsInv' /\ ReplayInv'
    BY <2>1, DocumentsAdded
  <2> QED
    BY <2>2, <2>3 DEF SnapshotInv
<1> QED
  BY <1>1, <1>2, <1>3, <1>4, <1>5, <1>6, <1>7, <1>8, <1>9, <1>10, <1>11, <1>12,
     <1>13, <1>14, <1>15, <1>16 DEF Next, Collect, Replay

LEMMA SnapshotAlways == Spec => []SnapshotInv
<1> QED
  BY SnapshotInit, SnapshotStep, PTL DEF Spec

(* However the source changes and wherever a collection ends, a manifest   *)
(* names stored documents only, one of each item, as many as it says; and  *)
(* a source that was quiet is collected whole.                             *)
THEOREM ManifestsAreWhole == Spec => []ManifestIsWhole
<1>1. SnapshotInv => ManifestIsWhole
  BY DEF SnapshotInv, ManifestsInv
<1> QED
  BY <1>1, SnapshotAlways, PTL

(* Whatever collections write beside it, a replay that calls itself        *)
(* complete is of its manifest and all of it, and one that finds documents *)
(* missing was given a manifest newer than what it had read.               *)
THEOREM ReplaysAreWhole == Spec => []ReplayIsWhole
<1>1. SnapshotInv => ReplayIsWhole
  BY DEF SnapshotInv, ReplayInv
<1> QED
  BY <1>1, SnapshotAlways, PTL

-----------------------------------------------------------------------------
(***************************************************************************)
(* SupplementalBundle.  The inductive invariant.                           *)
(***************************************************************************)

ItemsOf(docs, g) == {d \in docs : d.role = "list_item" /\ d.of = g}

(* The list of a collection is stored before anything else of it, and one  *)
(* of the stored lists is the newest.                                      *)
StoredInv ==
  /\ \A d \in stored : d.of \in 1 .. gathers /\ ListRaw(d.of) \in stored
  /\ HasLatest => \E l \in Role(stored, "list_response") :
                    \A k \in Role(stored, "list_response") : k.of <= l.of

(* What was verified is what is, or is to be, stored of a collection.      *)
IsVerified(g, details, docs) ==
  \E v \in verified : v.of = g /\ v.details = details /\ v.items = ItemsOf(docs, g)

GatherInv ==
  ~Idle =>
    /\ gather = [phase |-> gather.phase, whole |-> gather.whole, items |-> gather.items,
                 plan |-> gather.plan, details |-> gather.details, unsaved |-> gather.unsaved]
    /\ gathers \in Nat \ {0} /\ gather.phase \in {"details", "save"}
    /\ \A d \in gather.details : d.of = gathers /\ d.role = "detail_response"
    /\ gather.phase = "details" => \A d \in stored : d.of < gathers
    /\ gather.phase = "save" =>
         /\ \A d \in gather.unsaved :
              d.of = gathers /\ (d.role = "list_response" => d = ListRaw(gathers))
         /\ ListRaw(gathers) \in stored \cup gather.unsaved
         /\ IsVerified(gathers, gather.details, stored \cup gather.unsaved)

CompleteInv ==
  \A m \in complete :
    /\ m.of \in 1 .. gathers /\ (~Idle => m.of < gathers)
    /\ IsVerified(m.of, m.details, stored)

BundleInv == gathers \in Nat /\ StoredInv /\ GatherInv /\ CompleteInv

-----------------------------------------------------------------------------
(* The documents of a bundle *)

LEMMA RawForms ==
  ASSUME NEW g
  PROVE  /\ ListRaw(g).role = "list_response" /\ ListRaw(g).of = g
         /\ \A i : ItemRaw(g, i).role = "list_item" /\ ItemRaw(g, i).of = g
         /\ \A i, nr, page : /\ DetailRaw(g, i, nr, page).role = "detail_response"
                             /\ DetailRaw(g, i, nr, page).of = g
  BY DEF ListRaw, ItemRaw, DetailRaw

(* What one collection saves does not touch what was verified of another.  *)
LEMMA VerifiedStays ==
  ASSUME NEW g, NEW details, NEW docs, NEW more,
         \A d \in more : d.of # g, IsVerified(g, details, docs), verified \subseteq verified'
  PROVE  IsVerified(g, details, docs \cup more)'
<1>1. ItemsOf(docs \cup more, g) = ItemsOf(docs, g)
  BY DEF ItemsOf
<1> QED
  BY <1>1 DEF IsVerified

-----------------------------------------------------------------------------
(* The steps of a collection *)

LEMMA InitBundle == BundleInit => BundleInv
  BY DEF BundleInit, BundleInv, StoredInv, GatherInv, CompleteInv, Idle, HasLatest, Role

LEMMA GatherListKeeps ==
  ASSUME BundleInv, NEW listed, NEW limit, NEW details, NEW whole,
         GatherList(listed, limit, details, whole)
  PROVE  BundleInv'
<1>1. /\ Idle /\ gathers' = gathers + 1 /\ UNCHANGED <<stored, complete, verified>>
      /\ \E items, plan :
           gather' = [phase |-> "details", whole |-> whole, items |-> items,
                      plan |-> plan, details |-> {}, unsaved |-> {}]
  BY DEF GatherList
<1>2. gathers \in Nat /\ gathers' \in Nat \ {0} /\ gathers < gathers'
  BY <1>1 DEF BundleInv
<1>3. \A d \in stored : d.of \in 1 .. gathers' /\ d.of < gathers'
  BY <1>1, <1>2 DEF BundleInv, StoredInv
<1>4. StoredInv'
  BY <1>1, <1>3 DEF BundleInv, StoredInv, HasLatest, Role, ListRaw
<1>5. GatherInv'
  BY <1>1, <1>2, <1>3 DEF GatherInv
<1>6. CompleteInv'
  <2>1. \A m \in complete : m.of \in 1 .. gathers' /\ m.of < gathers' /\ IsVerified(m.of, m.details, stored)
    BY <1>1, <1>2 DEF BundleInv, CompleteInv
  <2> QED
    BY <1>1, <2>1 DEF CompleteInv, IsVerified
<1> QED
  BY <1>2, <1>4, <1>5, <1>6 DEF BundleInv

LEMMA GatherDetailKeeps ==
  ASSUME BundleInv, NEW page, GatherDetail(page)
  PROVE  BundleInv'
<1>1. /\ ~Idle /\ gather.phase = "details" /\ UNCHANGED <<gathers, stored, complete, verified>>
      /\ \E i, nr : gather' = [gather EXCEPT !.plan = Tail(@),
                                 !.details = @ \cup {DetailRaw(gathers, i, nr, page)}]
  BY DEF GatherDetail
<1>2. PICK i, nr : gather' = [gather EXCEPT !.plan = Tail(@),
                                !.details = @ \cup {DetailRaw(gathers, i, nr, page)}]
  BY <1>1
<1> DEFINE d == DetailRaw(gathers, i, nr, page)
           details == gather.details \cup {d}
           plan == Tail(gather.plan)
<1>3. gather' = [phase |-> gather.phase, whole |-> gather.whole, items |-> gather.items,
                 plan |-> plan, details |-> details, unsaved |-> gather.unsaved]
  BY <1>1, <1>2 DEF BundleInv, GatherInv
<1>4. d.of = gathers /\ d.role = "detail_response"
  BY RawForms
<1>5. \A e \in details : e.of = gathers /\ e.role = "detail_response"
  BY <1>1, <1>4 DEF BundleInv, GatherInv
<1> HIDE DEF d, details, plan
<1>6. GatherInv'
  BY <1>1, <1>3, <1>5 DEF BundleInv, GatherInv
<1>7. StoredInv' /\ CompleteInv'
  BY <1>1 DEF BundleInv, StoredInv, HasLatest, Role, ListRaw, CompleteInv, IsVerified, ItemsOf
<1> QED
  BY <1>1, <1>6, <1>7 DEF BundleInv

(* A collection that ends, whether it is complete or not.                  *)
LEMMA EndKeeps ==
  ASSUME BundleInv, gather' = Nil, UNCHANGED <<gathers, stored, verified>>,
         \A m \in complete' \ complete : m.of \in 1 .. gathers /\ IsVerified(m.of, m.details, stored)
  PROVE  BundleInv'
<1>1. GatherInv'
  BY DEF GatherInv, Idle
<1>2. StoredInv'
  BY DEF BundleInv, StoredInv, HasLatest, Role, ListRaw
<1>3. CompleteInv'
  BY DEF BundleInv, CompleteInv, IsVerified, Idle
<1> QED
  BY <1>1, <1>2, <1>3 DEF BundleInv

LEMMA VerifyKeeps ==
  ASSUME BundleInv, Verify
  PROVE  BundleInv'
<1>1. ~Idle /\ gather.phase = "details" /\ UNCHANGED <<gathers, stored, complete>>
  BY DEF Verify
<1>2. CASE gather' = Nil /\ UNCHANGED verified
  BY <1>1, <1>2, EndKeeps
<1>3. CASE ~(gather' = Nil /\ UNCHANGED verified)
  <2> DEFINE unsaved == {ListRaw(gathers)} \cup ItemsRaw \cup gather.details
             v == [of |-> gathers, items |-> ItemsRaw, details |-> gather.details]
  <2>1. /\ gather' = [gather EXCEPT !.phase = "save", !.unsaved = unsaved]
        /\ verified' = verified \cup {v}
    BY <1>3 DEF Verify
  <2>2. \A d \in ItemsRaw : d.of = gathers /\ d.role = "list_item"
    BY RawForms DEF ItemsRaw
  <2>3. ListRaw(gathers).of = gathers /\ ListRaw(gathers).role = "list_response"
    BY RawForms
  <2>4. \A d \in gather.details : d.of = gathers /\ d.role = "detail_response"
    BY <1>1 DEF BundleInv, GatherInv
  <2>5. \A d \in unsaved : d.of = gathers /\ (d.role = "list_response" => d = ListRaw(gathers))
    BY <2>2, <2>3, <2>4
  <2>6. ItemsOf(stored \cup unsaved, gathers) = ItemsRaw
    <3>1. \A d \in stored : d.of # gathers
      BY <1>1 DEF BundleInv, StoredInv, GatherInv
    <3> QED
      BY <2>2, <2>3, <2>4, <3>1 DEF ItemsOf
  <2>7. ListRaw(gathers) \in unsaved
    OBVIOUS
  <2>8. v.of = gathers /\ v.details = gather.details /\ v.items = ItemsRaw
    OBVIOUS
  <2> HIDE DEF unsaved, v
  <2>9. gather' = [phase |-> "save", whole |-> gather.whole, items |-> gather.items,
                   plan |-> gather.plan, details |-> gather.details, unsaved |-> unsaved]
    BY <1>1, <2>1 DEF BundleInv, GatherInv
  <2>10. gather'.phase = "save" /\ gather'.details = gather.details /\ gather'.unsaved = unsaved
    BY <2>9
  <2>11. IsVerified(gathers, gather.details, stored \cup gather.unsaved)'
    <3>1. ItemsOf(stored' \cup gather'.unsaved, gathers') = ItemsRaw
      BY <1>1, <2>6, <2>10
    <3>2. v \in verified' /\ v.of = gathers' /\ v.details = gather'.details
      BY <1>1, <2>1, <2>8, <2>10
    <3> QED
      BY <2>8, <3>1, <3>2 DEF IsVerified, ItemsOf
  <2>12. GatherInv'
    <3>1. /\ \A d \in gather'.details : d.of = gathers' /\ d.role = "detail_response"
          /\ \A d \in gather'.unsaved : d.of = gathers' /\ (d.role = "list_response" => d = ListRaw(gathers'))
          /\ ListRaw(gathers') \in gather'.unsaved
      BY <1>1, <2>4, <2>5, <2>7, <2>10
    <3>2. gathers' \in Nat \ {0}
      BY <1>1 DEF BundleInv, GatherInv
    <3> QED
      BY <2>9, <2>11, <3>1, <3>2 DEF GatherInv
  <2>13. StoredInv'
    BY <1>1 DEF BundleInv, StoredInv, HasLatest, Role, ListRaw
  <2>14. CompleteInv'
    BY <1>1, <2>1 DEF BundleInv, CompleteInv, IsVerified, ItemsOf
  <2> QED
    BY <1>1, <2>12, <2>13, <2>14 DEF BundleInv
<1> QED
  BY <1>2, <1>3

(* The list is saved first, so what is saved later finds it there.         *)
LEMMA SaveRawKeeps ==
  ASSUME BundleInv, SaveRaw
  PROVE  BundleInv'
<1>1. ~Idle /\ gather.phase = "save" /\ UNCHANGED <<gathers, complete, verified>>
  BY DEF SaveRaw
<1>2. PICK d \in gather.unsaved :
        /\ \A e \in gather.unsaved \ {d} : IsSavedBefore(d, e)
        /\ stored' = stored \cup {d}
        /\ gather' = [gather EXCEPT !.unsaved = @ \ {d}]
  BY DEF SaveRaw
<1>3. /\ gathers \in Nat \ {0} /\ \A e \in gather.details : e.of = gathers /\ e.role = "detail_response"
      /\ \A e \in gather.unsaved : e.of = gathers /\ (e.role = "list_response" => e = ListRaw(gathers))
      /\ ListRaw(gathers) \in stored \cup gather.unsaved
      /\ IsVerified(gathers, gather.details, stored \cup gather.unsaved)
  BY <1>1 DEF BundleInv, GatherInv
<1> DEFINE unsaved == gather.unsaved \ {d}
<1>4. gather' = [phase |-> "save", whole |-> gather.whole, items |-> gather.items,
                 plan |-> gather.plan, details |-> gather.details, unsaved |-> unsaved]
  BY <1>1, <1>2 DEF BundleInv, GatherInv
<1>5. gather'.phase = "save" /\ gather'.details = gather.details /\ gather'.unsaved = unsaved
  BY <1>4
<1>6. unsaved \subseteq gather.unsaved /\ stored' \cup unsaved = stored \cup gather.unsaved
  BY <1>2
<1> HIDE DEF unsaved
<1>7. d.of = gathers
  BY <1>3
<1>8. ListRaw(gathers) \in stored'
  <2>1. CASE ListRaw(gathers) \in stored \cup {d}
    BY <1>2, <2>1
  <2>2. CASE ListRaw(gathers) \notin stored \cup {d}
    <3>1. IsSavedBefore(d, ListRaw(gathers)) /\ ListRaw(gathers).role = "list_response"
      BY <1>2, <1>3, <2>2, RawForms
    <3>2. d.role = "list_response"
      BY <3>1 DEF IsSavedBefore
    <3> QED
      BY <1>3, <2>2, <3>2
  <2> QED
    BY <2>1, <2>2
<1>9. StoredInv'
  <2>1. \A e \in stored' : e.of \in 1 .. gathers /\ ListRaw(e.of) \in stored'
    BY <1>2, <1>3, <1>7, <1>8 DEF BundleInv, StoredInv
  <2>2. \E l \in Role(stored', "list_response") :
          \A k \in Role(stored', "list_response") : k.of <= l.of
    <3>1. CASE d.role = "list_response"
      <4>1. \A k \in Role(stored', "list_response") : k.of <= d.of
        BY <1>3, <1>7, <2>1 DEF Role
      <4> QED
        BY <1>2, <3>1, <4>1 DEF Role
    <3>2. CASE d.role # "list_response"
      <4>1. Role(stored', "list_response") = Role(stored, "list_response")
        BY <1>2, <3>2 DEF Role
      <4>2. Role(stored, "list_response") # {}
        BY <1>8, <4>1, RawForms DEF Role
      <4> QED
        BY <4>1, <4>2 DEF BundleInv, StoredInv, HasLatest
    <3> QED
      BY <3>1, <3>2
  <2> QED
    BY <1>1, <2>1, <2>2 DEF StoredInv
<1>10. GatherInv'
  <2>1. IsVerified(gathers, gather.details, stored \cup gather.unsaved)'
    BY <1>1, <1>3, <1>5, <1>6 DEF IsVerified, ItemsOf
  <2>2. /\ \A e \in gather'.details : e.of = gathers' /\ e.role = "detail_response"
        /\ \A e \in gather'.unsaved : e.of = gathers' /\ (e.role = "list_response" => e = ListRaw(gathers'))
        /\ ListRaw(gathers') \in stored' /\ gathers' \in Nat \ {0}
    BY <1>1, <1>3, <1>5, <1>6, <1>8
  <2> QED
    BY <1>4, <2>1, <2>2 DEF GatherInv
<1>11. CompleteInv'
  <2>1. ASSUME NEW m \in complete
        PROVE  m.of \in 1 .. gathers /\ m.of < gathers /\ IsVerified(m.of, m.details, stored)
    BY <1>1 DEF BundleInv, CompleteInv
  <2>2. ASSUME NEW m \in complete PROVE IsVerified(m.of, m.details, stored)'
    <3>1. ItemsOf(stored', m.of) = ItemsOf(stored, m.of)
      BY <1>2, <1>7, <2>1 DEF ItemsOf
    <3> QED
      BY <1>1, <2>1, <3>1 DEF IsVerified
  <2> QED
    BY <1>1, <2>1, <2>2 DEF CompleteInv
<1> QED
  BY <1>1, <1>3, <1>9, <1>10, <1>11 DEF BundleInv

LEMMA EndGatherKeeps ==
  ASSUME BundleInv, EndGather
  PROVE  BundleInv'
<1>1. /\ ~Idle /\ gather.phase = "save" /\ gather.unsaved = {} /\ gather' = Nil
      /\ UNCHANGED <<gathers, stored, verified>>
      /\ \A m \in complete' \ complete : m = [of |-> gathers, details |-> gather.details]
  BY DEF EndGather
<1>2. gathers \in 1 .. gathers /\ IsVerified(gathers, gather.details, stored)
  <2>1. stored \cup gather.unsaved = stored
    BY <1>1
  <2> QED
    BY <1>1, <2>1 DEF BundleInv, GatherInv
<1>3. ASSUME NEW m \in complete' \ complete
      PROVE  m.of \in 1 .. gathers /\ IsVerified(m.of, m.details, stored)
  <2>1. m.of = gathers /\ m.details = gather.details
    BY <1>1, <1>3
  <2> QED
    BY <1>2, <2>1
<1> QED
  BY <1>1, <1>3, EndKeeps

LEMMA NextBundle == BundleInv /\ [BundleNext]_bundleVars => BundleInv'
<1> SUFFICES ASSUME BundleInv, [BundleNext]_bundleVars PROVE BundleInv'
  OBVIOUS
<1>1. ASSUME NEW listed, NEW details, NEW limit, NEW whole, GatherList(listed, limit, details, whole)
      PROVE  BundleInv'
  BY <1>1, GatherListKeeps
<1>2. ASSUME NEW page, GatherDetail(page) PROVE BundleInv'
  BY <1>2, GatherDetailKeeps
<1>3. CASE GatherFails
  BY <1>3, EndKeeps DEF GatherFails
<1>4. CASE NextDay \/ UNCHANGED bundleVars
  <2>1. UNCHANGED <<gathers, gather, stored, complete, verified>>
    BY <1>4 DEF NextDay, bundleVars
  <2>2. StoredInv'
    BY <2>1 DEF BundleInv, StoredInv, HasLatest, Role, ListRaw
  <2>3. GatherInv'
    BY <2>1 DEF BundleInv, GatherInv, Idle, ListRaw, IsVerified, ItemsOf
  <2>4. CompleteInv'
    BY <2>1 DEF BundleInv, CompleteInv, Idle, IsVerified, ItemsOf
  <2> QED
    BY <2>1, <2>2, <2>3, <2>4 DEF BundleInv
<1> QED
  BY <1>1, <1>2, <1>3, <1>4, VerifyKeeps, SaveRawKeeps, EndGatherKeeps DEF BundleNext

LEMMA BundleAlways == BundleSpec => []BundleInv
<1> QED
  BY InitBundle, NextBundle, PTL DEF BundleSpec

-----------------------------------------------------------------------------
(* What a replay takes *)

(* The items and the details of the latest batch are all of the collection *)
(* that stored the newest list.                                            *)
LEMMA LatestOfNewest ==
  ASSUME BundleInv, HasLatest
  PROVE  \E g \in Nat : \A d \in LatestBatch.items \cup LatestBatch.details : d.of = g
<1> DEFINE lists == Role(stored, "list_response")
           list == CHOOSE l \in lists : \A k \in lists : k.of <= l.of
           items == {d \in Role(stored, "list_item") : d.of = list.of}
           details == {d \in Role(stored, "detail_response") :
                         d.item \in ItemsIn(items) /\ NotOlder(d, list)}
           newest == {d \in details : ~\E e \in details : e.item = d.item /\ IsNewer(e, d)}
<1>1. list \in lists /\ \A k \in lists : k.of <= list.of
  BY DEF BundleInv, StoredInv
<1>2. LatestBatch = [items |-> items, details |-> newest]
  BY DEF LatestBatch
<1>3. \A d \in newest : d \in stored /\ d.of >= list.of
  BY DEF NotOlder, Role
<1>4. \A d \in items : d.of = list.of
  OBVIOUS
<1>5. list \in stored
  BY <1>1 DEF Role
<1> HIDE DEF items, newest, list
<1>6. \A d \in stored : d.of <= list.of
  <2>1. \A d \in stored : ListRaw(d.of) \in lists
    BY RawForms DEF BundleInv, StoredInv, Role
  <2> QED
    BY <1>1, <2>1, RawForms
<1>7. \A d \in newest : d.of = list.of
  BY <1>3, <1>5, <1>6 DEF BundleInv, StoredInv
<1>8. list.of \in Nat
  BY <1>5 DEF BundleInv, StoredInv
<1> QED
  BY <1>2, <1>4, <1>7, <1>8

(* A replay of the latest batch takes the details of the collection that   *)
(* made the list, or none.                                                 *)
THEOREM LatestIsOfOne == BundleSpec => []LatestIsOfOneCollection
<1>1. ASSUME BundleInv, HasLatest
      PROVE  Cardinality({d.of : d \in LatestBatch.items \cup LatestBatch.details}) <= 1
  <2>1. PICK g \in Nat : \A d \in LatestBatch.items \cup LatestBatch.details : d.of = g
    BY <1>1, LatestOfNewest
  <2> DEFINE taken == LatestBatch.items \cup LatestBatch.details
           ofs == {d.of : d \in taken}
  <2>2. ofs = {} \/ ofs = {g}
    BY <2>1
  <2> HIDE DEF ofs
  <2>3. Cardinality({}) = 0 /\ Cardinality({g}) = 1
    BY FS_EmptySet, FS_Singleton
  <2>4. Cardinality(ofs) <= 1
    BY <2>2, <2>3
  <2> QED
    BY <2>4 DEF ofs
<1>2. BundleInv => LatestIsOfOneCollection
  BY <1>1 DEF LatestIsOfOneCollection
<1> QED
  BY <1>2, BundleAlways, PTL

(* A replay of a snapshot decides what its collection verified, whatever   *)
(* was collected since.                                                    *)
THEOREM SnapshotDecides == BundleSpec => []SnapshotDecidesOnTheBundle
<1>1. ASSUME BundleInv, NEW m \in complete
      PROVE  \E v \in verified : v.of = m.of /\ Extract(SnapshotBatch(m)) = Extract(v)
  <2>1. PICK v \in verified : v.of = m.of /\ v.details = m.details /\ v.items = ItemsOf(stored, m.of)
    BY <1>1 DEF BundleInv, CompleteInv, IsVerified
  <2>2. SnapshotBatch(m).items = v.items /\ SnapshotBatch(m).details = v.details
    BY <2>1 DEF SnapshotBatch, DetailsOfManifest, Role, ItemsOf
  <2>3. Extract(SnapshotBatch(m)) = Extract(v)
    BY <2>2 DEF Extract
  <2> QED
    BY <2>1, <2>3
<1>2. BundleInv => SnapshotDecidesOnTheBundle
  BY <1>1 DEF SnapshotDecidesOnTheBundle
<1> QED
  BY <1>2, BundleAlways, PTL

-----------------------------------------------------------------------------
(* The numbers of the details *)

(* Details are told apart by their collection and their number in it.      *)
IsDetail(d) ==
  /\ d.role = "detail_response" /\ d.of \in Nat /\ d.nr \in Nat /\ d.day \in Nat
  /\ d.page \in PagesOf[kind]
IsNumbered(docs) == \A d, e \in docs : d.of = e.of /\ d.nr = e.nr => d = e
AreDetails(docs) == IsNumbered(docs) /\ \A d \in docs : IsDetail(d)

(* What is stored of the collection at work is what it has gathered.       *)
NumbersInv ==
  /\ day \in Nat /\ kind \in {"pages", "tabs", "cards"}
  /\ AreDetails(Role(stored, "detail_response"))
  /\ \A v \in verified : IsFiniteSet(v.details) /\ AreDetails(v.details)
  /\ ~Idle =>
       /\ IsFiniteSet(gather.details) /\ AreDetails(gather.details)
       /\ \A d \in gather.details : d.nr <= Cardinality(gather.details)
       /\ gather.phase = "save" =>
            \A d \in stored \cup gather.unsaved :
               d.of = gathers /\ d.role = "detail_response" => d \in gather.details

(* A new detail takes the next number.                                     *)
LEMMA GatherDetailNumbers ==
  ASSUME BundleInv, NumbersInv, NEW page \in PagesOf[kind], GatherDetail(page)
  PROVE  NumbersInv'
<1> DEFINE old == gather.details
           nr == Cardinality(old) + 1
           d == DetailRaw(gathers, Head(gather.plan), nr, page)
<1>1. /\ ~Idle /\ gather.phase = "details" /\ gather'.phase = "details"
      /\ gather'.details = old \cup {d}
      /\ UNCHANGED <<kind, day, gathers, stored, complete, verified>>
  BY DEF GatherDetail, BundleInv, GatherInv, Idle
<1>2. IsFiniteSet(old) /\ AreDetails(old) /\ \A e \in old : e.nr <= Cardinality(old)
  BY <1>1 DEF NumbersInv
<1>3. Cardinality(old) \in Nat BY <1>2, FS_CardinalityType
<1>4. gathers \in Nat /\ day \in Nat BY DEF BundleInv, NumbersInv
<1>5. IsDetail(d) /\ d.nr = nr BY <1>3, <1>4 DEF DetailRaw, IsDetail
<1> HIDE DEF d
<1>6. d \notin old BY <1>2, <1>3, <1>5
<1>7. IsFiniteSet(old \cup {d}) /\ Cardinality(old \cup {d}) = nr
  BY <1>2, <1>6, FS_AddElement
<1>8. IsNumbered(old \cup {d})
  BY <1>2, <1>3, <1>5 DEF AreDetails, IsNumbered, IsDetail
<1>9. AreDetails(old \cup {d}) BY <1>2, <1>5, <1>8 DEF AreDetails
<1>10. \A e \in old \cup {d} : e.nr <= nr BY <1>2, <1>3, <1>5 DEF AreDetails, IsDetail
<1> HIDE DEF old, nr
<1>. QED
  BY <1>1, <1>7, <1>9, <1>10 DEF NumbersInv, AreDetails, IsDetail, IsNumbered, Role

(* A new collection has none.                                              *)
LEMMA GatherListNumbers ==
  ASSUME BundleInv, NumbersInv, NEW listed, NEW limit, NEW details, NEW whole,
         GatherList(listed, limit, details, whole)
  PROVE  NumbersInv'
<1>1. /\ gather'.phase = "details" /\ gather'.details = {}
      /\ UNCHANGED <<kind, day, stored, complete, verified>>
  BY DEF GatherList
<1>2. IsFiniteSet(gather'.details) /\ AreDetails(gather'.details)
  BY <1>1, FS_EmptySet DEF AreDetails, IsNumbered
<1>. QED BY <1>1, <1>2 DEF NumbersInv, AreDetails, IsDetail, IsNumbered, Role

(* The end of a collection leaves the stored ones.                         *)
LEMMA EndNumbers ==
  ASSUME NumbersInv, gather' = Nil, UNCHANGED <<kind, stored, verified>>, day' \in Nat
  PROVE  NumbersInv'
BY DEF NumbersInv, AreDetails, IsDetail, IsNumbered, Role, Idle

(* What is verified is what was gathered, and none of it is stored yet.    *)
LEMMA VerifyNumbers ==
  ASSUME BundleInv, NumbersInv, Verify
  PROVE  NumbersInv'
<1>1. /\ ~Idle /\ gather.phase = "details" /\ UNCHANGED <<kind, day, gathers, stored, complete>>
  BY DEF Verify
<1>2. CASE gather' = Nil /\ UNCHANGED verified
  BY <1>1, <1>2, EndNumbers DEF NumbersInv
<1>3. CASE /\ gather' = [gather EXCEPT !.phase = "save",
                           !.unsaved = {ListRaw(gathers)} \cup ItemsRaw \cup gather.details]
           /\ verified' = verified \cup
                {[of |-> gathers, items |-> ItemsRaw, details |-> gather.details]}
  <2>1. /\ gather'.phase = "save" /\ gather'.details = gather.details
        /\ gather'.unsaved = {ListRaw(gathers)} \cup ItemsRaw \cup gather.details
    BY <1>1, <1>3 DEF BundleInv, GatherInv, Idle
  <2>2. \A d \in stored : d.of < gathers BY <1>1 DEF BundleInv, GatherInv
  <2>3. \A d \in stored : d.of # gathers BY <2>2 DEF BundleInv, StoredInv
  <2>4. \A d \in ItemsRaw : d.role = "list_item" BY RawForms DEF ItemsRaw
  <2>5. \A d \in stored' \cup gather'.unsaved :
          d.of = gathers' /\ d.role = "detail_response" => d \in gather'.details
    BY <1>1, <2>1, <2>3, <2>4, RawForms
  <2>6. \A v \in verified' : v \in verified \/ v.details = gather.details BY <1>3
  <2>7. IsFiniteSet(gather.details) /\ AreDetails(gather.details) /\ (AreDetails(gather.details))'
    BY <1>1, <2>1 DEF NumbersInv, AreDetails, IsDetail, IsNumbered
  <2>8. \A v \in verified' : IsFiniteSet(v.details) /\ AreDetails(v.details)
    BY <2>6, <2>7 DEF NumbersInv
  <2>9. (\A v \in verified : IsFiniteSet(v.details) /\ AreDetails(v.details))'
    BY <1>1, <2>8 DEF AreDetails, IsDetail, IsNumbered
  <2>. QED
    BY <1>1, <2>1, <2>5, <2>7, <2>9 DEF NumbersInv, AreDetails, IsDetail, IsNumbered, Role
<1>. QED BY <1>2, <1>3 DEF Verify

(* What is saved is what was gathered.                                     *)
LEMMA SaveRawNumbers ==
  ASSUME BundleInv, NumbersInv, SaveRaw
  PROVE  NumbersInv'
<1>1. PICK d \in gather.unsaved :
        /\ stored' = stored \cup {d} /\ gather' = [gather EXCEPT !.unsaved = @ \ {d}]
        /\ ~Idle /\ gather.phase = "save" /\ UNCHANGED <<kind, day, gathers, complete, verified>>
  BY DEF SaveRaw
<1>2. /\ gather'.phase = "save" /\ gather'.details = gather.details
      /\ gather'.unsaved = gather.unsaved \ {d}
  BY <1>1 DEF BundleInv, GatherInv, Idle
<1>3. d.of = gathers BY <1>1 DEF BundleInv, GatherInv
<1> DEFINE old == Role(stored, "detail_response")
           new == Role(stored', "detail_response")
<1>4. \A e \in new : e \in old \/ (e = d /\ d \in gather.details)
  BY <1>1, <1>3 DEF NumbersInv, Role
<1>5. \A e \in old : e.of = gathers => e \in gather.details
  BY <1>1 DEF NumbersInv, Role
<1>6. AreDetails(old) /\ AreDetails(gather.details) BY <1>1 DEF NumbersInv
<1> HIDE DEF old, new
<1>7. AreDetails(new)
  <2>1. IsNumbered(new) BY <1>3, <1>4, <1>5, <1>6 DEF AreDetails, IsNumbered
  <2>2. \A e \in new : IsDetail(e) BY <1>4, <1>6 DEF AreDetails
  <2>. QED BY <2>1, <2>2 DEF AreDetails
<1>8. \A e \in stored' \cup gather'.unsaved :
        e.of = gathers' /\ e.role = "detail_response" => e \in gather'.details
  BY <1>1, <1>2 DEF NumbersInv
<1>9. AreDetails(Role(stored, "detail_response"))'
  BY <1>1, <1>7 DEF new, AreDetails, IsDetail, IsNumbered, Role
<1>. QED
  BY <1>1, <1>2, <1>8, <1>9 DEF NumbersInv, AreDetails, IsDetail, IsNumbered

(* The numbers hold always.                                                *)
LEMMA DetailsAlways == BundleSpec => []NumbersInv
<1>1. BundleInit => NumbersInv
  BY DEF BundleInit, NumbersInv, AreDetails, IsNumbered, Role, Idle
<1>2. BundleInv /\ NumbersInv /\ [BundleNext]_bundleVars => NumbersInv'
  <2> SUFFICES ASSUME BundleInv, NumbersInv, [BundleNext]_bundleVars PROVE NumbersInv'
    OBVIOUS
  <2>1. ASSUME NEW listed, NEW details, NEW limit, NEW whole, GatherList(listed, limit, details, whole)
        PROVE  NumbersInv'
    BY <2>1, GatherListNumbers
  <2>2. ASSUME NEW page \in PagesOf[kind], GatherDetail(page) PROVE NumbersInv'
    BY <2>2, GatherDetailNumbers
  <2>3. CASE EndGather \/ GatherFails
    BY <2>3, EndNumbers DEF EndGather, GatherFails, NumbersInv
  <2>4. CASE NextDay \/ UNCHANGED bundleVars
    <3>1. UNCHANGED <<kind, gathers, gather, stored, verified>> /\ day' \in Nat
      BY <2>4 DEF NextDay, bundleVars, NumbersInv
    <3>. QED BY <3>1 DEF NumbersInv, AreDetails, IsDetail, IsNumbered, Role, Idle
  <2>. QED BY <2>1, <2>2, <2>3, <2>4, VerifyNumbers, SaveRawNumbers DEF BundleNext
<1>. QED BY <1>1, <1>2, BundleAlways, PTL DEF BundleSpec

-----------------------------------------------------------------------------
(* Pages in order, and merged *)

(* Any finite number of details can be put in order, and so they are.      *)
LEMMA DetailsInOrder ==
  ASSUME NEW D, IsFiniteSet(D), AreDetails(D), NEW s, s = InOrder(D)
  PROVE  s \in [1 .. Cardinality(D) -> D]
<1> DEFINE n == Cardinality(D)
           Older(d) == {e \in D : IsNewer(d, e)}
           rank == [d \in D |-> Cardinality(Older(d)) + 1]
<1>1. n \in Nat BY FS_CardinalityType
<1>2. ASSUME NEW d \in D, NEW e \in D, d # e
      PROVE  IsNewer(d, e) \/ IsNewer(e, d)
  BY <1>2 DEF AreDetails, IsNumbered, IsDetail, IsNewer
<1>3. ASSUME NEW d \in D, NEW e \in D, IsNewer(d, e)
      PROVE  Older(e) \subseteq Older(d) /\ e \in Older(d) /\ e \notin Older(e)
  BY <1>3 DEF AreDetails, IsDetail, IsNewer
<1>4. ASSUME NEW d \in D
      PROVE  /\ IsFiniteSet(Older(d)) /\ Cardinality(Older(d)) \in 0 .. n - 1
             /\ d \notin Older(d)
  <2>1. d \notin Older(d) BY DEF AreDetails, IsDetail, IsNewer
  <2>2. Older(d) \in SUBSET D OBVIOUS
  <2> HIDE DEF Older
  <2>3. /\ IsFiniteSet(Older(d)) /\ Cardinality(Older(d)) <= n
        /\ n = Cardinality(Older(d)) => D = Older(d)
    BY <2>2, FS_Subset
  <2>4. Cardinality(Older(d)) \in Nat BY <2>3, FS_CardinalityType
  <2>. QED BY <1>1, <2>1, <2>3, <2>4
<1>5. ASSUME NEW d \in D, NEW e \in D, IsNewer(d, e)
      PROVE  rank[e] < rank[d]
  <2>1. Older(e) \in SUBSET Older(d) /\ Older(e) # Older(d) BY <1>3, <1>5
  <2> HIDE DEF Older
  <2>2. Cardinality(Older(e)) <= Cardinality(Older(d))
        /\ (Cardinality(Older(d)) = Cardinality(Older(e)) => Older(d) = Older(e))
    BY <1>4, <2>1, FS_Subset
  <2>3. Cardinality(Older(e)) \in Int /\ Cardinality(Older(d)) \in Int BY <1>4
  <2>. QED BY <2>1, <2>2, <2>3
<1>6. ASSUME NEW d \in D PROVE rank[d] \in 1 .. n
  <2>1. rank[d] = Cardinality(Older(d)) + 1 OBVIOUS
  <2> HIDE DEF Older, rank
  <2>. QED BY <1>1, <1>4, <2>1
<1>7. rank \in [D -> 1 .. n] BY <1>6
<1> HIDE DEF rank
<1>8. ASSUME NEW d \in D, NEW e \in D, rank[d] = rank[e] PROVE d = e
  <2>1. rank[d] \in Int /\ rank[e] \in Int BY <1>6
  <2>. QED BY <1>2, <1>5, <1>8, <2>1
<1>9. rank \in Surjection(D, 1 .. n)
  <2>1. rank \in Injection(D, 1 .. n) BY <1>7, <1>8 DEF Injection, IsInjective
  <2>2. IsFiniteSet(1 .. n) /\ Cardinality(1 .. n) = n BY <1>1, FS_Interval
  <2>. QED BY <2>1, <2>2, FS_Injection
<1> DEFINE t == [i \in 1 .. n |-> CHOOSE d \in D : rank[d] = i]
<1>10. ASSUME NEW i \in 1 .. n PROVE t[i] \in D /\ rank[t[i]] = i
  <2>1. \E d \in D : rank[d] = i BY <1>9 DEF Surjection
  <2>. QED BY <2>1
<1>11. t \in [1 .. n -> D] BY <1>10
<1>12. ASSUME NEW i \in DOMAIN t, NEW j \in DOMAIN t, i < j PROVE IsNewer(t[j], t[i])
  <2>1. i \in 1 .. n /\ j \in 1 .. n OBVIOUS
  <2>2. t[i] \in D /\ t[j] \in D /\ rank[t[i]] = i /\ rank[t[j]] = j BY <1>10, <2>1
  <2> HIDE DEF t
  <2>3. t[i] # t[j] BY <1>12, <2>1, <2>2
  <2>4. ~IsNewer(t[i], t[j]) BY <1>5, <1>12, <2>1, <2>2
  <2>. QED BY <1>2, <2>2, <2>3, <2>4
<1> HIDE DEF t
<1>. QED BY <1>11, <1>12 DEF InOrder

(* The availability of several pages, merged one after another.            *)
LEMMA MergedInSteps ==
  ASSUME NEW P, NEW pages \in Seq(P)
  PROVE  \E g : /\ g[0] = Nil /\ g[Len(pages)] = Merge(pages).availability
                /\ \A m \in 1 .. Len(pages) :
                     g[m] = MergedAvailability(g[m - 1], Availability(pages[m]))
<1> DEFINE n == Len(pages)
           X == {Nil} \cup {Availability(p) : p \in P}
           F == [x \in (1 .. n) \X X |-> MergedAvailability(x[2], Availability(pages[x[1]]))]
           IsIt(it) == it = [t \in SUBSET DOMAIN pages |->
                               IF t = {} THEN Nil
                               ELSE MergedAvailability(it[t \ {Max(t)}], Availability(pages[Max(t)]))]
<1>1. n \in Nat /\ DOMAIN pages = 1 .. n OBVIOUS
<1>2. Merge(pages).availability = (CHOOSE it : IsIt(it))[DOMAIN pages]
  BY SMTT(10) DEF Merge, FoldLeft, MapThenFoldSet
<1>3. \E it : IsIt(it)
  <2>1. ASSUME NEW k \in 1 .. n, NEW old \in X
        PROVE  MergedAvailability(old, Availability(pages[k])) \in X
    <3>1. pages[k] \in P BY <1>1
    <3>. QED BY <3>1 DEF MergedAvailability
  <2>2. F \in StepsOf(n, X) BY <2>1 DEF StepsOf
  <2>3. Nil \in X OBVIOUS
  <2>4. PICK it : IsFold(it, n, X, Nil, F)
    <3> HIDE DEF F, X, n
    <3>. QED BY <1>1, <2>2, <2>3, FoldExists
  <2>5. ASSUME NEW t \in SUBSET (1 .. n), t # {}
        PROVE  F[<<Max(t), it[t \ {Max(t)}]>>]
                 = MergedAvailability(it[t \ {Max(t)}], Availability(pages[Max(t)]))
    <3>1. Max(t) \in 1 .. n BY <1>1, <2>5, MaxOf
    <3>2. it[t \ {Max(t)}] \in X BY <2>4 DEF IsFold
    <3>. QED BY <3>1, <3>2
  <2> HIDE DEF F
  <2>6. \A t \in SUBSET (1 .. n) :
          it[t] = IF t = {} THEN Nil
                  ELSE MergedAvailability(it[t \ {Max(t)}], Availability(pages[Max(t)]))
    BY <2>4, <2>5 DEF IsFold
  <2>7. IsIt(it) BY <1>1, <2>4, <2>6 DEF IsFold
  <2>. QED BY <2>7
<1>4. PICK it : IsIt(it) /\ it[DOMAIN pages] = Merge(pages).availability BY <1>2, <1>3
<1>5. \A t \in SUBSET (1 .. n) :
        it[t] = IF t = {} THEN Nil
                ELSE MergedAvailability(it[t \ {Max(t)}], Availability(pages[Max(t)]))
  BY <1>1, <1>4
<1> DEFINE g == [m \in 0 .. n |-> it[1 .. m]]
<1>6. g[0] = Nil
  <2>1. 1 .. 0 = {} /\ 0 \in 0 .. n BY <1>1
  <2>. QED BY <1>5, <2>1
<1>7. g[n] = Merge(pages).availability
  <2>1. n \in 0 .. n BY <1>1
  <2>. QED BY <1>1, <1>4, <2>1
<1>8. ASSUME NEW m \in 1 .. n
      PROVE  g[m] = MergedAvailability(g[m - 1], Availability(pages[m]))
  <2>1. m \in Nat \ {0} /\ m \in 0 .. n /\ m - 1 \in 0 .. n /\ 1 .. m \in SUBSET (1 .. n) BY <1>1
  <2>2. it[1 .. m] = MergedAvailability(it[1 .. m - 1], Availability(pages[m]))
    BY <1>5, <2>1, FirstNumbers
  <2>3. g[m] = it[1 .. m] /\ g[m - 1] = it[1 .. m - 1] BY <2>1
  <2>. QED BY <2>2, <2>3
<1> HIDE DEF g
<1>. QED BY <1>6, <1>7, <1>8

(* What a page says that says nothing of its application.                  *)
Silent == {Nil, "unknown"}

(* What merged pages say, one of them says: an open application, or what   *)
(* the first says that is not silent.                                      *)
LEMMA SaidByAPage ==
  ASSUME NEW P, NEW pages \in Seq(P), NEW a, a = Merge(pages).availability, a \notin Silent
  PROVE  \E k \in DOMAIN pages :
           /\ Availability(pages[k]) = a
           /\ a # "open" => \A j \in 1 .. k - 1 : Availability(pages[j]) \in Silent
<1> DEFINE n == Len(pages)
           says(k) == Availability(pages[k])
           Said(k, b) == says(k) = b /\ (b # "open" => \A j \in 1 .. k - 1 : says(j) \in Silent)
           Sound(m, b) == IF b \in Silent THEN \A j \in 1 .. m : says(j) \in Silent
                          ELSE \E k \in 1 .. m : Said(k, b)
<1>1. n \in Nat /\ DOMAIN pages = 1 .. n OBVIOUS
<1>2. PICK g : /\ g[0] = Nil /\ g[n] = a
               /\ \A m \in 1 .. n : g[m] = MergedAvailability(g[m - 1], says(m))
  BY MergedInSteps
<1> DEFINE S == {m \in 0 .. n : Sound(m, g[m])}
<1>3. 0 \in S
  <2>1. 0 \in 0 .. n /\ 1 .. 0 = {} /\ Nil \in Silent BY <1>1 DEF Silent
  <2>. QED BY <1>2, <2>1
<1>4. ASSUME NEW m \in 1 .. n, m - 1 \in S PROVE m \in S
  <2> DEFINE old == g[m - 1]
             new == says(m)
  <2>1. g[m] = MergedAvailability(old, new) /\ Sound(m - 1, old) BY <1>2, <1>4
  <2>2. m \in 0 .. n /\ 1 .. m = (1 .. m - 1) \cup {m} /\ m \in 1 .. m BY <1>1
  <2> HIDE DEF old, says
  <2>3. CASE old \in Silent
    <3>1. g[m] = new BY <2>1, <2>3 DEF MergedAvailability, Silent
    <3>2. \A j \in 1 .. m - 1 : says(j) \in Silent BY <2>1, <2>3
    <3>3. CASE new \in Silent BY <2>2, <3>1, <3>2, <3>3
    <3>4. CASE new \notin Silent
      <4>1. Said(m, new) BY <3>2
      <4>. QED BY <2>2, <3>1, <3>4, <4>1
    <3>. QED BY <3>3, <3>4
  <2>4. CASE old \notin Silent /\ new = "open"
    <3>1. g[m] = "open" /\ "open" \notin Silent
      BY <2>1, <2>4, PagesAssumption DEF MergedAvailability, Silent
    <3>2. Said(m, "open") BY <2>4
    <3>. QED BY <2>2, <3>1, <3>2
  <2>5. CASE old \notin Silent /\ new # "open"
    <3>1. g[m] = old BY <2>1, <2>5 DEF MergedAvailability, Silent
    <3>2. \E k \in 1 .. m - 1 : Said(k, old) BY <2>1, <2>5
    <3>3. \E k \in 1 .. m : Said(k, old) BY <2>2, <3>2
    <3>. QED BY <2>2, <2>5, <3>1, <3>3
  <2>. QED BY <2>3, <2>4, <2>5
<1>5. n \in S
  <2> HIDE DEF S, n
  <2>1. \A m \in 0 .. n : m \in S BY <1>1, <1>3, <1>4, StepByStep
  <2>. QED BY <1>1, <2>1
<1>6. Sound(n, a) BY <1>2, <1>5
<1>. QED BY <1>1, <1>6

(* Merged pages are open on a day that one of them says it is.             *)
LEMMA OpenByAPage ==
  ASSUME NEW k \in {"pages", "tabs", "cards"}, NEW pages \in Seq(PagesOf[k]), NEW on \in Int,
         NEW m, m = Merge(pages), Resolved(m.availability, m.period, on) = "open"
  PROVE  \E n \in DOMAIN pages : SaysOpen(pages[n], on)
<1> DEFINE Heard(n) == pages[n].period # Nil
           dated == {n \in DOMAIN pages : Heard(n)}
<1>1. \A n \in DOMAIN pages :
        /\ pages[n].status \in {Nil, "open", "closed"}
        /\ Heard(n) => pages[n].period.ranges \subseteq Int \X Int
  <2>1. \A n \in DOMAIN pages : pages[n] \in PagesOf[k] OBVIOUS
  <2>. QED BY <2>1, PagesAssumption
<1>2. m.availability \in {"open", "dated"} BY DEF Resolved
<1>3. m.availability \notin Silent BY <1>2, PagesAssumption DEF Silent
<1>4. PICK n \in DOMAIN pages :
        /\ Availability(pages[n]) = m.availability
        /\ m.availability # "open" => \A j \in 1 .. n - 1 : Availability(pages[j]) \in Silent
  BY <1>3, SaidByAPage
<1>5. CASE m.availability = "open"
  <2>1. pages[n].status = "open" \/ (pages[n].status = Nil /\ PeriodAvailability(pages[n].period) = "open")
    BY <1>1, <1>4, <1>5 DEF Availability
  <2>2. CASE pages[n].status = "open" BY <2>2 DEF SaysOpen
  <2>3. CASE pages[n].status = Nil /\ PeriodAvailability(pages[n].period) = "open"
    <3>1. Heard(n) /\ Ranges(pages[n].period) = {} /\ pages[n].period.word = "open"
      BY <2>3 DEF PeriodAvailability
    <3>2. pages[n].status # "closed" BY <2>3, PagesAssumption
    <3>. QED BY <3>1, <3>2 DEF SaysOpen
  <2>. QED BY <2>1, <2>2, <2>3
<1>6. CASE m.availability = "dated"
  <2>1. m.period # Nil /\ \E r \in Ranges(m.period) : r[1] <= on /\ on <= r[2]
    BY <1>6 DEF Resolved
  <2>2. dated # {} /\ m.period = pages[Min(dated)].period BY <2>1 DEF Merge
  <2>3. dated \subseteq 1 .. Len(pages) /\ Len(pages) \in Nat OBVIOUS
  <2>4. Min(dated) \in dated /\ \A y \in dated : Min(dated) <= y
    <3> HIDE DEF dated
    <3>1. \E x \in dated : \A y \in dated : x <= y BY <2>2, <2>3, Least
    <3>. QED BY <3>1 DEF Min
  <2> DEFINE h == Min(dated)
             p == pages[h].period
  <2>5. h \in DOMAIN pages /\ Heard(h) /\ m.period = p BY <2>2, <2>4
  <2> HIDE DEF dated, h
  <2>6. pages[h].status # "closed"
    <3>1. SUFFICES ASSUME pages[h].status = "closed" PROVE FALSE OBVIOUS
    <3>2. Availability(pages[h]) = "closed" /\ "closed" \notin Silent
      BY <3>1, PagesAssumption DEF Availability, Silent
    <3>3. pages[n].status = Nil /\ Heard(n)
      BY <1>1, <1>4, <1>6 DEF Availability, PeriodAvailability
    <3>4. h <= n /\ h # n BY <1>4, <1>6, <2>4, <3>2, <3>3 DEF h, dated
    <3>5. h \in 1 .. n - 1 BY <2>5, <3>4
    <3>. QED BY <1>4, <1>6, <3>2, <3>5
  <2>7. PICK r \in Ranges(p) : r[1] <= on /\ on <= r[2] BY <2>1, <2>5
  <2>8. on \in r[1] .. r[2]
    <3>1. r \in Int \X Int BY <1>1, <2>5 DEF Ranges
    <3>. QED BY <2>7, <3>1
  <2>9. SaysOpen(pages[h], on) BY <2>5, <2>6, <2>8 DEF SaysOpen
  <2>. QED BY <2>5, <2>9
<1>. QED BY <1>2, <1>5, <1>6

(* What is decided accepted of a batch of details is open by one of them.  *)
LEMMA AcceptedByADetail ==
  ASSUME NumbersInv, NEW batch, AreDetails(batch.details), Extract(batch) # Nil,
         NEW i \in DOMAIN Extract(batch), Extract(batch)[i] = "accepted",
         NEW D, D = {d \in batch.details : d.item = i}, IsFiniteSet(D)
  PROVE  LET bundle == BundleOf(batch.details, i)
         IN \E d \in ToSet(bundle) : SaysOpen(d.page, Last(bundle).day)
<1> DEFINE s == InOrder(D)
           n == Cardinality(D)
           pages == PagesIn(s)
<1>1. AreDetails(D) BY DEF AreDetails, IsNumbered
<1>2. n \in Nat /\ s \in [1 .. n -> D] BY <1>1, DetailsInOrder, FS_CardinalityType
<1>3. BundleOf(batch.details, i) = s BY DEF BundleOf
<1>4. /\ i \in ItemsIn(batch.details)
      /\ Extract(batch)[i] = Decide(Merge(pages), Last(s).day)
  <2> HIDE DEF s
  <2>1. Extract(batch) = [j \in ItemsIn(batch.details) |->
                            Decide(Merge(PagesIn(BundleOf(batch.details, j))),
                                   Last(BundleOf(batch.details, j)).day)]
    BY DEF Extract
  <2>. QED BY <1>3, <2>1
<1>5. n \in Nat \ {0}
  <2>1. D # {} BY <1>4 DEF ItemsIn
  <2>. QED BY <1>2, <2>1, FS_EmptySet
<1>6. s \in Seq(D) /\ Len(s) = n /\ Last(s) \in D BY <1>2, <1>5 DEF Last
<1>7. Last(s).day \in Int BY <1>1, <1>6 DEF AreDetails, IsDetail
<1>8. pages \in Seq(PagesOf[kind]) /\ DOMAIN pages = 1 .. n
  <2>1. \A k \in 1 .. n : s[k].page \in PagesOf[kind] BY <1>1, <1>2 DEF AreDetails, IsDetail
  <2>2. DOMAIN s = 1 .. n BY <1>2
  <2> HIDE DEF s, n
  <2>3. pages = [k \in 1 .. n |-> s[k].page] BY <2>2 DEF PagesIn
  <2>. QED BY <1>2, <2>1, <2>3
<1>9. Resolved(Merge(pages).availability, Merge(pages).period, Last(s).day) = "open"
  BY <1>4 DEF Decide
<1> HIDE DEF pages
<1>10. PICK k \in DOMAIN pages : SaysOpen(pages[k], Last(s).day)
  BY <1>7, <1>8, <1>9, OpenByAPage DEF NumbersInv
<1>11. s[k] \in ToSet(s) /\ pages[k] = s[k].page BY <1>2, <1>8 DEF pages, PagesIn, ToSet
<1>. QED BY <1>3, <1>10, <1>11

(* Raw replays (_snapshot_batch, _latest_batch) and the merge of pages     *)
(* (_merge_detail_values, _resolved_availability): however many pages of   *)
(* one policy say, in whatever order, when its application is, a policy    *)
(* that is accepted is open by a page of its own.                          *)
THEOREM AcceptedAreOpen == BundleSpec => []AcceptedIsOpenByAPage
<1>1. ASSUME BundleInv, NumbersInv, NEW m \in complete
      PROVE  LET batch == SnapshotBatch(m)
             IN Extract(batch) # Nil =>
                  \A i \in DOMAIN Extract(batch) :
                    Extract(batch)[i] = "accepted" =>
                      LET bundle == BundleOf(batch.details, i)
                      IN \E d \in ToSet(bundle) : SaysOpen(d.page, Last(bundle).day)
  <2> DEFINE batch == SnapshotBatch(m)
  <2>1. batch.details = m.details BY DEF SnapshotBatch, DetailsOfManifest
  <2>2. PICK v \in verified : v.details = m.details
    BY <1>1 DEF BundleInv, CompleteInv, IsVerified
  <2>3. IsFiniteSet(batch.details) /\ AreDetails(batch.details)
    BY <1>1, <2>1, <2>2 DEF NumbersInv
  <2> HIDE DEF batch
  <2>4. ASSUME NEW i PROVE IsFiniteSet({d \in batch.details : d.item = i})
    <3>1. {d \in batch.details : d.item = i} \in SUBSET batch.details OBVIOUS
    <3>. QED BY <2>3, <3>1, FS_Subset
  <2>. QED BY <1>1, <2>3, <2>4, AcceptedByADetail DEF batch
<1>2. ASSUME NumbersInv, HasLatest
      PROVE  LET batch == LatestBatch
             IN Extract(batch) # Nil =>
                  \A i \in DOMAIN Extract(batch) :
                    Extract(batch)[i] = "accepted" =>
                      LET bundle == BundleOf(batch.details, i)
                      IN \E d \in ToSet(bundle) : SaysOpen(d.page, Last(bundle).day)
  <2> DEFINE batch == LatestBatch
  <2>1. /\ \A d \in batch.details : d \in Role(stored, "detail_response")
        /\ \A d, e \in batch.details : d.item = e.item => ~IsNewer(d, e) /\ ~IsNewer(e, d)
    BY DEF LatestBatch
  <2>2. AreDetails(batch.details)
    BY <1>2, <2>1 DEF NumbersInv, AreDetails, IsNumbered
  <2> HIDE DEF batch
  <2>3. ASSUME NEW d \in batch.details, NEW e \in batch.details, d.item = e.item PROVE d = e
    BY <2>1, <2>2, <2>3 DEF AreDetails, IsNumbered, IsDetail, IsNewer
  <2>4. ASSUME NEW i PROVE IsFiniteSet({d \in batch.details : d.item = i})
    <3> DEFINE D == {d \in batch.details : d.item = i}
    <3>1. D = {} \/ \E d : D = {d} BY <2>3
    <3> HIDE DEF D
    <3>2. IsFiniteSet(D) BY <3>1, FS_EmptySet, FS_Singleton
    <3>. QED BY <3>2 DEF D
  <2>. QED BY <1>2, <2>2, <2>4, AcceptedByADetail DEF batch
<1>3. BundleInv /\ NumbersInv => AcceptedIsOpenByAPage
  BY <1>1, <1>2 DEF AcceptedIsOpenByAPage
<1>. QED BY <1>3, BundleAlways, DetailsAlways, PTL
=============================================================================

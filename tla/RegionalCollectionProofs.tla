----------------------- MODULE RegionalCollectionProofs -----------------------
(***************************************************************************)
(* Proofs about the collection of a regional source.                       *)
(*                                                                         *)
(* RegionalCheckpoint, for any pages, writers, requests and limits, and    *)
(* any interleaving of captures, files of captures, recoveries, audits and *)
(* imports that fail and die: what the checkpoint calls captured has its   *)
(* Raw documents; every checkpoint written loads again; an import that     *)
(* inactivates as complete has stored all its checkpoint calls accepted;   *)
(* and while no two processes have been at work at once, no write takes    *)
(* back what an earlier one said and no import ends a policy it did not    *)
(* decide.                                                                 *)
(*                                                                         *)
(* HttpTraversal, for any lists the site may show, sizes of its pages and  *)
(* of batches, and any number of changes of the list, of failures and of   *)
(* restarts: every checkpoint the script builds loads again, and when the  *)
(* script reports completion, the pages it walked are the ones of the      *)
(* checkpoint on disk, each with its detail.                               *)
(*                                                                         *)
(* RegionalCollection: both, over one checkpoint and one set of documents. *)
(***************************************************************************)
EXTENDS RegionalCollection, SequenceFacts

-----------------------------------------------------------------------------
(* The inductive invariant *)

(* Captures whose documents a task may still take back, or has still to    *)
(* store.                                                                  *)
HeldBy(t) == IF t = Idle THEN {} ELSE t.n .. t.n + Len(t.jobs) - 1

(* Documents that nobody takes back.                                       *)
StableIn(docs, tasks) == {d \in docs : \A w \in Writers : d.capture \notin HeldBy(tasks[w])}

(* Documents come with the list page they are from.                        *)
DocsOK(docs, m) ==
  \A d \in docs : /\ d.capture \in 1 .. m
                  /\ d.role = "list_item" => ListOf(d.capture) \in docs

Backs(docs, i) == Has(docs, "list_item", i) /\ Has(docs, "detail_response", i)

CheckpointFields == {"next_page", "total_count", "discovery_complete",
                     "discovered_ids", "captured_ids", "decisions"}
IsCheckpoint(cp) ==
  /\ cp = [x \in CheckpointFields |-> cp[x]]
  /\ cp.captured_ids \in Seq(Id)

(* What a checkpoint says is true of the documents docs.                   *)
IsEarned(cp, docs) ==
  /\ IsCheckpoint(cp)
  /\ \A i \in Captured(cp) : Backs(docs, i)

TaskForm(t) ==
  /\ t = Work(t.step, t.kind, t.jobs, t.n)
  /\ t.step \in {"items", "details", "replay", "save"}
  /\ \/ t.jobs = <<t.jobs[1]>>
     \/ t.jobs = <<t.jobs[1], t.jobs[2]>> /\ t.n # 0

(* The checkpoint of a job is earned once the task has stored the          *)
(* documents of this job and of those before it.                           *)
JobOK(t, k, docs) ==
  /\ IsCheckpoint(t.jobs[k].cp)
  /\ \A i \in Captured(t.jobs[k].cp) :
       \/ Backs(docs, i)
       \/ t.n # 0 /\ \E j \in 1 .. k : i \in DOMAIN t.jobs[j].items

(* What the task has stored of its first job is there.                     *)
OwnStored(t, docs) ==
  \A i \in DOMAIN t.jobs[1].items :
    /\ t.step # "items" => Document("list_item", t.n, i, None) \in docs
    /\ t.step \notin {"items", "details"} =>
         Document("detail_response", t.n, i, t.jobs[1].items[i]) \in docs

TaskOK(t, docs, m, stable) ==
  \/ t = Idle
  \/ /\ TaskForm(t)
     /\ t.n \in 0 .. m /\ t.n + Len(t.jobs) - 1 <= m
     /\ t.n = 0 => t.step = "save"
     /\ \A k \in DOMAIN t.jobs : JobOK(t, k, stable)
     /\ t.n # 0 => OwnStored(t, docs)

(* No two tasks have a capture in common; those without documents have 0.  *)
Disjoint(tasks) ==
  \A v, w \in Writers : v # w => HeldBy(tasks[v]) \cap HeldBy(tasks[w]) \subseteq {0}

(* Every task is in order, with the documents nobody takes back.           *)
WritersOK(docs, m, tasks) ==
  /\ DOMAIN tasks = Writers
  /\ \A w \in Writers : TaskOK(tasks[w], docs, m, StableIn(docs, tasks))
  /\ Disjoint(tasks)

Stable == StableIn(raw, task)
ImporterOK ==
  \/ importer.step \notin {"replayed", "finalized"}
  \/ importer = [step |-> "replayed", shown |-> importer.shown, clean |-> importer.clean]
  \/ /\ importer = [step |-> "finalized", cp |-> importer.cp, shown |-> importer.shown,
                    clean |-> importer.clean]
     /\ IsEarned(importer.cp, Stable)

CheckpointInv ==
  /\ made \in Nat
  /\ DocsOK(raw, made)
  /\ WritersOK(raw, made, task)
  /\ file # None => IsEarned(file, Stable)
  /\ ImporterOK

-----------------------------------------------------------------------------
(* Documents *)

(* A document with this role of this identity has a newest one beside it.  *)
LEMMA NewestIsThere ==
  ASSUME NEW docs, NEW m \in Nat, DocsOK(docs, m), NEW role, NEW i, Has(docs, role, i)
  PROVE  LET d == Newest(docs, role, i) IN d \in docs /\ d.role = role /\ d.id = i
<1> DEFINE S == {n \in 1 .. m : \E d \in docs : d.role = role /\ d.id = i /\ d.capture = n}
<1>1. S # {} BY DEF DocsOK, Has
<1>2. PICK n \in S : \A x \in S : x <= n
  <2>1. S \subseteq 1 .. m OBVIOUS
  <2>. HIDE DEF S
  <2>. QED BY <1>1, <2>1, Greatest
<1>3. PICK d \in docs : d.role = role /\ d.id = i /\ d.capture = n BY <1>2
<1>4. \A e \in docs : e.role = role /\ e.id = i => e.capture <= d.capture
  BY <1>2, <1>3 DEF DocsOK
<1>. QED BY <1>3, <1>4 DEF Newest

(* What is backed can be replayed.                                         *)
LEMMA BackedIsReplayable ==
  ASSUME NEW docs, NEW m \in Nat, DocsOK(docs, m),
         NEW ids, ids # <<>>, \A i \in ToSet(ids) : Backs(docs, i)
  PROVE  Replayable(docs, ids)
<1>1. ASSUME NEW i \in ToSet(ids)
      PROVE  ListOf(Newest(docs, "list_item", i).capture) \in docs
  <2>1. Has(docs, "list_item", i) BY <1>1 DEF Backs
  <2>. QED BY <2>1, NewestIsThere DEF DocsOK
<1>. QED BY <1>1 DEF Replayable, Backs

-----------------------------------------------------------------------------
(* Operations of a checkpoint *)

(* Two checkpoints agree on captures and decisions.                        *)
Alike(c, cp) ==
  IsCheckpoint(c) /\ c.captured_ids = cp.captured_ids /\ c.decisions = cp.decisions

(* A page that is discovered, amended or seen again changes no capture and *)
(* no decision.                                                            *)
LEMMA OnPageKeeps ==
  ASSUME NEW cp, IsCheckpoint(cp), NEW q, NEW amends, NEW c \in OnPage(cp, q, amends)
  PROVE  Alike(c, cp)
<1>1. cp = [x \in CheckpointFields |-> cp[x]] /\ cp.captured_ids \in Seq(Id)
  BY DEF IsCheckpoint
<1>2. CASE c = cp BY <1>2 DEF Alike
<1>3. ASSUME c \in discover(cp, q) PROVE Alike(c, cp)
  <2>1. PICK total, found :
          c = [cp EXCEPT !.next_page = @ + 1, !.total_count = total,
                         !.discovery_complete = ~q.has_next, !.discovered_ids = found]
    BY <1>3 DEF discover
  <2>. QED BY <1>1, <2>1 DEF Alike, IsCheckpoint, CheckpointFields
<1>4. ASSUME c \in amend_discovery(cp, q) PROVE Alike(c, cp)
  <2>1. PICK found : c = [cp EXCEPT !.discovered_ids = found]
    BY <1>4 DEF amend_discovery
  <2>. QED BY <1>1, <2>1 DEF Alike, IsCheckpoint, CheckpointFields
<1>. QED BY <1>2, <1>3, <1>4 DEF OnPage

(* A batch adds its identities to the captures and nothing else.           *)
LEMMA CaptureAdds ==
  ASSUME NEW cp, IsCheckpoint(cp), NEW ids, ids \subseteq Id, IsFiniteSet(ids),
         NEW c \in capture(cp, ids)
  PROVE  /\ IsCheckpoint(c) /\ c.decisions = cp.decisions
         /\ Captured(c) \subseteq Captured(cp) \cup ids
<1>1. cp = [x \in CheckpointFields |-> cp[x]] /\ cp.captured_ids \in Seq(Id)
  BY DEF IsCheckpoint
<1>2. PICK s \in InOrder(cp.discovered_ids, ids) :
        c = [cp EXCEPT !.captured_ids = cp.captured_ids \o s]
  BY DEF capture
<1>3. Cardinality(ids) \in Nat BY FS_CardinalityType
<1>4. s \in [1 .. Cardinality(ids) -> ids] BY DEF InOrder
<1>5. s \in Seq(Id) BY <1>3, <1>4
<1>6. cp.captured_ids \o s \in Seq(Id) BY <1>1, <1>5
<1>7. ASSUME NEW i \in ToSet(cp.captured_ids \o s)
      PROVE  i \in ToSet(cp.captured_ids) \cup ids
  <2>1. PICK k \in DOMAIN (cp.captured_ids \o s) : i = (cp.captured_ids \o s)[k]
    BY <1>7 DEF ToSet
  <2>2. CASE k <= Len(cp.captured_ids)
    <3>1. k \in DOMAIN cp.captured_ids /\ i = cp.captured_ids[k]
      BY ONLY <1>1, <1>5, <2>1, <2>2
    <3>. QED BY <3>1 DEF ToSet
  <2>3. CASE k > Len(cp.captured_ids)
    <3>1. k - Len(cp.captured_ids) \in DOMAIN s /\ i = s[k - Len(cp.captured_ids)]
      BY ONLY <1>1, <1>5, <2>1, <2>3
    <3>2. DOMAIN s = 1 .. Cardinality(ids) BY ONLY <1>4
    <3>. QED BY ONLY <1>4, <3>1, <3>2
  <2>4. k \in Nat /\ Len(cp.captured_ids) \in Nat BY ONLY <1>1, <1>5, <2>1
  <2>. QED BY <2>2, <2>3, <2>4
<1>8. c.captured_ids = cp.captured_ids \o s /\ c.decisions = cp.decisions
      /\ c = [x \in CheckpointFields |-> c[x]]
  BY <1>1, <1>2 DEF CheckpointFields
<1>. QED BY <1>6, <1>7, <1>8 DEF IsCheckpoint, Captured

(* New decisions leave the captures as they are.                           *)
LEMMA DecideAdds ==
  ASSUME NEW cp, IsCheckpoint(cp), NEW outcomes, NEW c \in decide(cp, outcomes)
  PROVE  /\ IsCheckpoint(c) /\ c.captured_ids = cp.captured_ids
<1>1. cp = [x \in CheckpointFields |-> cp[x]] /\ cp.captured_ids \in Seq(Id)
  BY DEF IsCheckpoint
<1> DEFINE new == [i \in Decided(cp) \cup DOMAIN outcomes |->
                     IF i \in DOMAIN outcomes THEN outcomes[i] ELSE cp.decisions[i]]
<1>2. c = [cp EXCEPT !.decisions = new] BY DEF decide
<1> HIDE DEF new
<1>. QED BY <1>1, <1>2 DEF IsCheckpoint, CheckpointFields

(* A redecision replaces the decisions by those it is given.               *)
LEMMA RedecideReplaces ==
  ASSUME NEW cp, IsCheckpoint(cp), NEW outcomes, NEW c \in redecide(cp, outcomes)
  PROVE  /\ IsCheckpoint(c) /\ c.captured_ids = cp.captured_ids
         /\ c.decisions = outcomes
<1>1. cp = [x \in CheckpointFields |-> cp[x]] /\ cp.captured_ids \in Seq(Id)
  BY DEF IsCheckpoint
<1>2. c = [cp EXCEPT !.decisions = outcomes] BY DEF redecide
<1>. QED BY <1>1, <1>2 DEF IsCheckpoint, CheckpointFields

(* So does what a recovery decides.                                        *)
LEMMA ReclassifyKeepsCaptures ==
  ASSUME NEW cp, IsCheckpoint(cp), NEW outcomes, NEW c \in reclassify_failed(cp, outcomes)
  PROVE  /\ IsCheckpoint(c) /\ c.captured_ids = cp.captured_ids
<1>1. cp = [x \in CheckpointFields |-> cp[x]] /\ cp.captured_ids \in Seq(Id)
  BY DEF IsCheckpoint
<1> DEFINE new == [i \in Decided(cp) |->
                     IF i \in DOMAIN outcomes THEN outcomes[i] ELSE cp.decisions[i]]
<1>2. c = [cp EXCEPT !.decisions = new] BY DEF reclassify_failed
<1> HIDE DEF new
<1>. QED BY <1>1, <1>2 DEF IsCheckpoint, CheckpointFields

-----------------------------------------------------------------------------
(* Requests *)

(* The details of a request are of identities of the list, and few.        *)
LEMMA InputItems ==
  ASSUME NEW kind, NEW p \in DOMAIN Pages, NEW q \in Inputs(kind, p)
  PROVE  /\ q.kind = kind
         /\ DOMAIN q.items \subseteq Id /\ IsFiniteSet(DOMAIN q.items)
<1>0. PICK ids \in Seen(p) :
        \E total \in Totals, items \in Details(kind, ids), excluded \in Excluded(kind) :
          q = Request(kind, p, ids, total, items, excluded)
  BY DEF Inputs
<1>1. PICK total \in Totals, items \in Details(kind, ids), excluded \in Excluded(kind) :
        q = Request(kind, p, ids, total, items, excluded)
  BY <1>0
<1>2. q.kind = kind /\ q.ids = ids BY <1>1 DEF Request
<1>3. Pages[p] \in Seq(Id) BY CheckpointAssumption
<1>4. ids \in Seq(Id)
  <2>1. CASE ids = Pages[p] BY <1>3, <2>1
  <2>2. ASSUME NEW n \in DOMAIN Pages[p], ids = RemoveAt(Pages[p], n)
        PROVE  ids \in Seq(Id)
    <3>1. n \in 1 .. Len(Pages[p]) BY <1>3, <2>2
    <3>2. /\ SubSeq(Pages[p], 1, n - 1) \in Seq(Id)
          /\ SubSeq(Pages[p], n + 1, Len(Pages[p])) \in Seq(Id)
      BY <1>3, <3>1
    <3>. QED BY <2>2, <3>2 DEF RemoveAt
  <2>. QED BY <1>1, <2>1, <2>2 DEF Seen
<1>5. DOMAIN q.items \subseteq ToSet(ids) BY <1>2 DEF Inputs, PageIsAcceptable
<1>6. ToSet(ids) \subseteq Id /\ IsFiniteSet(ToSet(ids)) BY <1>4, ElementsAreFinite
<1>. QED BY <1>2, <1>5, <1>6, FS_Subset

(* The checkpoint a request leads to has the captures of the one before    *)
(* and those it brings documents of.                                       *)
Brings(kind, items) == IF kind \in {"discover", "failure"} THEN {} ELSE DOMAIN items
Grows(c, cp, ids) ==
  /\ IsCheckpoint(c)
  /\ Captured(c) \subseteq Captured(cp) \cup ids

LEMMA AlikeGrows ==
  ASSUME NEW cp, NEW c, Alike(c, cp), NEW ids
  PROVE  Grows(c, cp, ids)
BY DEF Alike, Grows, Captured

(* A capture after a page that was seen.                                   *)
LEMMA CaptureGrows ==
  ASSUME NEW cp, NEW d, IsCheckpoint(d), Alike(d, cp), NEW items,
         DOMAIN items \subseteq Id, IsFiniteSet(DOMAIN items),
         NEW ids, ids \subseteq DOMAIN items, NEW c \in capture(d, ids)
  PROVE  Grows(c, cp, DOMAIN items)
<1>1. IsFiniteSet(ids) /\ ids \subseteq Id BY FS_Subset
<1>2. IsCheckpoint(c) /\ c.decisions = d.decisions /\ Captured(c) \subseteq Captured(d) \cup ids
  BY <1>1, CaptureAdds
<1>. QED BY <1>2 DEF Grows, Alike, Captured

(* One capture of a file.                                                  *)
LEMMA PlanFileGrows ==
  ASSUME NEW cp, IsCheckpoint(cp), NEW q,
         DOMAIN q.items \subseteq Id, IsFiniteSet(DOMAIN q.items), NEW c \in PlanFile(cp, q)
  PROVE  Grows(c, cp, DOMAIN q.items)
<1>1. PICK d \in OnPage(cp, q, FALSE) : c \in capture(d, DOMAIN q.items)
  BY DEF PlanFile, PlanPage
<1>2. Alike(d, cp) /\ IsCheckpoint(d) BY <1>1, OnPageKeeps DEF Alike
<1> DEFINE items == q.items
<1>3. DOMAIN items \subseteq Id /\ IsFiniteSet(DOMAIN items) /\ c \in capture(d, DOMAIN items)
  BY <1>1
<1> HIDE DEF items
<1>4. Grows(c, cp, DOMAIN items) BY <1>2, <1>3, CaptureGrows
<1>. QED BY <1>4 DEF items

(* Every request.                                                          *)
LEMMA PlanGrows ==
  ASSUME NEW cp, IsCheckpoint(cp), NEW q, q.kind \in RequestKinds,
         DOMAIN q.items \subseteq Id, IsFiniteSet(DOMAIN q.items), NEW c \in Plan(cp, q)
  PROVE  Grows(c, cp, Brings(q.kind, q.items))
<1> DEFINE items == q.items
           ids == Brings(q.kind, items)
<1>0. DOMAIN items \subseteq Id /\ IsFiniteSet(DOMAIN items) OBVIOUS
<1>1. Alike(cp, cp) BY DEF Alike
<1> HIDE DEF items
<1>2. ASSUME q.kind = "discover", c \in PlanDiscover(cp, q) PROVE Grows(c, cp, ids)
  BY <1>2, OnPageKeeps, AlikeGrows DEF PlanDiscover, PlanPage
<1>3. ASSUME q.kind = "capture", c \in PlanCapture(cp, q) PROVE Grows(c, cp, ids)
  <2>1. PICK d \in OnPage(cp, q, TRUE) :
          c = d \/ c \in capture(d, DOMAIN items \ Captured(cp))
    BY <1>3 DEF PlanCapture, PlanPage, items
  <2>2. Alike(d, cp) /\ IsCheckpoint(d) BY <2>1, OnPageKeeps DEF Alike
  <2>3. CASE c = d BY <2>2, <2>3, AlikeGrows
  <2>4. CASE c \in capture(d, DOMAIN items \ Captured(cp))
    BY <1>0, <1>3, <2>2, <2>4, CaptureGrows DEF Brings
  <2>. QED BY <2>1, <2>3, <2>4
<1>4. ASSUME q.kind = "failure", c \in PlanFailure(cp, q) PROVE Grows(c, cp, ids)
  <2>1. PICK d \in OnPage(cp, q, FALSE) :
          c = d \/ c \in decide(d, [i \in DOMAIN items |-> "failed"])
    BY <1>4 DEF PlanFailure, items
  <2>2. Alike(d, cp) /\ IsCheckpoint(d) BY <2>1, OnPageKeeps DEF Alike
  <2>3. CASE c = d BY <2>2, <2>3, AlikeGrows
  <2>4. CASE c \in decide(d, [i \in DOMAIN items |-> "failed"])
    <3>1. IsCheckpoint(c) /\ c.captured_ids = d.captured_ids
      BY <2>2, <2>4, DecideAdds
    <3>. QED BY <2>2, <3>1 DEF Grows, Alike, Captured
  <2>. QED BY <2>1, <2>3, <2>4
<1>5. ASSUME q.kind = "recapture", c \in PlanRecapture(cp, q) PROVE Grows(c, cp, ids)
  BY <1>1, <1>5, AlikeGrows DEF PlanRecapture
<1>6. ASSUME q.kind = "recover", c \in PlanRecover(cp, q) PROVE Grows(c, cp, ids)
  <2>1. c \in capture(cp, DOMAIN items) BY <1>6 DEF PlanRecover, items
  <2>. QED BY <1>0, <1>1, <1>6, <2>1, CaptureGrows DEF Brings
<1>7. ASSUME q.kind = "file", c \in PlanFile(cp, q) PROVE Grows(c, cp, ids)
  BY <1>7, PlanFileGrows DEF Brings, items
<1>8. Grows(c, cp, ids)
  BY <1>2, <1>3, <1>4, <1>5, <1>6, <1>7 DEF Plan, RequestKinds
<1>. QED BY <1>8 DEF items

-----------------------------------------------------------------------------
(* Tasks: what one writer does leaves the others in order *)

(* Documents stay that are of no task, and a task that ends or goes on     *)
(* lets go of its own.                                                     *)
LEMMA StableGrows ==
  ASSUME NEW docs, NEW docs2, NEW m \in Nat, NEW m2 \in Nat, DocsOK(docs, m),
         NEW tasks, DOMAIN tasks = Writers, NEW w \in Writers, NEW t,
         HeldBy(t) \subseteq HeldBy(tasks[w]) \cup {0} \cup (m + 1 .. m2),
         \A d \in docs \ docs2 : d.capture \in HeldBy(tasks[w])
  PROVE  StableIn(docs, tasks) \subseteq StableIn(docs2, [tasks EXCEPT ![w] = t])
<1> DEFINE new == [tasks EXCEPT ![w] = t]
<1> SUFFICES ASSUME NEW d \in StableIn(docs, tasks) PROVE d \in StableIn(docs2, new)
  OBVIOUS
<1>1. d \in docs /\ \A v \in Writers : d.capture \notin HeldBy(tasks[v]) BY DEF StableIn
<1>2. d.capture \in 1 .. m BY <1>1 DEF DocsOK
<1>3. d \in docs2 BY <1>1
<1>4. d.capture \notin HeldBy(t) BY <1>1, <1>2
<1>5. new[w] = t /\ \A v \in Writers \ {w} : new[v] = tasks[v] OBVIOUS
<1> HIDE DEF new
<1>6. ASSUME NEW v \in Writers PROVE d.capture \notin HeldBy(new[v])
  BY <1>1, <1>4, <1>5
<1>. QED BY <1>3, <1>6 DEF StableIn

(* What holds of documents goes on to hold when there are more of them: of *)
(* a job, a checkpoint, a task.                                            *)
LEMMA JobKeeps ==
  ASSUME NEW t, NEW k, NEW S, NEW S2, S \subseteq S2,
         JobOK(t, k, S)
  PROVE  JobOK(t, k, S2)
BY DEF JobOK, Backs, Has

LEMMA EarnedStays ==
  ASSUME NEW cp, NEW S, NEW S2, S \subseteq S2,
         IsEarned(cp, S)
  PROVE  IsEarned(cp, S2)
BY DEF IsEarned, Backs, Has

LEMMA TaskKeeps ==
  ASSUME NEW docs, NEW docs2, NEW m \in Nat, NEW m2 \in Nat, m <= m2,
         NEW t, NEW S, NEW S2, S \subseteq S2,
         TaskOK(t, docs, m, S),
         t # Idle => \A d \in docs \ docs2 : t.n # 0 => d.capture # t.n
  PROVE  TaskOK(t, docs2, m2, S2)
<1>1. CASE t = Idle BY <1>1 DEF TaskOK
<1>2. CASE t # Idle
  <2>1. /\ TaskForm(t) /\ t.n \in 0 .. m /\ t.n + Len(t.jobs) - 1 <= m
        /\ t.n = 0 => t.step = "save"
        /\ t.n # 0 => OwnStored(t, docs)
        /\ \A k \in DOMAIN t.jobs : JobOK(t, k, S)
    BY <1>2 DEF TaskOK
  <2>2. \A k \in DOMAIN t.jobs : JobOK(t, k, S2) BY <2>1, JobKeeps
  <2>3. t.n # 0 => OwnStored(t, docs2)
    BY <1>2, <2>1 DEF OwnStored, Document
  <2>4. t.n \in 0 .. m2 /\ t.n + Len(t.jobs) - 1 <= m2
    <3>1. Len(t.jobs) \in Nat BY <2>1 DEF TaskForm
    <3>. QED BY <2>1, <3>1
  <2>. QED BY <2>1, <2>2, <2>3, <2>4 DEF TaskOK
<1>. QED BY <1>1, <1>2

(* Captures of tasks are among those that were begun.                      *)
LEMMA HeldIsMade ==
  ASSUME NEW docs, NEW m \in Nat, NEW t, NEW S, TaskOK(t, docs, m, S)
  PROVE  /\ HeldBy(t) \subseteq 0 .. m
         /\ t # Idle => t.n \in HeldBy(t)
<1>1. CASE t = Idle BY <1>1 DEF HeldBy
<1>2. CASE t # Idle
  <2>1. TaskForm(t) /\ t.n \in 0 .. m /\ t.n + Len(t.jobs) - 1 <= m BY <1>2 DEF TaskOK
  <2>2. Len(t.jobs) \in Nat \ {0} BY <2>1 DEF TaskForm
  <2>. QED BY <1>2, <2>1, <2>2 DEF HeldBy
<1>. QED BY <1>1, <1>2

(* One writer goes over to task t: all tasks are in order again if t is.   *)
LEMMA OneWriter ==
  ASSUME NEW docs, NEW docs2, NEW m \in Nat, NEW m2 \in Nat, m <= m2, DocsOK(docs, m),
         NEW tasks, WritersOK(docs, m, tasks), NEW w \in Writers, NEW t,
         HeldBy(t) \subseteq HeldBy(tasks[w]) \cup {0} \cup (m + 1 .. m2),
         \A d \in docs \ docs2 : d.capture \in HeldBy(tasks[w]),
         TaskOK(t, docs2, m2, StableIn(docs2, [tasks EXCEPT ![w] = t]))
  PROVE  WritersOK(docs2, m2, [tasks EXCEPT ![w] = t])
<1> DEFINE new == [tasks EXCEPT ![w] = t]
<1>1. DOMAIN tasks = Writers BY DEF WritersOK
<1>2. /\ new[w] = t /\ DOMAIN new = Writers
      /\ \A v \in Writers \ {w} : new[v] = tasks[v]
  BY <1>1
<1>3. StableIn(docs, tasks) \subseteq StableIn(docs2, new) BY <1>1, StableGrows
<1>4. TaskOK(t, docs2, m2, StableIn(docs2, new)) OBVIOUS
<1> HIDE DEF new
<1>5. \A v \in Writers : /\ TaskOK(tasks[v], docs, m, StableIn(docs, tasks))
                         /\ HeldBy(tasks[v]) \subseteq 0 .. m
                         /\ tasks[v] # Idle => tasks[v].n \in HeldBy(tasks[v])
  BY HeldIsMade DEF WritersOK
<1>6. Disjoint(tasks) BY DEF WritersOK
<1>7. ASSUME NEW v \in Writers \ {w}
      PROVE  TaskOK(new[v], docs2, m2, StableIn(docs2, new))
  <2>1. ASSUME tasks[v] # Idle, NEW d \in docs \ docs2, tasks[v].n # 0
        PROVE  d.capture # tasks[v].n
    BY <1>5, <1>6, <2>1 DEF Disjoint
  <2>2. TaskOK(tasks[v], docs2, m2, StableIn(docs2, new))
    BY <1>3, <1>5, <2>1, TaskKeeps
  <2>. QED BY <1>2, <2>2
<1>8. Disjoint(new)
  <2>1. \A v \in Writers \ {w} : HeldBy(new[v]) \cap HeldBy(new[w]) \subseteq {0}
    BY <1>2, <1>5, <1>6 DEF Disjoint
  <2>2. \A u, v \in Writers \ {w} :
          u # v => HeldBy(new[u]) \cap HeldBy(new[v]) \subseteq {0}
    BY <1>2, <1>6 DEF Disjoint
  <2>. QED BY <2>1, <2>2 DEF Disjoint
<1>9. \A v \in Writers : TaskOK(new[v], docs2, m2, StableIn(docs2, new))
  BY <1>2, <1>4, <1>7
<1>10. WritersOK(docs2, m2, new) BY <1>2, <1>8, <1>9 DEF WritersOK
<1>. QED BY <1>10 DEF new

(* A writer keeps the invariant if its task is in order and what it makes  *)
(* of the file is earned.                                                  *)
LEMMA WriterStep ==
  ASSUME CheckpointInv, NEW w \in Writers, NEW t, task' = [task EXCEPT ![w] = t],
         made' \in Nat, made <= made', DocsOK(raw', made'),
         HeldBy(t) \subseteq HeldBy(task[w]) \cup {0} \cup (made + 1 .. made'),
         \A d \in raw \ raw' : d.capture \in HeldBy(task[w]),
         Stable \subseteq Stable' => TaskOK(t, raw', made', Stable'),
         Stable \subseteq Stable' => file' = file \/ IsEarned(file', Stable'),
         UNCHANGED importer
  PROVE  CheckpointInv'
<1>1. made \in Nat /\ DocsOK(raw, made) /\ WritersOK(raw, made, task)
  BY DEF CheckpointInv
<1>2. DOMAIN task = Writers BY <1>1 DEF WritersOK
<1>3. Stable \subseteq Stable' BY <1>1, <1>2, StableGrows DEF Stable
<1>4. WritersOK(raw', made', task') BY <1>1, <1>3, OneWriter DEF Stable
<1>5. file' # None => IsEarned(file', Stable')
  BY <1>3, EarnedStays DEF CheckpointInv
<1>6. ImporterOK'
  BY <1>3, EarnedStays DEF CheckpointInv, ImporterOK
<1>. QED BY <1>4, <1>5, <1>6 DEF CheckpointInv

-----------------------------------------------------------------------------
(* Actions of the writers *)

LEMMA InitHolds == Init => CheckpointInv
<1> SUFFICES ASSUME Init PROVE CheckpointInv OBVIOUS
<1>1. raw = {} /\ made = 0 /\ file = None /\ importer.step = "idle"
  BY DEF Init, Resting
<1>2. task = [w \in Writers |-> Idle] BY DEF Init
<1>3. WritersOK(raw, made, task)
  BY <1>2 DEF WritersOK, TaskOK, Disjoint, HeldBy
<1>. QED BY <1>1, <1>3 DEF CheckpointInv, DocsOK, ImporterOK

(* What a request or an import starts from is earned.                      *)
LEMMA LoadedIsEarned ==
  ASSUME CheckpointInv
  PROVE  IsEarned(Loaded, Stable)
<1>1. IsEarned(initial, Stable)
  <2>1. initial.captured_ids = <<>> /\ initial.decisions = <<>> BY DEF initial
  <2>2. IsCheckpoint(initial)
    <3>1. initial = [x \in CheckpointFields |-> initial[x]]
      BY DEF initial, CheckpointFields
    <3>. QED BY <2>1, <3>1 DEF IsCheckpoint
  <2>3. Captured(initial) = {} BY <2>1 DEF Captured, ToSet
  <2>. QED BY <2>2, <2>3 DEF IsEarned
<1>. QED BY <1>1 DEF Loaded, CheckpointInv

(* A task at work is not idle.                                             *)
LEMMA IdleIsNoWork ==
  ASSUME NEW t, TaskForm(t)
  PROVE  t # Idle
<1>1. t.step # "idle" BY DEF TaskForm
<1>. QED BY <1>1 DEF Idle

(* A task that is just planned.                                            *)
LEMMA StoringIsOK ==
  ASSUME CheckpointInv, NEW kind \in RequestKinds, NEW jobs,
         \/ jobs = <<jobs[1]>>
         \/ jobs = <<jobs[1], jobs[2]>> /\ kind = "file",
         NEW m \in Nat,
         m = IF kind \in {"discover", "failure"} THEN made ELSE made + Len(jobs),
         NEW S, \A k \in DOMAIN jobs :
           /\ IsCheckpoint(jobs[k].cp)
           /\ \A i \in Captured(jobs[k].cp) :
                \/ Backs(S, i)
                \/ \E j \in 1 .. k : i \in Brings(kind, jobs[j].items)
  PROVE  /\ TaskOK(Storing(kind, jobs), raw, m, S)
         /\ HeldBy(Storing(kind, jobs)) \subseteq {0} \cup (made + 1 .. m)
<1> DEFINE t == Storing(kind, jobs)
<1>0. made \in Nat BY DEF CheckpointInv
<1>1. CASE kind \in {"discover", "failure"}
  <2>1. t = Work("save", kind, jobs, 0) /\ m = made /\ jobs = <<jobs[1]>>
    BY <1>1 DEF Storing
  <2>2. t.step = "save" /\ t.n = 0 /\ t.jobs = jobs /\ t.kind = kind BY <2>1 DEF Work
  <2>3. Len(jobs) = 1 /\ DOMAIN jobs = {1} BY <2>1
  <2> HIDE DEF t
  <2>4. TaskForm(t) BY <2>1, <2>2 DEF TaskForm
  <2>5. \A k \in DOMAIN t.jobs : JobOK(t, k, S)
    BY <1>1, <2>2 DEF JobOK, Brings
  <2>n. t.n \in 0 .. m /\ t.n + Len(t.jobs) - 1 <= m 
    <3>1. t.n = 0 /\ Len(t.jobs) = 1 BY <2>2, <2>3
    <3>. QED BY <3>1
  <2>6. TaskOK(t, raw, m, S)
    BY <2>2, <2>4, <2>5, <2>n DEF TaskOK
  <2>7. HeldBy(t) \subseteq {0} BY <2>2, <2>3 DEF HeldBy
  <2>. QED BY <2>6, <2>7 DEF t
<1>2. CASE kind \notin {"discover", "failure"}
  <2>1. t = Work("items", kind, jobs, made + 1) /\ m = made + Len(jobs)
    BY <1>2 DEF Storing
  <2>2. t.step = "items" /\ t.n = made + 1 /\ t.jobs = jobs /\ t.kind = kind
    BY <2>1 DEF Work
  <2>3. Len(jobs) \in {1, 2} /\ DOMAIN jobs = 1 .. Len(jobs) OBVIOUS
  <2> HIDE DEF t
  <2>4. TaskForm(t) BY <1>0, <2>1, <2>2 DEF TaskForm
  <2>5. \A k \in DOMAIN t.jobs : JobOK(t, k, S)
    BY <1>0, <1>2, <2>2 DEF JobOK, Brings
  <2>6. OwnStored(t, raw) BY <2>2 DEF OwnStored
  <2>7. TaskOK(t, raw, m, S)
    BY <1>0, <2>1, <2>2, <2>3, <2>4, <2>5, <2>6 DEF TaskOK
  <2>8. HeldBy(t) \subseteq made + 1 .. m BY <1>0, <2>1, <2>2, <2>3 DEF HeldBy
  <2>. QED BY <2>7, <2>8 DEF t
<1>. QED BY <1>1, <1>2

(* One lemma for each action of a writer.                                  *)
LEMMA ReceiveKeeps ==
  ASSUME CheckpointInv, NEW w \in Writers, NEW kind \in Kinds \ {"file"}, Receive(w, kind)
  PROVE  CheckpointInv'
<1>1. kind \in RequestKinds \ {"file"} BY CheckpointAssumption
<1>p. PICK p \in DOMAIN Pages : \E q \in Inputs(kind, p) : \E cp \in Plan(Loaded, q) :
        task' = [task EXCEPT ![w] = Storing(kind, <<Job(q.items, cp)>>)]
  BY DEF Receive
<1>q. PICK q \in Inputs(kind, p) : \E cp \in Plan(Loaded, q) :
        task' = [task EXCEPT ![w] = Storing(kind, <<Job(q.items, cp)>>)]
  BY <1>p
<1>2. PICK cp \in Plan(Loaded, q) :
        task' = [task EXCEPT ![w] = Storing(kind, <<Job(q.items, cp)>>)]
  BY <1>q
<1>3. /\ task[w] = Idle /\ raw' = raw /\ UNCHANGED <<file, importer>>
      /\ made' = IF kind \in {"discover", "failure"} THEN made ELSE made + 1
  BY DEF Receive
<1>4. made \in Nat /\ DocsOK(raw, made) BY DEF CheckpointInv
<1>5. made' \in Nat /\ made <= made' /\ DocsOK(raw', made')
  BY <1>3, <1>4 DEF DocsOK
<1>6. IsEarned(Loaded, Stable) BY LoadedIsEarned
<1>7. q.kind = kind /\ DOMAIN q.items \subseteq Id /\ IsFiniteSet(DOMAIN q.items)
  BY InputItems
<1>8. Grows(cp, Loaded, Brings(kind, q.items))
  BY <1>1, <1>2, <1>6, <1>7, PlanGrows DEF IsEarned
<1> DEFINE jobs == <<Job(q.items, cp)>>
<1>9. /\ jobs = <<jobs[1]>> /\ Len(jobs) = 1 /\ DOMAIN jobs = {1}
      /\ jobs[1].cp = cp /\ jobs[1].items = q.items
  BY DEF Job
<1> HIDE DEF jobs
<1>10. ASSUME Stable \subseteq Stable'
       PROVE  TaskOK(Storing(kind, jobs), raw', made', Stable')
  <2>1. IsEarned(Loaded, Stable') BY <1>6, <1>10, EarnedStays
  <2>2. \A k \in DOMAIN jobs :
          /\ IsCheckpoint(jobs[k].cp)
          /\ \A i \in Captured(jobs[k].cp) :
               \/ Backs(Stable', i)
               \/ \E j \in 1 .. k : i \in Brings(kind, jobs[j].items)
    BY <1>8, <1>9, <2>1 DEF Grows, IsEarned
  <2>. QED BY <1>1, <1>3, <1>5, <1>9, <2>2, StoringIsOK
<1>11. HeldBy(Storing(kind, jobs)) \subseteq {0} \cup (made + 1 .. made')
  <2>1. \A k \in DOMAIN jobs :
          /\ IsCheckpoint(jobs[k].cp)
          /\ \A i \in Captured(jobs[k].cp) :
               \/ Backs(Stable, i)
               \/ \E j \in 1 .. k : i \in Brings(kind, jobs[j].items)
    BY <1>6, <1>8, <1>9 DEF Grows, IsEarned
  <2>. QED BY <1>1, <1>3, <1>5, <1>9, <2>1, StoringIsOK
<1>12. task' = [task EXCEPT ![w] = Storing(kind, jobs)] BY <1>2 DEF jobs
<1>. QED BY <1>3, <1>5, <1>10, <1>11, <1>12, WriterStep

LEMMA ReadFileKeeps ==
  ASSUME CheckpointInv, NEW w \in Writers, ReadFile(w)
  PROVE  CheckpointInv'
<1> DEFINE Next2(q1, c1, q2, c2) ==
             task' = [task EXCEPT ![w] =
                        Storing("file", <<Job(q1.items, c1), Job(q2.items, c2)>>)]
<1>1. PICK p1 \in DOMAIN Pages, p2 \in DOMAIN Pages :
        \E q1 \in Inputs("file", p1) : \E c1 \in PlanFile(Loaded, q1) :
        \E q2 \in Inputs("file", p2) : \E c2 \in PlanFile(c1, q2) : Next2(q1, c1, q2, c2)
  BY DEF ReadFile
<1>2. PICK q1 \in Inputs("file", p1) : \E c1 \in PlanFile(Loaded, q1) :
        \E q2 \in Inputs("file", p2) : \E c2 \in PlanFile(c1, q2) : Next2(q1, c1, q2, c2)
  BY <1>1
<1>3. PICK c1 \in PlanFile(Loaded, q1) :
        \E q2 \in Inputs("file", p2) : \E c2 \in PlanFile(c1, q2) : Next2(q1, c1, q2, c2)
  BY <1>2
<1>4. PICK q2 \in Inputs("file", p2) : \E c2 \in PlanFile(c1, q2) : Next2(q1, c1, q2, c2)
  BY <1>3
<1>5. PICK c2 \in PlanFile(c1, q2) : Next2(q1, c1, q2, c2) BY <1>4
<1>6. /\ raw' = raw /\ UNCHANGED <<file, importer>> /\ made' = made + 2
  BY DEF ReadFile
<1>7. made \in Nat /\ DocsOK(raw, made) BY DEF CheckpointInv
<1>8. made' \in Nat /\ made <= made' /\ DocsOK(raw', made')
  BY <1>6, <1>7 DEF DocsOK
<1>9. IsEarned(Loaded, Stable) BY LoadedIsEarned
<1>10. Grows(c1, Loaded, DOMAIN q1.items)
  <2>1. DOMAIN q1.items \subseteq Id /\ IsFiniteSet(DOMAIN q1.items) BY InputItems
  <2>. QED BY <1>9, <2>1, PlanFileGrows DEF IsEarned
<1>11. Grows(c2, c1, DOMAIN q2.items)
  <2>1. DOMAIN q2.items \subseteq Id /\ IsFiniteSet(DOMAIN q2.items) BY InputItems
  <2>. QED BY <1>10, <2>1, PlanFileGrows DEF Grows
<1> DEFINE jobs == <<Job(q1.items, c1), Job(q2.items, c2)>>
<1>12. /\ jobs = <<jobs[1], jobs[2]>> /\ Len(jobs) = 2 /\ DOMAIN jobs = {1, 2}
       /\ jobs[1].cp = c1 /\ jobs[1].items = q1.items
       /\ jobs[2].cp = c2 /\ jobs[2].items = q2.items
  BY DEF Job
<1>13. task' = [task EXCEPT ![w] = Storing("file", jobs)] BY <1>5
<1> HIDE DEF jobs
<1>14. ASSUME NEW S, IsEarned(Loaded, S)
       PROVE  /\ TaskOK(Storing("file", jobs), raw, made', S)
              /\ HeldBy(Storing("file", jobs)) \subseteq {0} \cup (made + 1 .. made')
  <2>1. /\ IsCheckpoint(jobs[1].cp) /\ IsCheckpoint(jobs[2].cp)
    BY <1>10, <1>11, <1>12, <1>14 DEF Grows, IsEarned
  <2>2. \A i \in Captured(jobs[1].cp) : Backs(S, i) \/ i \in Brings("file", jobs[1].items)
    BY <1>10, <1>12, <1>14 DEF Grows, IsEarned, Brings
  <2>3. \A i \in Captured(jobs[2].cp) : \/ Backs(S, i)
                                        \/ i \in Brings("file", jobs[1].items)
                                        \/ i \in Brings("file", jobs[2].items)
    BY <1>11, <1>12, <2>2 DEF Grows, Brings
  <2>4. \A k \in DOMAIN jobs :
          /\ IsCheckpoint(jobs[k].cp)
          /\ \A i \in Captured(jobs[k].cp) :
               \/ Backs(S, i)
               \/ \E j \in 1 .. k : i \in Brings("file", jobs[j].items)
    <3>1. ASSUME NEW i \in Captured(jobs[1].cp)
          PROVE  Backs(S, i) \/ \E j \in 1 .. 1 : i \in Brings("file", jobs[j].items)
      BY <2>2
    <3>2. ASSUME NEW i \in Captured(jobs[2].cp)
          PROVE  Backs(S, i) \/ \E j \in 1 .. 2 : i \in Brings("file", jobs[j].items)
      BY <2>3
    <3>. QED BY <1>12, <2>1, <3>1, <3>2
  <2>5. made' = IF "file" \in {"discover", "failure"} THEN made ELSE made + Len(jobs)
    BY <1>6, <1>12
  <2>6. "file" \in RequestKinds BY DEF RequestKinds
  <2>. QED BY <1>8, <1>12, <2>4, <2>5, <2>6, StoringIsOK
<1>15. Stable \subseteq Stable' =>
         TaskOK(Storing("file", jobs), raw', made', Stable')
  BY <1>6, <1>9, <1>14, EarnedStays
<1>16. HeldBy(Storing("file", jobs)) \subseteq {0} \cup (made + 1 .. made')
  BY <1>9, <1>14
<1>. QED BY <1>6, <1>8, <1>13, <1>15, <1>16, WriterStep

(* A task that works on.                                                   *)
LEMMA WorkingTask ==
  ASSUME CheckpointInv, NEW w \in Writers, task[w] # Idle
  PROVE  LET t == task[w] IN
         /\ t = Work(t.step, t.kind, t.jobs, t.n) /\ TaskForm(t)
         /\ Current(w) = t.jobs[1] /\ Len(t.jobs) \in {1, 2}
         /\ t.n \in 0 .. made /\ t.n + Len(t.jobs) - 1 <= made
         /\ t.n = 0 => t.step = "save"
         /\ \A k \in DOMAIN t.jobs : JobOK(t, k, Stable)
         /\ t.n # 0 => OwnStored(t, raw)
         /\ HeldBy(t) = t.n .. t.n + Len(t.jobs) - 1
<1> DEFINE t == task[w]
<1>1. TaskOK(t, raw, made, Stable) BY DEF CheckpointInv, WritersOK, Stable
<1>2. HeldBy(t) = t.n .. t.n + Len(t.jobs) - 1 BY DEF HeldBy
<1> HIDE DEF t
<1>3. /\ TaskForm(t) /\ t.n \in 0 .. made /\ t.n + Len(t.jobs) - 1 <= made
      /\ t.n = 0 => t.step = "save"
      /\ t.n # 0 => OwnStored(t, raw)
      /\ \A k \in DOMAIN t.jobs : JobOK(t, k, Stable)
  BY <1>1 DEF TaskOK, t
<1>4. Len(t.jobs) \in {1, 2} /\ Head(t.jobs) = t.jobs[1]
  <2>1. \/ \E a : t.jobs = <<a>>
        \/ \E a, b : t.jobs = <<a, b>>
    BY <1>3 DEF TaskForm
  <2>2. \A a : Len(<<a>>) = 1 /\ Head(<<a>>) = <<a>>[1] OBVIOUS
  <2>3. \A a, b : Len(<<a, b>>) = 2 /\ Head(<<a, b>>) = <<a, b>>[1] OBVIOUS
  <2>. QED BY <2>1, <2>2, <2>3
<1>5. t = Work(t.step, t.kind, t.jobs, t.n) BY <1>3 DEF TaskForm
<1>. QED BY <1>2, <1>3, <1>4, <1>5 DEF t, Current

(* The next step of a task whose documents docs are stored.                *)
LEMMA NextStepIsOK ==
  ASSUME CheckpointInv, NEW w \in Writers, task[w] # Idle, task[w].n # 0,
         NEW step \in {"details", "replay", "save"}, NEW docs, NEW S, Stable \subseteq S,
         NEW t, t = Work(step, task[w].kind, task[w].jobs, task[w].n),
         OwnStored(t, docs)
  PROVE  TaskOK(t, docs, made, S) /\ HeldBy(t) = HeldBy(task[w])
<1> DEFINE old == task[w]
<1>1. /\ TaskForm(old) /\ old.n \in 0 .. made /\ old.n + Len(old.jobs) - 1 <= made
      /\ \A k \in DOMAIN old.jobs : JobOK(old, k, Stable)
      /\ HeldBy(old) = old.n .. old.n + Len(old.jobs) - 1
  BY WorkingTask
<1>2. t.step = step /\ t.kind = old.kind /\ t.jobs = old.jobs /\ t.n = old.n
  BY DEF Work
<1>3. TaskForm(t) BY <1>1, <1>2 DEF TaskForm
<1>4. ASSUME NEW k \in DOMAIN t.jobs PROVE JobOK(t, k, S)
  <2>1. JobOK(old, k, S) BY <1>1, <1>2, JobKeeps
  <2>. QED BY <1>2, <2>1 DEF JobOK
<1>5. t # Idle BY <1>3, IdleIsNoWork
<1> HIDE DEF old
<1>6. TaskOK(t, docs, made, S) BY <1>1, <1>2, <1>3, <1>4 DEF TaskOK, old
<1>7. HeldBy(t) = HeldBy(old) BY <1>1, <1>2, <1>5 DEF HeldBy
<1>. QED BY <1>6, <1>7 DEF old

LEMMA SaveItemsKeeps ==
  ASSUME CheckpointInv, NEW w \in Writers, SaveItems(w)
  PROVE  CheckpointInv'
<1> DEFINE old == task[w]
           n == old.n
           items == old.jobs[1].items
           t == Work("details", old.kind, old.jobs, n)
<1>1. /\ old.step = "items" /\ task' = [task EXCEPT ![w] = [old EXCEPT !.step = "details"]]
      /\ UNCHANGED <<file, made, importer>>
      /\ raw' = raw \cup {ListOf(n)} \cup
                {Document("list_item", n, i, None) : i \in DOMAIN Current(w).items}
  BY DEF SaveItems, Goto
<1>2. old # Idle BY <1>1 DEF Idle
<1>3. /\ old = Work(old.step, old.kind, old.jobs, n) /\ Current(w) = old.jobs[1]
      /\ n \in 1 .. made /\ n # 0
  BY <1>1, <1>2, WorkingTask
<1>4. [old EXCEPT !.step = "details"] = t
  <2>1. PICK kind, jobs, k : old = Work("items", kind, jobs, k)
    BY <1>1, <1>3
  <2>2. old.kind = kind /\ old.jobs = jobs /\ old.n = k BY <2>1 DEF Work
  <2>3. [Work("items", kind, jobs, k) EXCEPT !.step = "details"] = Work("details", kind, jobs, k)
    BY DEF Work
  <2>. QED BY <2>1, <2>2, <2>3
<1>5. made \in Nat /\ DocsOK(raw, made) BY DEF CheckpointInv
<1> HIDE DEF t
<1>6. t = Work("details", old.kind, old.jobs, n) BY DEF t
<1> HIDE DEF old, n, items
<1>7. DocsOK(raw', made')
  <2>1. ASSUME NEW d \in raw'
        PROVE  d.capture \in 1 .. made' /\ (d.role = "list_item" => ListOf(d.capture) \in raw')
    <3>1. CASE d \in raw BY <1>1, <1>5, <3>1 DEF DocsOK
    <3>2. CASE d \notin raw
      <4>1. d.capture = n BY <1>1, <2>1, <3>2 DEF ListOf, Document
      <4>. QED BY <1>1, <1>3, <4>1
    <3>. QED BY <3>1, <3>2
  <2>. QED BY <2>1 DEF DocsOK
<1>8. OwnStored(t, raw')
  <2>1. t.step = "details" /\ t.jobs = old.jobs /\ t.n = n BY <1>6 DEF Work
  <2>2. \A i \in DOMAIN old.jobs[1].items : Document("list_item", n, i, None) \in raw'
    BY <1>1, <1>3
  <2>. QED BY <2>1, <2>2 DEF OwnStored
<1>9. ASSUME NEW S, Stable \subseteq S
      PROVE  TaskOK(t, raw', made, S) /\ HeldBy(t) = HeldBy(task[w])
  BY <1>2, <1>3, <1>6, <1>8, <1>9, NextStepIsOK DEF old, n
<1>10. Stable \subseteq Stable' => TaskOK(t, raw', made', Stable')
  BY <1>1, <1>9
<1>11. HeldBy(t) = HeldBy(task[w]) BY <1>9
<1>12. task' = [task EXCEPT ![w] = t] /\ raw \subseteq raw' /\ made' = made /\ made \in Nat
  BY <1>1, <1>4, <1>5
<1>13. /\ made' \in Nat /\ made <= made'
       /\ HeldBy(t) \subseteq HeldBy(task[w]) \cup {0} \cup (made + 1 .. made')
       /\ \A d \in raw \ raw' : d.capture \in HeldBy(task[w])
  BY <1>11, <1>12
<1>14. file' = file /\ UNCHANGED importer BY <1>1
<1>. QED BY <1>7, <1>10, <1>12, <1>13, <1>14, WriterStep

(* A task that ends leaves what is in order in order.                      *)
LEMMA EndIsOK ==
  ASSUME NEW docs, NEW m, NEW S
  PROVE  TaskOK(Idle, docs, m, S) /\ HeldBy(Idle) = {}
BY DEF TaskOK, HeldBy

LEMMA SaveDetailsKeeps ==
  ASSUME CheckpointInv, NEW w \in Writers, SaveDetails(w)
  PROVE  CheckpointInv'
<1> DEFINE old == task[w]
           n == old.n
           t(step) == Work(step, old.kind, old.jobs, n)
<1>1. /\ old.step = "details"
      /\ UNCHANGED <<file, made, importer>>
      /\ raw' = raw \cup {Document("detail_response", n, i, Current(w).items[i]) :
                            i \in DOMAIN Current(w).items}
  BY DEF SaveDetails
<1>2. old # Idle BY <1>1 DEF Idle
<1>3. /\ old = Work("details", old.kind, old.jobs, n) /\ Current(w) = old.jobs[1]
      /\ n \in 1 .. made /\ n # 0 /\ OwnStored(old, raw)
  BY <1>1, <1>2, WorkingTask
<1>4. ASSUME NEW step PROVE [old EXCEPT !.step = step] = t(step)
  <2>1. PICK kind, jobs, k : old = Work("details", kind, jobs, k)
    BY <1>1, <1>3
  <2>2. old.kind = kind /\ old.jobs = jobs /\ old.n = k BY <2>1 DEF Work
  <2>3. [Work("details", kind, jobs, k) EXCEPT !.step = step] = Work(step, kind, jobs, k)
    BY DEF Work
  <2>. QED BY <2>1, <2>2, <2>3
<1>5. made \in Nat /\ DocsOK(raw, made) BY DEF CheckpointInv
<1>6. \/ task' = [task EXCEPT ![w] = Idle]
      \/ task' = [task EXCEPT ![w] = t("replay")]
      \/ task' = [task EXCEPT ![w] = t("save")]
  <2>1. \/ task' = [task EXCEPT ![w] = Idle]
        \/ task' = [task EXCEPT ![w] = [old EXCEPT !.step = "replay"]]
        \/ task' = [task EXCEPT ![w] = [old EXCEPT !.step = "save"]]
    BY Zenon DEF SaveDetails, Goto
  <2>. QED BY <1>4, <2>1
<1> HIDE DEF t, old, n
<1>7. DocsOK(raw', made')
  <2>1. ASSUME NEW d \in raw'
        PROVE  d.capture \in 1 .. made' /\ (d.role = "list_item" => ListOf(d.capture) \in raw')
    <3>1. CASE d \in raw BY <1>1, <1>5, <3>1 DEF DocsOK
    <3>2. CASE d \notin raw
      <4>1. d.capture = n /\ d.role = "detail_response" BY <1>1, <2>1, <3>2 DEF Document
      <4>. QED BY <1>1, <1>3, <4>1
    <3>. QED BY <3>1, <3>2
  <2>. QED BY <2>1 DEF DocsOK
<1>8. ASSUME NEW step \in {"replay", "save"} PROVE OwnStored(t(step), raw')
  <2>1. t(step).step = step /\ t(step).jobs = old.jobs /\ t(step).n = n BY DEF Work, t
  <2>2. \A i \in DOMAIN old.jobs[1].items :
          /\ Document("list_item", n, i, None) \in raw'
          /\ Document("detail_response", n, i, old.jobs[1].items[i]) \in raw'
    BY <1>1, <1>3 DEF OwnStored, n
  <2>. QED BY <2>1, <2>2 DEF OwnStored
<1>9. ASSUME NEW step \in {"replay", "save"}, NEW S, Stable \subseteq S
      PROVE  TaskOK(t(step), raw', made, S) /\ HeldBy(t(step)) = HeldBy(task[w])
  BY <1>2, <1>3, <1>8, <1>9, NextStepIsOK DEF old, n, t
<1>10. raw \subseteq raw' /\ made' = made /\ made \in Nat /\ UNCHANGED <<file, importer>>
  BY <1>1, <1>5
<1>11. ASSUME NEW new, task' = [task EXCEPT ![w] = new],
              HeldBy(new) \subseteq HeldBy(task[w]),
              \A S : Stable \subseteq S => TaskOK(new, raw', made, S)
       PROVE  CheckpointInv'
  <2>1. Stable \subseteq Stable' => TaskOK(new, raw', made', Stable')
    BY <1>10, <1>11
  <2>2. /\ made' \in Nat /\ made <= made'
        /\ HeldBy(new) \subseteq HeldBy(task[w]) \cup {0} \cup (made + 1 .. made')
        /\ \A d \in raw \ raw' : d.capture \in HeldBy(task[w])
    BY <1>10, <1>11
  <2>3. file' = file /\ UNCHANGED importer BY <1>10
  <2>. QED BY <1>7, <1>11, <2>1, <2>2, <2>3, WriterStep
<1>12. CASE task' = [task EXCEPT ![w] = Idle] BY <1>11, <1>12, EndIsOK
<1>13. CASE task' = [task EXCEPT ![w] = t("replay")]
  <2>1. /\ \A S : Stable \subseteq S => TaskOK(t("replay"), raw', made, S)
        /\ HeldBy(t("replay")) = HeldBy(task[w])
    BY <1>9
  <2>. QED BY <1>11, <1>13, <2>1
<1>14. CASE task' = [task EXCEPT ![w] = t("save")]
  <2>1. /\ \A S : Stable \subseteq S => TaskOK(t("save"), raw', made, S)
        /\ HeldBy(t("save")) = HeldBy(task[w])
    BY <1>9
  <2>. QED BY <1>11, <1>14, <2>1
<1>. QED BY <1>6, <1>12, <1>13, <1>14

LEMMA ReplayRecoveryKeeps ==
  ASSUME CheckpointInv, NEW w \in Writers, ReplayRecovery(w)
  PROVE  CheckpointInv'
<1> DEFINE old == task[w]
           items == Current(w).items
<1>1. PICK cp \in RecoveredOutcomes(w) :
        task' = [task EXCEPT ![w] = Work("save", "recover", <<Job(items, cp)>>, old.n)]
  BY DEF ReplayRecovery
<1>2. old.step = "replay" /\ UNCHANGED <<file, raw, made, importer>>
  BY DEF ReplayRecovery
<1>3. old # Idle BY <1>2 DEF Idle
<1>4. /\ Current(w) = old.jobs[1] /\ old.n # 0 /\ old.n \in 0 .. made
      /\ Len(old.jobs) \in {1, 2} /\ old.n + Len(old.jobs) - 1 <= made
      /\ JobOK(old, 1, Stable) /\ OwnStored(old, raw)
      /\ HeldBy(old) = old.n .. old.n + Len(old.jobs) - 1
  <2>1. /\ TaskForm(old) /\ \A k \in DOMAIN old.jobs : JobOK(old, k, Stable)
        /\ Len(old.jobs) \in {1, 2}
    BY <1>3, WorkingTask
  <2>2. 1 \in DOMAIN old.jobs BY <2>1 DEF TaskForm
  <2>. QED BY <1>2, <1>3, <2>1, <2>2, WorkingTask
<1>5. PICK outcomes : cp \in reclassify_failed(Current(w).cp, outcomes)
  BY <1>1 DEF RecoveredOutcomes
<1>6. /\ IsCheckpoint(cp) /\ cp.captured_ids = old.jobs[1].cp.captured_ids
  BY <1>4, <1>5, ReclassifyKeepsCaptures DEF JobOK
<1> DEFINE jobs == <<Job(items, cp)>>
           t == Work("save", "recover", jobs, old.n)
<1>7. /\ jobs = <<jobs[1]>> /\ Len(jobs) = 1 /\ DOMAIN jobs = {1}
      /\ jobs[1].cp = cp /\ jobs[1].items = items
  BY DEF Job
<1> HIDE DEF jobs
<1>8. t.step = "save" /\ t.kind = "recover" /\ t.jobs = jobs /\ t.n = old.n BY DEF Work
<1>9. TaskForm(t) BY <1>7, <1>8 DEF TaskForm
<1>10. t # Idle BY <1>9, IdleIsNoWork
<1>11. OwnStored(t, raw) BY <1>2, <1>4, <1>7, <1>8 DEF OwnStored
<1>12. ASSUME Stable \subseteq Stable' PROVE JobOK(t, 1, Stable')
  <2>1. JobOK(old, 1, Stable') BY <1>4, <1>12, JobKeeps
  <2>. QED BY <1>4, <1>6, <1>7, <1>8, <2>1 DEF JobOK, Captured
<1>13. task' = [task EXCEPT ![w] = t] BY <1>1 DEF jobs
<1> HIDE DEF t, old, items
<1>14. made \in Nat /\ DocsOK(raw, made) BY DEF CheckpointInv
<1>n. t.n \in 0 .. made /\ t.n # 0 /\ Len(t.jobs) = 1 /\ DOMAIN t.jobs = {1}
  BY <1>4, <1>7, <1>8
<1>m. t.n + Len(t.jobs) - 1 <= made BY <1>n, <1>14
<1>15. Stable \subseteq Stable' => TaskOK(t, raw', made', Stable')
  BY <1>2, <1>8, <1>9, <1>11, <1>12, <1>n, <1>m DEF TaskOK
<1>16. /\ made' \in Nat /\ made <= made' /\ DocsOK(raw', made')
       /\ HeldBy(t) \subseteq HeldBy(task[w]) \cup {0} \cup (made + 1 .. made')
       /\ \A d \in raw \ raw' : d.capture \in HeldBy(task[w])
  <2>1. HeldBy(t) = t.n .. t.n + Len(t.jobs) - 1 BY <1>10 DEF HeldBy
  <2>2. HeldBy(t) \subseteq HeldBy(old) BY <1>4, <1>8, <1>n, <2>1
  <2>3. HeldBy(t) \subseteq HeldBy(task[w]) BY <2>2 DEF old
  <2>. QED BY <1>2, <1>14, <2>3
<1>17. file' = file /\ UNCHANGED importer BY <1>2
<1>. QED BY <1>13, <1>15, <1>16, <1>17, WriterStep

(* What the first job of a task has stored is backed once the task lets go *)
(* of its capture.                                                         *)
LEMMA StoredIsBacked ==
  ASSUME CheckpointInv, NEW w \in Writers, task[w].step = "save", task[w].n # 0,
         NEW t, task[w].n \notin HeldBy(t), NEW i \in DOMAIN task[w].jobs[1].items
  PROVE  Backs(StableIn(raw, [task EXCEPT ![w] = t]), i)
<1> DEFINE n == task[w].n
           new == [task EXCEPT ![w] = t]
           docs == {Document("list_item", n, i, None),
                    Document("detail_response", n, i, task[w].jobs[1].items[i])}
<1>1. task[w] # Idle BY DEF Idle
<1>2. OwnStored(task[w], raw) /\ n \in HeldBy(task[w])
  BY <1>1, WorkingTask, HeldIsMade DEF CheckpointInv, WritersOK
<1>3. docs \subseteq raw BY <1>2 DEF OwnStored
<1>4. \A d \in docs : d.capture = n BY DEF Document
<1>5. \A v \in Writers : n \notin HeldBy(new[v])
  BY <1>2 DEF CheckpointInv, WritersOK, Disjoint
<1> HIDE DEF new
<1>6. docs \subseteq StableIn(raw, new) BY <1>3, <1>4, <1>5 DEF StableIn
<1>7. Backs(StableIn(raw, new), i) BY <1>6 DEF Backs, Has, Document
<1>. QED BY <1>7 DEF new

(* A task that ends.                                                       *)
LEMMA EndKeeps ==
  ASSUME CheckpointInv, NEW w \in Writers, task' = [task EXCEPT ![w] = Idle],
         \/ raw' = raw
         \/ task[w] # Idle /\ raw' = {d \in raw : d.capture # task[w].n},
         UNCHANGED <<file, made, importer>>
  PROVE  CheckpointInv'
<1>1. made \in Nat /\ DocsOK(raw, made) BY DEF CheckpointInv
<1>2. DocsOK(raw', made') BY <1>1 DEF DocsOK, ListOf, Document
<1>3. \A d \in raw \ raw' : d.capture \in HeldBy(task[w])
  BY HeldIsMade DEF CheckpointInv, WritersOK
<1>4. HeldBy(Idle) = {} /\ TaskOK(Idle, raw', made', Stable') BY EndIsOK
<1>5. made' \in Nat /\ made <= made' BY <1>1
<1>6. HeldBy(Idle) \subseteq HeldBy(task[w]) \cup {0} \cup (made + 1 .. made') BY <1>4
<1>. QED BY <1>2, <1>3, <1>4, <1>5, <1>6, WriterStep

LEMMA FailKeeps ==
  ASSUME CheckpointInv, NEW w \in Writers, Fail(w) \/ Die(w)
  PROVE  CheckpointInv'
<1>1. /\ task[w] # Idle /\ task' = [task EXCEPT ![w] = Idle]
      /\ UNCHANGED <<file, made, importer>>
      /\ raw' = raw \/ raw' = raw \ Own(w)
  BY DEF Fail, Die, Undo
<1>2. raw \ Own(w) = {d \in raw : d.capture # task[w].n} BY DEF Own
<1>. QED BY <1>1, <1>2, EndKeeps

LEMMA SaveCheckpointKeeps ==
  ASSUME CheckpointInv, NEW w \in Writers, SaveCheckpoint(w)
  PROVE  CheckpointInv'
<1> DEFINE old == task[w]
           n == old.n
<1>1. /\ old.step = "save" /\ file' = Current(w).cp
      /\ task' = IF Len(old.jobs) = 1 THEN [task EXCEPT ![w] = Idle]
                 ELSE [task EXCEPT ![w] = Work("items", "file", Tail(old.jobs), n + 1)]
      /\ UNCHANGED <<raw, made, importer>>
  BY DEF SaveCheckpoint
<1>2. old # Idle BY <1>1 DEF Idle
<1>3. /\ Current(w) = old.jobs[1] /\ n \in 0 .. made /\ TaskForm(old)
      /\ Len(old.jobs) \in {1, 2} /\ n + Len(old.jobs) - 1 <= made
      /\ \A k \in DOMAIN old.jobs : JobOK(old, k, Stable)
      /\ HeldBy(old) = n .. n + Len(old.jobs) - 1
  BY <1>2, WorkingTask
<1>4. made \in Nat /\ DocsOK(raw, made) BY DEF CheckpointInv
<1>5. made' \in Nat /\ made <= made' /\ DocsOK(raw', made')
  BY <1>1, <1>4 DEF DocsOK
<1>6. 1 \in DOMAIN old.jobs BY <1>3 DEF TaskForm
<1>7. ASSUME NEW t, task' = [task EXCEPT ![w] = t], n \notin HeldBy(t), n # 0,
             NEW i \in DOMAIN old.jobs[1].items
      PROVE  Backs(Stable', i)
  <2>1. Stable' = StableIn(raw, [task EXCEPT ![w] = t]) BY <1>1, <1>7 DEF Stable
  <2>. QED BY <1>1, <1>7, <2>1, StoredIsBacked
<1>8. ASSUME NEW t, task' = [task EXCEPT ![w] = t], n \notin HeldBy(t), Stable \subseteq Stable'
      PROVE  IsEarned(file', Stable')
  <2>1. JobOK(old, 1, Stable') BY <1>3, <1>6, <1>8, JobKeeps
  <2>2. ASSUME NEW i \in Captured(old.jobs[1].cp) PROVE Backs(Stable', i)
    <3>1. \/ Backs(Stable', i)
          \/ n # 0 /\ \E j \in 1 .. 1 : i \in DOMAIN old.jobs[j].items
      BY <2>1, Zenon DEF JobOK
    <3>2. ASSUME NEW j \in 1 .. 1 PROVE j = 1 OBVIOUS
    <3>. QED BY <1>7, <1>8, <3>1, <3>2, Zenon
  <2>. QED BY <1>1, <1>3, <2>1, <2>2 DEF JobOK, IsEarned
<1>9. CASE Len(old.jobs) = 1
  <2>1. task' = [task EXCEPT ![w] = Idle] BY <1>1, <1>9
  <2>2. HeldBy(Idle) = {} /\ TaskOK(Idle, raw', made', Stable') BY EndIsOK
  <2>3. Stable \subseteq Stable' => IsEarned(file', Stable') BY <1>8, <2>1, <2>2
  <2>4. /\ HeldBy(Idle) \subseteq HeldBy(task[w]) \cup {0} \cup (made + 1 .. made')
        /\ \A d \in raw \ raw' : d.capture \in HeldBy(task[w])
    BY <1>1, <2>2
  <2>5. UNCHANGED importer BY <1>1
  <2>. QED BY <1>5, <2>1, <2>2, <2>3, <2>4, <2>5, WriterStep
<1>10. CASE Len(old.jobs) = 2
  <2>1. old.jobs = <<old.jobs[1], old.jobs[2]>> /\ n # 0
    <3>1. \A a : Len(<<a>>) = 1 OBVIOUS
    <3>2. old.jobs # <<old.jobs[1]>> BY <1>10, <3>1
    <3>. QED BY <1>3, <3>2 DEF TaskForm
  <2> DEFINE jobs == <<old.jobs[2]>>
             t == Work("items", "file", jobs, n + 1)
  <2>2. Tail(old.jobs) = jobs
    <3>1. \A a, b : Tail(<<a, b>>) = <<b>> OBVIOUS
    <3>. QED BY <2>1, <3>1
  <2>3. task' = [task EXCEPT ![w] = t]
    <3>1. Len(old.jobs) # 1 BY <1>10
    <3>. QED BY <1>1, <2>2, <3>1, Zenon
  <2>4. jobs[1] = old.jobs[2] /\ jobs = <<jobs[1]>> /\ Len(jobs) = 1 /\ DOMAIN jobs = {1}
    OBVIOUS
  <2> HIDE DEF jobs
  <2>5. t.step = "items" /\ t.n = n + 1 /\ t.jobs = jobs /\ t.kind = "file" BY DEF Work
  <2>6. TaskForm(t) BY <2>4, <2>5 DEF TaskForm
  <2>7. t # Idle BY <2>6, IdleIsNoWork
  <2> HIDE DEF t
  <2>8. HeldBy(t) = n + 1 .. n + 1
    <3>1. Len(t.jobs) = 1 /\ t.n = n + 1 /\ n \in Int BY <1>3, <1>4, <2>4, <2>5
    <3>2. t.n + Len(t.jobs) - 1 = n + 1 BY <3>1
    <3>. QED BY <2>5, <2>7, <3>2 DEF HeldBy
  <2>9. HeldBy(t) \subseteq HeldBy(old) /\ n \notin HeldBy(t) /\ n + 1 <= made
    BY <1>3, <1>4, <1>10, <2>8
  <2>10. ASSUME Stable \subseteq Stable' PROVE JobOK(t, 1, Stable')
    <3>1. 2 \in DOMAIN old.jobs BY <2>1
    <3>2. JobOK(old, 2, Stable') BY <1>3, <2>10, <3>1, JobKeeps
    <3>3. ASSUME NEW i \in Captured(old.jobs[2].cp)
          PROVE  Backs(Stable', i) \/ i \in DOMAIN old.jobs[2].items
      <4>1. \/ Backs(Stable', i)
            \/ i \in DOMAIN old.jobs[1].items
            \/ i \in DOMAIN old.jobs[2].items
        BY <3>2 DEF JobOK
      <4>. QED BY <1>7, <2>1, <2>3, <2>9, <4>1
    <3>4. t.n # 0 BY <1>3, <1>4, <2>5
    <3>5. ASSUME NEW i \in Captured(t.jobs[1].cp)
          PROVE  Backs(Stable', i) \/ \E j \in 1 .. 1 : i \in DOMAIN t.jobs[j].items
      BY <2>4, <2>5, <3>3
    <3>. QED BY <2>4, <2>5, <3>2, <3>4, <3>5 DEF JobOK
  <2>11. OwnStored(t, raw') BY <2>5 DEF OwnStored
  <2>12. /\ t.n \in 0 .. made' /\ t.n + Len(t.jobs) - 1 <= made' /\ t.n # 0
         /\ DOMAIN t.jobs = {1}
    <3>1. Len(t.jobs) = 1 /\ t.n = n + 1 /\ n \in Nat /\ made' = made /\ DOMAIN t.jobs = {1}
      BY <1>1, <1>3, <1>4, <2>4, <2>5
    <3>2. n + 1 \in 0 .. made /\ n + 1 + 1 - 1 <= made BY <1>4, <2>9, <3>1
    <3>. QED BY <1>4, <3>1, <3>2
  <2>13. Stable \subseteq Stable' => TaskOK(t, raw', made', Stable')
    BY <2>6, <2>10, <2>11, <2>12 DEF TaskOK
  <2>14. Stable \subseteq Stable' => IsEarned(file', Stable')
    BY <1>8, <2>3, <2>9
  <2>15. /\ HeldBy(t) \subseteq HeldBy(task[w]) \cup {0} \cup (made + 1 .. made')
         /\ \A d \in raw \ raw' : d.capture \in HeldBy(task[w])
    BY <1>1, <2>9
  <2>16. UNCHANGED importer BY <1>1
  <2>. QED BY <1>5, <2>3, <2>13, <2>14, <2>15, <2>16, WriterStep
<1>. QED BY <1>3, <1>9, <1>10

LEMMA WriteKeeps ==
  ASSUME CheckpointInv, NEW w \in Writers, Write(w)
  PROVE  CheckpointInv'
BY ReceiveKeeps, ReadFileKeeps, SaveItemsKeeps, SaveDetailsKeeps, ReplayRecoveryKeeps,
   SaveCheckpointKeeps, FailKeeps DEF Write

-----------------------------------------------------------------------------
(* The importer and the audit *)

(* A step that leaves documents and writers alone.                         *)
LEMMA ImportStep ==
  ASSUME CheckpointInv, UNCHANGED <<raw, made, task>>,
         file' = file \/ IsEarned(file', Stable),
         \/ importer'.step \notin {"replayed", "finalized"}
         \/ importer' = [step |-> "replayed", shown |-> importer'.shown,
                         clean |-> importer'.clean]
         \/ /\ importer' = [step |-> "finalized", cp |-> importer'.cp,
                            shown |-> importer'.shown, clean |-> importer'.clean]
            /\ IsEarned(importer'.cp, Stable)
  PROVE  CheckpointInv'
<1>1. Stable' = Stable BY DEF Stable, StableIn
<1>2. made \in Nat /\ DocsOK(raw, made) /\ WritersOK(raw, made, task)
  BY DEF CheckpointInv
<1>3. made' \in Nat /\ DocsOK(raw', made') BY <1>2 DEF DocsOK
<1>4. WritersOK(raw', made', task') BY <1>2
<1>5. file' # None => IsEarned(file', Stable') BY <1>1 DEF CheckpointInv
<1>6. ImporterOK' BY <1>1 DEF ImporterOK
<1>. QED BY <1>3, <1>4, <1>5, <1>6 DEF CheckpointInv

(* What an import makes of the checkpoint captures nothing more.           *)
LEMMA FinalizedIsEarned ==
  ASSUME NEW cp, NEW S, IsEarned(cp, S), NEW shown, NEW c \in Finalized(cp, shown)
  PROVE  IsEarned(c, S)
<1> DEFINE outcomes == FinalOutcomes(cp, shown)
           pending == Restrict(outcomes, DOMAIN outcomes \ Decided(cp))
<1>1. \/ c \in redecide(cp, outcomes) \/ c = cp \/ c \in decide(cp, pending)
  BY DEF Finalized
<1> HIDE DEF outcomes, pending
<1>2. IsCheckpoint(cp) /\ \A i \in Captured(cp) : Backs(S, i) BY DEF IsEarned
<1>3. CASE c \in redecide(cp, outcomes)
  BY <1>2, <1>3, RedecideReplaces DEF IsEarned, Captured
<1>4. CASE c \in decide(cp, pending)
  BY <1>2, <1>4, DecideAdds DEF IsEarned, Captured
<1>. QED BY <1>1, <1>3, <1>4

(* The programs of one transaction.                                        *)
LEMMA CommitSteps ==
  ASSUME CheckpointInv, NEW stored, NEW clean, CommitPrograms(stored, clean)
  PROVE  /\ importer.step = "replayed"
         /\ importer' = [step |-> "committed", shown |-> importer.shown, clean |-> clean]
<1>1. importer.step = "replayed" BY DEF CommitPrograms
<1>2. importer = [step |-> "replayed", shown |-> importer.shown, clean |-> importer.clean]
  BY <1>1 DEF CheckpointInv, ImporterOK
<1>3. importer' = [importer EXCEPT !.step = "committed", !.clean = clean]
  BY DEF CommitPrograms
<1> DEFINE shown == importer.shown
           before == importer.clean
<1>4. importer = [step |-> "replayed", shown |-> shown, clean |-> before] BY <1>2
<1> HIDE DEF shown, before
<1>5. importer' = [step |-> "committed", shown |-> shown, clean |-> clean] BY <1>3, <1>4
<1>. QED BY <1>1, <1>5 DEF shown

(* The checkpoint of an import is written.                                 *)
LEMMA SaveFinalSteps ==
  ASSUME CheckpointInv, SaveFinal
  PROVE  /\ importer.step = "finalized" /\ IsEarned(importer.cp, Stable)
         /\ importer' = [step |-> "saved", cp |-> importer.cp, shown |-> importer.shown,
                         clean |-> importer.clean]
<1>1. importer.step = "finalized" /\ importer' = [importer EXCEPT !.step = "saved"]
  BY DEF SaveFinal
<1>2. /\ importer = [step |-> "finalized", cp |-> importer.cp, shown |-> importer.shown,
                     clean |-> importer.clean]
      /\ IsEarned(importer.cp, Stable)
  BY <1>1 DEF CheckpointInv, ImporterOK
<1> DEFINE cp == importer.cp
           shown == importer.shown
           clean == importer.clean
<1>3. importer = [step |-> "finalized", cp |-> cp, shown |-> shown, clean |-> clean] BY <1>2
<1> HIDE DEF cp, shown, clean
<1>4. importer' = [step |-> "saved", cp |-> cp, shown |-> shown, clean |-> clean]
  BY <1>1, <1>3
<1>. QED BY <1>1, <1>2, <1>4 DEF cp, shown, clean

LEMMA ImportKeeps ==
  ASSUME CheckpointInv, Import \/ AuditRedecision
  PROVE  CheckpointInv'
<1>1. ASSUME NEW limit \in Limits, ReadDocuments(limit) PROVE CheckpointInv'
  BY <1>1, ImportStep DEF ReadDocuments
<1>2. CASE ReplayCheckpoint
  <2>1. UNCHANGED <<file, raw, made, task>> BY <1>2 DEF ReplayCheckpoint
  <2>2. PICK shown : importer' = [step |-> "replayed", shown |-> shown, clean |-> FALSE]
    BY <1>2 DEF ReplayCheckpoint
  <2>3. importer' = [step |-> "replayed", shown |-> importer'.shown, clean |-> importer'.clean]
    BY <2>2
  <2>. QED BY <2>1, <2>3, ImportStep
<1>3. ASSUME NEW stored, NEW clean, CommitPrograms(stored, clean) PROVE CheckpointInv'
  <2>1. importer'.step = "committed" BY <1>3, CommitSteps
  <2>2. UNCHANGED <<file, raw, made, task>> BY <1>3 DEF CommitPrograms
  <2>. QED BY <2>1, <2>2, ImportStep
<1>4. CASE LoadAgain
  <2>1. file # None /\ UNCHANGED <<file, raw, made, task>> BY <1>4 DEF LoadAgain
  <2>2. PICK cp \in Finalized(file, importer.shown) :
          importer' = [step |-> "finalized", cp |-> cp, shown |-> importer.shown,
                       clean |-> importer.clean]
    BY <1>4 DEF LoadAgain
  <2>3. IsEarned(file, Stable) BY <2>1 DEF CheckpointInv
  <2>4. IsEarned(cp, Stable) BY <2>3, FinalizedIsEarned
  <2>5. /\ importer' = [step |-> "finalized", cp |-> importer'.cp,
                        shown |-> importer'.shown, clean |-> importer'.clean]
        /\ importer'.cp = cp
    BY <2>2
  <2>. QED BY <2>1, <2>4, <2>5, ImportStep
<1>5. CASE SaveFinal
  <2>1. file' = importer.cp /\ UNCHANGED <<raw, made, task>> BY <1>5 DEF SaveFinal
  <2>2. importer'.step = "saved" /\ IsEarned(importer.cp, Stable) BY <1>5, SaveFinalSteps
  <2>. QED BY <2>1, <2>2, ImportStep
<1>6. CASE InactivateMissing BY <1>6, ImportStep DEF InactivateMissing, Resting
<1>7. CASE ImportEnds BY <1>7, ImportStep DEF ImportEnds, Resting
<1>8. CASE AuditRedecision
  <2>1. UNCHANGED <<file, raw, made, task, importer>> BY <1>8 DEF AuditRedecision
  <2>2. ImporterOK BY DEF CheckpointInv
  <2>. QED BY <2>1, <2>2, ImportStep DEF ImporterOK
<1>. QED BY <1>1, <1>2, <1>3, <1>4, <1>5, <1>6, <1>7, <1>8 DEF Import

-----------------------------------------------------------------------------
(* Theorems *)

LEMMA NextKeeps ==
  ASSUME CheckpointInv, [Next]_vars
  PROVE  CheckpointInv'
<1>1. CASE Next BY <1>1, WriteKeeps, ImportKeeps DEF Next
<1>2. CASE UNCHANGED vars
  <2>1. UNCHANGED <<file, raw, made, task, importer>> BY <1>2 DEF vars
  <2>2. ImporterOK BY DEF CheckpointInv
  <2>. QED BY <2>1, <2>2, ImportStep DEF ImporterOK
<1>. QED BY <1>1, <1>2

LEMMA CheckpointInvAlways == Spec => []CheckpointInv
<1>1. Init => CheckpointInv BY InitHolds
<1>2. CheckpointInv /\ [Next]_vars => CheckpointInv' BY NextKeeps
<1>. QED BY <1>1, <1>2, PTL DEF Spec

LEMMA CheckpointIsBacked == CheckpointInv => CapturedHasRaw
<1> SUFFICES ASSUME CheckpointInv, file # None, file.captured_ids # <<>>
             PROVE  Replayable(raw, file.captured_ids)
  BY DEF CapturedHasRaw
<1>1. \A i \in Captured(file) : Backs(Stable, i) BY DEF CheckpointInv, IsEarned
<1>2. Stable \subseteq raw BY DEF Stable, StableIn
<1>3. \A i \in ToSet(file.captured_ids) : Backs(raw, i)
  BY <1>1, <1>2 DEF Captured, Backs, Has
<1>. QED BY <1>3, BackedIsReplayable DEF CheckpointInv

(* Whatever the endpoint, the file import, the recoveries and the runtime  *)
(* importer do at once, and whenever they fail or are killed: an identity  *)
(* the checkpoint file calls captured has the documents _checkpoint_batch  *)
(* needs.                                                                  *)
THEOREM CapturesAreBacked == Spec => []CapturedHasRaw
  BY CheckpointIsBacked, CheckpointInvAlways, PTL

-----------------------------------------------------------------------------
(* One process at a time: the second invariant *)

(* A checkpoint that can be written and loaded again.                      *)
Sound(cp) == cp \in Checkpoints /\ Valid(cp)

DocsTyped(docs) ==
  \A d \in docs : /\ d.role \in {"list_response", "list_item", "detail_response"}
                  /\ d.role = "detail_response" => d.shows \in Outcomes

JobTyped(job) == Sound(job.cp) /\ job.items \in Decisions
TaskTyped(t) == t # Idle => \A k \in DOMAIN t.jobs : JobTyped(t.jobs[k])

ImporterTyped ==
  /\ importer.step \in {"idle", "read", "replayed", "committed", "finalized", "saved"}
  /\ importer.step = "read" => /\ DocsOK(importer.docs, made) /\ DocsTyped(importer.docs)
                               /\ importer.limit \in Nat
  /\ importer.step \in {"replayed", "committed"} => importer.shown \in Decisions
  /\ importer.step \in {"finalized", "saved"} => Sound(importer.cp)

(* What is written, or on its way to the file, the documents or the        *)
(* policies, has its type; a checkpoint is one the constructor accepts.    *)
TypesInv ==
  /\ file # None => Sound(file)
  /\ \A w \in Writers : TaskTyped(task[w])
  /\ DocsTyped(raw)
  /\ ImporterTyped
  /\ imports \in 0 .. MaxImports /\ audits \in 0 .. MaxAudits
  /\ active \subseteq Id \cup Before
  /\ crowded \in BOOLEAN

(* A recovery that has not replayed yet brings the details of identities   *)
(* the file does not call captured, and decides nothing.                   *)
Recovers(job, old) ==
  old # None => /\ DOMAIN job.items \cap Captured(old) = {}
                /\ job.cp.decisions = old.decisions

(* What the task will write goes on to say what the file says.             *)
GoesOnFrom(t, old) ==
  /\ t.step = "replay" => t.kind = "recover"
  /\ KeepsItsWord(old, t.jobs[1].cp)
  /\ t.kind = "recover" /\ t.step # "save" => Recovers(t.jobs[1], old)
  /\ 2 \in DOMAIN t.jobs => KeepsItsWord(t.jobs[1].cp, t.jobs[2].cp)

(* As long as no two processes have been at work at once, there is at most *)
(* one at work, and what it has loaded is what the file says.              *)
AloneInv ==
  ~crowded =>
    /\ \A v, w \in Writers : task[v] # Idle /\ task[w] # Idle => v = w
    /\ importer.step # "idle" => \A w \in Writers : task[w] = Idle
    /\ \A w \in Writers : task[w] # Idle => GoesOnFrom(task[w], file)
    /\ importer.step = "finalized" => KeepsItsWord(file, importer.cp)
    /\ importer.step = "saved" => file = importer.cp


-----------------------------------------------------------------------------
(* Sequences of identities *)

(* The list has finitely many identities.                                  *)
LEMMA IdsAreFinite == IsFiniteSet(Id) /\ Cardinality(Id) \in Nat
<1> DEFINE D == DOMAIN Pages
           f == [p \in D |-> ToSet(Pages[p])]
           T == {ToSet(Pages[p]) : p \in D}
<1>1. Pages \in Seq(Seq(Id)) BY CheckpointAssumption
<1>2. IsFiniteSet(D)
  <2>1. Len(Pages) \in Nat /\ D = 1 .. Len(Pages) BY <1>1
  <2>. QED BY <2>1, FS_Interval
<1>3. f \in Surjection(D, T) BY DEF Surjection
<1>4. \A U \in T : IsFiniteSet(U)
  <2>1. ASSUME NEW p \in D PROVE IsFiniteSet(ToSet(Pages[p]))
    <3>1. Pages[p] \in Seq(Id) BY <1>1
    <3>. QED BY <3>1, ElementsAreFinite
  <2>. QED BY <2>1
<1>5. Id = UNION T BY DEF Id
<1> HIDE DEF D, f, T
<1>6. IsFiniteSet(T) BY <1>2, <1>3, FS_Surjection
<1>7. IsFiniteSet(Id) BY <1>4, <1>5, <1>6, FS_UNION
<1>. QED BY <1>7, FS_CardinalityType

(* Identities in the order of a list without repetitions.                  *)
LEMMA InOrderIsSound ==
  ASSUME NEW S, NEW seq \in Seq(S), IsInjective(seq), NEW ids, ids \subseteq S,
         IsFiniteSet(ids), NEW s \in InOrder(seq, ids)
  PROVE  s \in Seq(S) /\ IsInjective(s) /\ ToSet(s) \subseteq ids
         /\ Len(s) = Cardinality(ids)
<1>1. Cardinality(ids) \in Nat BY FS_CardinalityType
<1>2. s \in [1 .. Cardinality(ids) -> ids] BY DEF InOrder
<1>3. s \in Seq(S) /\ Len(s) = Cardinality(ids) /\ DOMAIN s = 1 .. Cardinality(ids)
  BY <1>1, <1>2
<1>4. ToSet(s) \subseteq ids BY <1>2, <1>3 DEF ToSet
<1>5. ASSUME NEW m \in DOMAIN s, NEW n \in DOMAIN s, m < n PROVE s[m] # s[n]
  <2>1. PICK j, k : j \in DOMAIN seq /\ k \in DOMAIN seq /\ j < k
                    /\ seq[j] = s[m] /\ seq[k] = s[n]
    BY <1>5 DEF InOrder
  <2>2. j \in Int /\ k \in Int BY <2>1
  <2>. QED BY <2>1, <2>2 DEF IsInjective
<1>6. \A m, n \in DOMAIN s : s[m] = s[n] => m = n
  <2>1. \A m, n \in DOMAIN s : m \in Int /\ n \in Int BY <1>1, <1>3
  <2>. QED BY <1>5, <2>1
<1>. QED BY <1>3, <1>4, <1>6 DEF IsInjective


-----------------------------------------------------------------------------
(* Operations of a checkpoint, again: what they build can be loaded, and   *)
(* what was there stays                                                    *)

(* What a request brings: a page of the list and details of it.            *)
IsRequest(q) ==
  /\ q.page \in Nat \ {0} /\ q.ids \in Seq(Id) /\ IsInjective(q.ids)
  /\ q.total_count \in Totals /\ q.has_next \in BOOLEAN
  /\ q.items \in Decisions /\ DOMAIN q.items \subseteq ToSet(q.ids)

(* The parts of a sound checkpoint.                                        *)
LEMMA SoundParts ==
  ASSUME NEW cp, Sound(cp)
  PROVE  /\ cp \in Checkpoints /\ Valid(cp) /\ cp # None
         /\ cp.next_page \in Nat \ {0} /\ cp.total_count \in Totals
         /\ cp.discovery_complete \in BOOLEAN
         /\ cp.discovered_ids \in Seq(Id) /\ IsInjective(cp.discovered_ids)
         /\ cp.captured_ids \in Seq(Id) /\ IsInjective(cp.captured_ids)
         /\ cp.decisions \in Decisions
         /\ Captured(cp) \subseteq Discovered(cp) /\ Decided(cp) \subseteq Discovered(cp)
         /\ Discovered(cp) \subseteq Id /\ IsFiniteSet(Discovered(cp))
         /\ Cardinality(Discovered(cp)) = Len(cp.discovered_ids)
         /\ Len(cp.discovered_ids) \in Nat
         /\ \A i \in Decided(cp) : cp.decisions[i] # "failed" => i \in Captured(cp)
         /\ cp.total_count # None =>
              /\ Len(cp.discovered_ids) <= cp.total_count
              /\ cp.discovery_complete => Len(cp.discovered_ids) = cp.total_count
<1>1. cp \in Checkpoints /\ Valid(cp) BY DEF Sound
<1>2. cp # None BY <1>1, CheckpointAssumption
<1>3. /\ cp.next_page \in Nat \ {0} /\ cp.total_count \in Totals
      /\ cp.discovery_complete \in BOOLEAN
      /\ cp.discovered_ids \in Seq(Id) /\ cp.captured_ids \in Seq(Id)
      /\ cp.decisions \in Decisions
  BY <1>1 DEF Checkpoints
<1>4. IsInjective(cp.discovered_ids) /\ IsInjective(cp.captured_ids) BY <1>1 DEF Valid
<1>5. /\ Discovered(cp) \subseteq Id /\ IsFiniteSet(Discovered(cp))
      /\ Cardinality(Discovered(cp)) = Len(cp.discovered_ids)
      /\ Len(cp.discovered_ids) \in Nat
  BY <1>3, <1>4, ElementsAreFinite, LengthIsCount DEF Discovered
<1>6. /\ Captured(cp) \subseteq Discovered(cp) /\ Decided(cp) \subseteq Discovered(cp)
      /\ \A i \in Decided(cp) : cp.decisions[i] # "failed" => i \in Captured(cp)
      /\ cp.total_count # None =>
           /\ Len(cp.discovered_ids) <= cp.total_count
           /\ cp.discovery_complete => Len(cp.discovered_ids) = cp.total_count
  BY <1>1 DEF Valid
<1>. QED BY <1>1, <1>2, <1>3, <1>4, <1>5, <1>6

(* A set of details is a function on identities.                           *)
LEMMA DecisionsAreFunctions ==
  ASSUME NEW f
  PROVE  /\ f \in Decisions => /\ f = [i \in DOMAIN f |-> f[i]] /\ DOMAIN f \subseteq Id
                               /\ \A i \in DOMAIN f : f[i] \in Outcomes
         /\ \A ids \in SUBSET Id : f \in [ids -> Outcomes] => f \in Decisions
BY DEF Decisions

(* The initial checkpoint.                                                 *)
LEMMA InitialIsSound == Sound(initial)
<1>1. <<>> \in Seq(Id) /\ Len(<<>>) = 0 /\ IsInjective(<<>>) /\ ToSet(<<>>) = {}
  BY DEF IsInjective, ToSet
<1>2. <<>> \in [{} -> Outcomes] OBVIOUS
<1>3. <<>> \in Decisions BY <1>2 DEF Decisions
<1>4. initial \in Checkpoints BY <1>1, <1>3 DEF initial, Checkpoints, Totals
<1>5. Valid(initial)
  BY <1>1 DEF initial, Valid, Captured, Discovered, Decided
<1>. QED BY <1>4, <1>5 DEF Sound

(* A checkpoint with the identities of a page added keeps its word.        *)
LEMMA PageIsAdded ==
  ASSUME NEW cp, Sound(cp), NEW q, IsRequest(q), NEW s \in InOrder(q.ids, Fresh(cp, q)),
         NEW c, c \in [next_page : Nat \ {0}, total_count : Totals,
                       discovery_complete : BOOLEAN,
                       discovered_ids : {cp.discovered_ids \o s},
                       captured_ids : {cp.captured_ids}, decisions : {cp.decisions}],
         cp.next_page <= c.next_page, ~cp.discovery_complete,
         c.total_count # None => /\ Found(cp, q) <= c.total_count
                                 /\ c.discovery_complete => Found(cp, q) = c.total_count
  PROVE  Sound(c) /\ KeepsItsWord(cp, c)
<1>1. /\ cp \in Checkpoints /\ cp.discovered_ids \in Seq(Id) /\ IsInjective(cp.discovered_ids)
      /\ cp.captured_ids \in Seq(Id) /\ IsInjective(cp.captured_ids)
      /\ Captured(cp) \subseteq Discovered(cp) /\ Decided(cp) \subseteq Discovered(cp)
      /\ \A i \in Decided(cp) : cp.decisions[i] # "failed" => i \in Captured(cp)
      /\ cp.next_page \in Nat \ {0}
  BY SoundParts
<1>2. Fresh(cp, q) \subseteq Id /\ IsFiniteSet(Fresh(cp, q))
      /\ Fresh(cp, q) \cap Discovered(cp) = {}
  <2>1. ToSet(q.ids) \subseteq Id /\ IsFiniteSet(ToSet(q.ids))
    BY ElementsAreFinite DEF IsRequest
  <2>. QED BY <2>1, FS_Subset DEF Fresh
<1>3. s \in Seq(Id) /\ IsInjective(s) /\ ToSet(s) \subseteq Fresh(cp, q)
      /\ Len(s) = Cardinality(Fresh(cp, q))
  BY <1>2, InOrderIsSound DEF IsRequest
<1>4. ToSet(cp.discovered_ids) \cap ToSet(s) = {} BY <1>2, <1>3 DEF Discovered
<1> DEFINE found == cp.discovered_ids \o s
<1>5. /\ found \in Seq(Id) /\ Len(found) = Found(cp, q) /\ IsInjective(found)
      /\ Discovered(cp) \subseteq ToSet(found)
  <2>1. /\ found \in Seq(Id) /\ Len(found) = Len(cp.discovered_ids) + Len(s)
        /\ IsInjective(found) /\ ToSet(found) = ToSet(cp.discovered_ids) \cup ToSet(s)
    BY <1>1, <1>3, <1>4, ConcatIsInjective
  <2> HIDE DEF found
  <2>. QED BY <1>3, <2>1 DEF Found, Discovered
<1>6. IsPrefix(cp.discovered_ids, found) BY <1>1, <1>3, ConcatIsPrefix
<1> HIDE DEF found
<1>7. /\ c.discovered_ids = found /\ c.captured_ids = cp.captured_ids
      /\ c.decisions = cp.decisions /\ c \in Checkpoints
  <2>1. c \in [next_page : Nat \ {0}, total_count : Totals,
               discovery_complete : BOOLEAN, discovered_ids : {found},
               captured_ids : {cp.captured_ids}, decisions : {cp.decisions}]
    BY DEF found
  <2>2. cp.decisions \in Decisions BY <1>1 DEF Checkpoints
  <2>. QED BY <1>1, <1>5, <2>1, <2>2 DEF Checkpoints
<1>8. Valid(c)
  BY <1>1, <1>5, <1>7 DEF Valid, Captured, Discovered, Decided
<1>9. c # None BY <1>7, CheckpointAssumption
<1>10. IsPrefix(cp.captured_ids, c.captured_ids)
  BY <1>1, <1>7, ConcatIsPrefix
<1>. QED BY <1>6, <1>7, <1>8, <1>9, <1>10
     DEF Sound, KeepsItsWord, Keeps, KeepsRound, RecoversFailures, Complete, Decided

(* A list has no more identities than there are.                           *)
LEMMA FoundIsBounded ==
  ASSUME NEW cp, Sound(cp), NEW q, IsRequest(q)
  PROVE  Found(cp, q) <= Cardinality(Id)
<1>1. /\ Discovered(cp) \subseteq Id /\ IsFiniteSet(Discovered(cp))
      /\ Cardinality(Discovered(cp)) = Len(cp.discovered_ids)
  BY SoundParts
<1>2. Fresh(cp, q) \subseteq Id /\ IsFiniteSet(Fresh(cp, q))
  <2>1. ToSet(q.ids) \subseteq Id /\ IsFiniteSet(ToSet(q.ids))
    BY ElementsAreFinite DEF IsRequest
  <2>. QED BY <2>1, FS_Subset DEF Fresh
<1>3. Fresh(cp, q) \cap Discovered(cp) = {} BY DEF Fresh
<1>4. Cardinality(Discovered(cp) \cup Fresh(cp, q)) = Found(cp, q)
  <2>1. Cardinality(Discovered(cp) \cap Fresh(cp, q)) = 0
    BY <1>3, FS_EmptySet
  <2>2. Cardinality(Discovered(cp)) \in Nat /\ Cardinality(Fresh(cp, q)) \in Nat
    BY <1>1, <1>2, FS_CardinalityType
  <2>3. Cardinality(Discovered(cp) \cup Fresh(cp, q)) =
          Cardinality(Discovered(cp)) + Cardinality(Fresh(cp, q))
            - Cardinality(Discovered(cp) \cap Fresh(cp, q))
    BY <1>1, <1>2, FS_Union
  <2>. QED BY <1>1, <2>1, <2>2, <2>3 DEF Found
<1>. QED BY <1>1, <1>2, <1>4, IdsAreFinite, FS_Subset

LEMMA DiscoverIsSound ==
  ASSUME NEW cp, Sound(cp), NEW q, IsRequest(q), NEW c \in discover(cp, q)
  PROVE  Sound(c) /\ KeepsItsWord(cp, c)
<1>1. /\ ~cp.discovery_complete
      /\ q.total_count # None => q.total_count >= Found(cp, q)
      /\ ~q.has_next /\ TotalWith(cp, q) # None => Found(cp, q) = TotalWith(cp, q)
  BY DEF discover
<1>2. PICK s \in InOrder(q.ids, Fresh(cp, q)) :
        c = [cp EXCEPT !.next_page = cp.next_page + 1, !.total_count = TotalWith(cp, q),
                       !.discovery_complete = ~q.has_next,
                       !.discovered_ids = cp.discovered_ids \o s]
  BY DEF discover
<1>3. cp \in Checkpoints /\ cp.next_page \in Nat \ {0} /\ cp.total_count \in Totals
  BY SoundParts
<1>4. /\ c.next_page = cp.next_page + 1 /\ c.total_count = TotalWith(cp, q)
      /\ c.discovery_complete = ~q.has_next
  BY <1>2, <1>3 DEF Checkpoints
<1>6. c.total_count \in Totals BY <1>3, <1>4 DEF TotalWith, IsRequest
<1>7. Found(cp, q) \in Nat
  <2>1. ToSet(q.ids) \subseteq Id /\ IsFiniteSet(ToSet(q.ids))
    BY ElementsAreFinite DEF IsRequest
  <2>2. Cardinality(Fresh(cp, q)) \in Nat BY <2>1, FS_Subset, FS_CardinalityType DEF Fresh
  <2>. QED BY <2>2, SoundParts DEF Found
<1>8. c.total_count # None => Found(cp, q) <= c.total_count
  <2>1. CASE q.total_count # None
    <3>1. q.total_count \in Nat BY <2>1, IdsAreFinite DEF IsRequest, Totals
    <3>2. c.total_count = q.total_count /\ q.total_count >= Found(cp, q)
      BY <1>1, <1>4, <2>1 DEF TotalWith
    <3>. QED BY <1>7, <3>1, <3>2
  <2>2. CASE q.total_count = None
    <3>1. c.total_count = cp.total_count BY <1>4, <2>2 DEF TotalWith
    <3>. QED BY <1>3, <3>1, FoundIsBounded DEF Totals
  <2>. QED BY <2>1, <2>2
<1>9. /\ c.discovery_complete \in BOOLEAN
      /\ c.total_count # None /\ c.discovery_complete => Found(cp, q) = c.total_count
  BY <1>1, <1>4 DEF IsRequest
<1>10. cp.next_page <= c.next_page /\ cp.next_page + 1 \in Nat \ {0} BY <1>3, <1>4
<1>11.  c \in [next_page : Nat \ {0}, total_count : Totals, discovery_complete : BOOLEAN,
             discovered_ids : {cp.discovered_ids \o s}, captured_ids : {cp.captured_ids},
             decisions : {cp.decisions}]
  BY <1>2, <1>3, <1>4, <1>6, <1>9, <1>10 DEF Checkpoints
<1>. QED BY <1>1, <1>8, <1>9, <1>10, <1>11, PageIsAdded

LEMMA AmendIsSound ==
  ASSUME NEW cp, Sound(cp), NEW q, IsRequest(q), NEW c \in amend_discovery(cp, q)
  PROVE  Sound(c) /\ KeepsItsWord(cp, c)
<1>1. /\ ~cp.discovery_complete
      /\ cp.total_count # None => Found(cp, q) <= cp.total_count
  BY DEF amend_discovery
<1>2. PICK s \in InOrder(q.ids, Fresh(cp, q)) :
        c = [cp EXCEPT !.discovered_ids = cp.discovered_ids \o s]
  BY DEF amend_discovery
<1>3. cp \in Checkpoints /\ cp.next_page \in Nat \ {0} /\ cp.total_count \in Totals
      /\ cp.discovery_complete \in BOOLEAN
  BY SoundParts
<1>4. /\ c.next_page = cp.next_page /\ c.total_count = cp.total_count
      /\ c.discovery_complete = cp.discovery_complete
  BY <1>2, <1>3 DEF Checkpoints
<1>5.  c \in [next_page : Nat \ {0}, total_count : Totals, discovery_complete : BOOLEAN,
             discovered_ids : {cp.discovered_ids \o s}, captured_ids : {cp.captured_ids},
             decisions : {cp.decisions}]
  BY <1>2, <1>3 DEF Checkpoints
<1>. QED BY <1>1, <1>3, <1>4, <1>5, PageIsAdded

(* A checkpoint that stays as it is.                                       *)
LEMMA SameKeeps ==
  ASSUME NEW cp, Sound(cp)
  PROVE  KeepsItsWord(cp, cp)
<1>1. IsPrefix(cp.discovered_ids, cp.discovered_ids) /\ IsPrefix(cp.captured_ids, cp.captured_ids)
  BY SoundParts, ConcatIsPrefix
<1>. QED BY <1>1, SoundParts DEF KeepsItsWord, Keeps, KeepsRound, RecoversFailures

LEMMA OnPageIsSound ==
  ASSUME NEW cp, Sound(cp), NEW q, IsRequest(q), NEW amends, NEW c \in OnPage(cp, q, amends)
  PROVE  Sound(c) /\ KeepsItsWord(cp, c)
<1>1. c \in discover(cp, q) \/ c \in amend_discovery(cp, q) \/ c = cp BY DEF OnPage
<1>. QED BY <1>1, DiscoverIsSound, AmendIsSound, SameKeeps


(* A batch of details.                                                     *)
LEMMA CaptureIsSound ==
  ASSUME NEW cp, Sound(cp), NEW ids, NEW c \in capture(cp, ids)
  PROVE  /\ Sound(c) /\ KeepsItsWord(cp, c)
         /\ c.decisions = cp.decisions /\ c.discovered_ids = cp.discovered_ids
<1>1. /\ cp \in Checkpoints /\ cp.discovered_ids \in Seq(Id) /\ IsInjective(cp.discovered_ids)
      /\ cp.captured_ids \in Seq(Id) /\ IsInjective(cp.captured_ids)
      /\ Captured(cp) \subseteq Discovered(cp) /\ Decided(cp) \subseteq Discovered(cp)
      /\ Discovered(cp) \subseteq Id /\ IsFiniteSet(Discovered(cp))
      /\ cp.next_page \in Nat \ {0}
  BY SoundParts
<1>2. ids \subseteq Discovered(cp) /\ ids \cap Captured(cp) = {} BY DEF capture
<1>3. ids \subseteq Id /\ IsFiniteSet(ids) BY <1>1, <1>2, FS_Subset
<1>4. PICK s \in InOrder(cp.discovered_ids, ids) :
        c = [cp EXCEPT !.captured_ids = cp.captured_ids \o s]
  BY DEF capture
<1>5. s \in Seq(Id) /\ IsInjective(s) /\ ToSet(s) \subseteq ids
  BY <1>1, <1>3, <1>4, InOrderIsSound
<1>6. ToSet(cp.captured_ids) \cap ToSet(s) = {} BY <1>2, <1>5 DEF Captured
<1> DEFINE batches == cp.captured_ids \o s
<1>7. /\ batches \in Seq(Id) /\ IsInjective(batches)
      /\ ToSet(batches) = ToSet(cp.captured_ids) \cup ToSet(s)
  BY <1>1, <1>5, <1>6, ConcatIsInjective
<1>8. IsPrefix(cp.captured_ids, batches) /\ IsPrefix(cp.discovered_ids, cp.discovered_ids)
  BY <1>1, <1>5, ConcatIsPrefix
<1>9. c = [cp EXCEPT !.captured_ids = batches] BY <1>4
<1> HIDE DEF batches
<1>10. /\ c.captured_ids = batches /\ c.discovered_ids = cp.discovered_ids
       /\ c.decisions = cp.decisions /\ c.next_page = cp.next_page
       /\ c.total_count = cp.total_count /\ c.discovery_complete = cp.discovery_complete
       /\ c \in Checkpoints
  BY <1>1, <1>7, <1>9 DEF Checkpoints
<1>11. Captured(c) \subseteq Discovered(c) /\ Captured(cp) \subseteq Captured(c)
  BY <1>1, <1>2, <1>5, <1>7, <1>10 DEF Captured, Discovered
<1>12. Valid(c)
  <2>1. Valid(cp) BY SoundParts
  <2>. QED BY <1>7, <1>10, <1>11, <2>1 DEF Valid, Decided, Discovered
<1>13. c # None BY <1>10, CheckpointAssumption
<1>14. KeepsItsWord(cp, c)
  BY <1>1, <1>8, <1>10, <1>13
  DEF KeepsItsWord, Keeps, KeepsRound, RecoversFailures, Complete, Decided
<1>. QED BY <1>10, <1>12, <1>14 DEF Sound

(* Other decisions with the same identities are a sound checkpoint.        *)
LEMMA DecisionsAreReplaced ==
  ASSUME NEW cp, Sound(cp), NEW f \in Decisions, DOMAIN f \subseteq Discovered(cp),
         \A i \in DOMAIN f : f[i] # "failed" => i \in Captured(cp),
         NEW c, c = [cp EXCEPT !.decisions = f]
  PROVE  /\ Sound(c) /\ c.decisions = f
         /\ c.discovered_ids = cp.discovered_ids /\ c.captured_ids = cp.captured_ids
         /\ c.next_page = cp.next_page /\ c.discovery_complete = cp.discovery_complete
<1>1. cp \in Checkpoints /\ Valid(cp) BY DEF Sound
<1>2. /\ c.decisions = f /\ c \in Checkpoints
      /\ c.discovered_ids = cp.discovered_ids /\ c.captured_ids = cp.captured_ids
      /\ c.next_page = cp.next_page /\ c.discovery_complete = cp.discovery_complete
      /\ c.total_count = cp.total_count
  BY <1>1 DEF Checkpoints
<1>3. Valid(c) BY <1>1, <1>2 DEF Valid, Decided, Discovered, Captured
<1>. QED BY <1>2, <1>3 DEF Sound

(* The same with none of the decisions gone keeps its word.                *)
LEMMA MoreDecisionsKeep ==
  ASSUME NEW cp, Sound(cp), NEW c, Sound(c),
         c.discovered_ids = cp.discovered_ids, c.captured_ids = cp.captured_ids,
         c.next_page = cp.next_page, c.discovery_complete = cp.discovery_complete,
         Decided(cp) \subseteq Decided(c),
         \A i \in Decided(cp) : cp.decisions[i] = "failed" => c.decisions[i] = "failed"
  PROVE  KeepsItsWord(cp, c)
<1>1. /\ Decided(cp) \subseteq Discovered(cp) /\ IsFiniteSet(Discovered(cp))
      /\ Cardinality(Discovered(cp)) = Len(cp.discovered_ids)
      /\ cp.next_page \in Nat \ {0}
  BY SoundParts
<1>2. Decided(c) \subseteq Discovered(cp) /\ c # None
  BY SoundParts DEF Discovered
<1>3. Complete(cp) => Complete(c)
  <2> SUFFICES ASSUME Complete(cp) PROVE Complete(c) OBVIOUS
  <2>1. Cardinality(Decided(cp)) = Cardinality(Discovered(cp)) BY <1>1 DEF Complete
  <2>2. Decided(cp) = Discovered(cp) BY <1>1, <2>1, FS_Subset
  <2>3. Decided(c) = Decided(cp) BY <1>2, <2>2
  <2>. QED BY <2>3 DEF Complete
<1>4. IsPrefix(cp.discovered_ids, cp.discovered_ids) /\ IsPrefix(cp.captured_ids, cp.captured_ids)
  BY SoundParts, ConcatIsPrefix
<1>5. Keeps(cp, c) BY <1>1, <1>4 DEF Keeps
<1>6. KeepsRound(cp, c) BY <1>3 DEF KeepsRound
<1>7. RecoversFailures(cp, c) BY DEF RecoversFailures
<1>. QED BY <1>2, <1>5, <1>6, <1>7 DEF KeepsItsWord

LEMMA DecideIsSound ==
  ASSUME NEW cp, Sound(cp), NEW outcomes \in Decisions, NEW c \in decide(cp, outcomes)
  PROVE  Sound(c) /\ KeepsItsWord(cp, c) /\ c.discovered_ids = cp.discovered_ids
<1> DEFINE f == [i \in Decided(cp) \cup DOMAIN outcomes |->
                   IF i \in DOMAIN outcomes THEN outcomes[i] ELSE cp.decisions[i]]
<1>1. /\ cp.decisions \in Decisions /\ Decided(cp) \subseteq Discovered(cp)
      /\ Discovered(cp) \subseteq Id
      /\ \A i \in Decided(cp) : cp.decisions[i] # "failed" => i \in Captured(cp)
  BY SoundParts
<1>2. /\ DOMAIN outcomes \subseteq Discovered(cp) \ Decided(cp)
      /\ \A i \in DOMAIN outcomes : outcomes[i] # "failed" => i \in Captured(cp)
      /\ c = [cp EXCEPT !.decisions = f]
  BY DEF decide
<1>3. /\ \A i \in DOMAIN outcomes : outcomes[i] \in Outcomes
      /\ \A i \in Decided(cp) : cp.decisions[i] \in Outcomes
  BY <1>1, DecisionsAreFunctions DEF Decided
<1>4. f \in [Decided(cp) \cup DOMAIN outcomes -> Outcomes] BY <1>3
<1>5. f \in Decisions
  <2>1. Decided(cp) \cup DOMAIN outcomes \in SUBSET Id BY <1>1, <1>2
  <2>. QED BY <1>4, <2>1, DecisionsAreFunctions
<1>6. /\ DOMAIN f = Decided(cp) \cup DOMAIN outcomes
      /\ \A i \in DOMAIN f : f[i] # "failed" => i \in Captured(cp)
      /\ \A i \in Decided(cp) : f[i] = cp.decisions[i]
  BY <1>1, <1>2
<1> HIDE DEF f
<1>7. /\ Sound(c) /\ c.decisions = f
      /\ c.discovered_ids = cp.discovered_ids /\ c.captured_ids = cp.captured_ids
      /\ c.next_page = cp.next_page /\ c.discovery_complete = cp.discovery_complete
  BY <1>1, <1>2, <1>5, <1>6, DecisionsAreReplaced
<1>. QED BY <1>6, <1>7, MoreDecisionsKeep DEF Decided

(* Decisions of a whole round that leave what has failed.                  *)
LEMMA RedecideIsSound ==
  ASSUME NEW cp, Sound(cp), NEW outcomes \in Decisions, NEW c \in redecide(cp, outcomes),
         \A i \in Decided(cp) : cp.decisions[i] = "failed" => outcomes[i] = "failed"
  PROVE  Sound(c) /\ KeepsItsWord(cp, c)
<1>1. /\ DOMAIN outcomes = Discovered(cp) /\ c = [cp EXCEPT !.decisions = outcomes]
      /\ \A i \in DOMAIN outcomes : outcomes[i] # "failed" => i \in Captured(cp)
  BY DEF redecide
<1>2. /\ Sound(c) /\ c.decisions = outcomes
      /\ c.discovered_ids = cp.discovered_ids /\ c.captured_ids = cp.captured_ids
      /\ c.next_page = cp.next_page /\ c.discovery_complete = cp.discovery_complete
  BY <1>1, DecisionsAreReplaced
<1>. QED BY <1>1, <1>2, SoundParts, MoreDecisionsKeep DEF Decided

(* A recovery: only what has failed and was captured is decided anew.      *)
LEMMA ReclassifyIsSound ==
  ASSUME NEW cp, Sound(cp), NEW outcomes, NEW c \in reclassify_failed(cp, outcomes)
  PROVE  /\ Sound(c) /\ Decided(c) = Decided(cp)
         /\ c.discovered_ids = cp.discovered_ids /\ c.captured_ids = cp.captured_ids
         /\ c.next_page = cp.next_page /\ c.discovery_complete = cp.discovery_complete
         /\ \A i \in Decided(cp) : \/ c.decisions[i] = cp.decisions[i]
                                   \/ /\ i \in DOMAIN outcomes /\ i \in Captured(cp)
                                      /\ c.decisions[i] \in {"review", "closed"}
<1> DEFINE f == [i \in Decided(cp) |->
                   IF i \in DOMAIN outcomes THEN outcomes[i] ELSE cp.decisions[i]]
<1>1. /\ cp.decisions \in Decisions /\ Decided(cp) \subseteq Discovered(cp)
      /\ Discovered(cp) \subseteq Id
      /\ \A i \in Decided(cp) : cp.decisions[i] # "failed" => i \in Captured(cp)
  BY SoundParts
<1>2. /\ DOMAIN outcomes \subseteq Captured(cp)
      /\ \A i \in DOMAIN outcomes : outcomes[i] \in {"review", "closed"}
      /\ c = [cp EXCEPT !.decisions = f]
  BY DEF reclassify_failed
<1>3. \A i \in Decided(cp) : cp.decisions[i] \in Outcomes
  BY <1>1, DecisionsAreFunctions DEF Decided
<1>4. f \in [Decided(cp) -> Outcomes] BY <1>2, <1>3 DEF Outcomes
<1>5. f \in Decisions
  <2>1. Decided(cp) \in SUBSET Id BY <1>1
  <2>. QED BY <1>4, <2>1, DecisionsAreFunctions
<1>6. /\ DOMAIN f = Decided(cp)
      /\ \A i \in DOMAIN f : f[i] # "failed" => i \in Captured(cp)
      /\ \A i \in Decided(cp) : \/ f[i] = cp.decisions[i]
                                \/ /\ i \in DOMAIN outcomes /\ i \in Captured(cp)
                                   /\ f[i] \in {"review", "closed"}
  BY <1>1, <1>2
<1> HIDE DEF f
<1>7. /\ Sound(c) /\ c.decisions = f
      /\ c.discovered_ids = cp.discovered_ids /\ c.captured_ids = cp.captured_ids
      /\ c.next_page = cp.next_page /\ c.discovery_complete = cp.discovery_complete
  BY <1>1, <1>2, <1>5, <1>6, DecisionsAreReplaced
<1>. QED BY <1>6, <1>7 DEF Decided

(* What the importer makes of the checkpoint.                              *)
LEMMA FinalizedIsSound ==
  ASSUME NEW cp, Sound(cp), NEW shown \in Decisions, NEW c \in Finalized(cp, shown)
  PROVE  Sound(c) /\ KeepsItsWord(cp, c)
<1> DEFINE outcomes == FinalOutcomes(cp, shown)
           pending == Restrict(outcomes, DOMAIN outcomes \ Decided(cp))
<1>1. /\ cp.decisions \in Decisions /\ Decided(cp) \subseteq Discovered(cp)
      /\ Captured(cp) \subseteq Discovered(cp) /\ Discovered(cp) \subseteq Id
  BY SoundParts
<1>2. /\ DOMAIN shown \subseteq Id /\ \A i \in DOMAIN shown : shown[i] \in Outcomes
      /\ \A i \in Decided(cp) : cp.decisions[i] \in Outcomes
  BY <1>1, DecisionsAreFunctions DEF Decided
<1>3. /\ DOMAIN outcomes = Decided(cp) \cup DOMAIN shown \cup Captured(cp)
      /\ \A i \in DOMAIN outcomes : outcomes[i] \in Outcomes
      /\ \A i \in Decided(cp) : cp.decisions[i] = "failed" => outcomes[i] = "failed"
      /\ outcomes = [i \in DOMAIN outcomes |-> outcomes[i]]
  BY <1>2 DEF FinalOutcomes, Proposed, Outcomes
<1>4. /\ pending = [i \in DOMAIN outcomes \ Decided(cp) |-> outcomes[i]]
  BY DEF Restrict
<1>5. c \in redecide(cp, outcomes) \/ c = cp \/ c \in decide(cp, pending)
  BY DEF Finalized
<1> HIDE DEF outcomes
<1>6. outcomes \in Decisions /\ pending \in Decisions
  <2>1. outcomes \in [DOMAIN outcomes -> Outcomes] /\ DOMAIN outcomes \in SUBSET Id
    BY <1>1, <1>2, <1>3
  <2>2. /\ pending \in [DOMAIN outcomes \ Decided(cp) -> Outcomes]
        /\ DOMAIN outcomes \ Decided(cp) \in SUBSET Id
    BY <1>3, <1>4, <2>1
  <2>. QED BY <2>1, <2>2, DecisionsAreFunctions
<1> HIDE DEF pending
<1>. QED BY <1>3, <1>5, <1>6, RedecideIsSound, DecideIsSound, SameKeeps


-----------------------------------------------------------------------------
(* Requests, again *)

(* What a browser sees of a page has no identity twice.                    *)
LEMMA SeenIsInjective ==
  ASSUME NEW p \in DOMAIN Pages, NEW ids \in Seen(p)
  PROVE  ids \in Seq(Id) /\ IsInjective(ids)
<1> DEFINE page == Pages[p]
<1>1. page \in Seq(Id) /\ IsInjective(page) BY CheckpointAssumption
<1>2. ids = page \/ \E n \in DOMAIN page : ids = RemoveAt(page, n) BY DEF Seen
<1> HIDE DEF page
<1>3. ASSUME NEW n \in DOMAIN page, ids = RemoveAt(page, n)
      PROVE  ids \in Seq(Id) /\ IsInjective(ids)
  <2>1. Len(page) \in Nat /\ DOMAIN page = 1 .. Len(page) BY <1>1
  <2>2. n \in 1 .. Len(page) BY <1>3, <2>1
  <2> DEFINE s == SubSeq(page, 1, n - 1)
             t == SubSeq(page, n + 1, Len(page))
  <2>3. /\ s \in Seq(Id) /\ Len(s) = n - 1
        /\ \A i \in 1 .. n - 1 : s[i] = page[i]
    <3>1. \A i \in 1 .. n - 1 : page[i] \in Id BY <1>1, <2>1, <2>2
    <3>2. 1 \in Int /\ n - 1 \in Int BY <2>2
    <3>3. /\ s \in Seq(Id)
          /\ Len(s) = IF 1 <= n - 1 THEN n - 1 - 1 + 1 ELSE 0
          /\ \A i \in 1 .. n - 1 - 1 + 1 : s[i] = page[1 + i - 1]
      BY <3>1, <3>2, SubSeqProperties
    <3>. QED BY <2>2, <3>3
  <2>4. /\ t \in Seq(Id) /\ Len(t) = Len(page) - n
        /\ \A i \in 1 .. Len(page) - n : t[i] = page[n + i]
    <3>1. \A i \in n + 1 .. Len(page) : page[i] \in Id BY <1>1, <2>1, <2>2
    <3>2. n + 1 \in Int /\ Len(page) \in Int BY <2>1, <2>2
    <3>3. /\ t \in Seq(Id)
          /\ Len(t) = IF n + 1 <= Len(page) THEN Len(page) - (n + 1) + 1 ELSE 0
          /\ \A i \in 1 .. Len(page) - (n + 1) + 1 : t[i] = page[n + 1 + i - 1]
      BY <3>1, <3>2, SubSeqProperties
    <3>. QED BY <2>1, <2>2, <3>3
  <2>5. ids = s \o t BY <1>3 DEF RemoveAt
  <2> HIDE DEF s, t
  <2>6. DOMAIN s = 1 .. n - 1 /\ DOMAIN t = 1 .. Len(page) - n BY <2>3, <2>4
  <2>7. \A i, j \in 1 .. Len(page) : page[i] = page[j] => i = j
    BY <1>1, <2>1 DEF IsInjective
  <2>8. IsInjective(s)
    <3> SUFFICES ASSUME NEW i \in 1 .. n - 1, NEW j \in 1 .. n - 1, s[i] = s[j]
                 PROVE  i = j
      BY <2>6 DEF IsInjective
    <3>1. i \in 1 .. Len(page) /\ j \in 1 .. Len(page) BY <2>1, <2>2
    <3>. QED BY <2>3, <2>7, <3>1
  <2>9. IsInjective(t)
    <3> SUFFICES ASSUME NEW i \in 1 .. Len(page) - n, NEW j \in 1 .. Len(page) - n,
                        t[i] = t[j]
                 PROVE  i = j
      BY <2>6 DEF IsInjective
    <3>1. n + i \in 1 .. Len(page) /\ n + j \in 1 .. Len(page) BY <2>1, <2>2
    <3>2. n + i = n + j BY <2>4, <2>7, <3>1
    <3>. QED BY <2>2, <3>2
  <2>10. ToSet(s) \cap ToSet(t) = {}
    <3> SUFFICES ASSUME NEW i \in 1 .. n - 1, NEW j \in 1 .. Len(page) - n, s[i] = t[j]
                 PROVE  FALSE
      BY <2>6 DEF ToSet
    <3>1. i \in 1 .. Len(page) /\ n + j \in 1 .. Len(page) BY <2>1, <2>2
    <3>2. i = n + j BY <2>3, <2>4, <2>7, <3>1
    <3>. QED BY <2>2, <3>2
  <2>. QED BY <2>3, <2>4, <2>5, <2>8, <2>9, <2>10, ConcatIsInjective
<1>. QED BY <1>1, <1>2, <1>3

LEMMA InputIsRequest ==
  ASSUME NEW kind \in RequestKinds, NEW p \in DOMAIN Pages, NEW q \in Inputs(kind, p)
  PROVE  IsRequest(q) /\ q.kind = kind
<1>0. PICK ids \in Seen(p) :
        \E total \in Totals, items \in Details(kind, ids), excluded \in Excluded(kind) :
          q = Request(kind, p, ids, total, items, excluded)
  BY DEF Inputs
<1>1. PICK total \in Totals, items \in Details(kind, ids), excluded \in Excluded(kind) :
        q = Request(kind, p, ids, total, items, excluded)
  BY <1>0
<1>2. /\ q.kind = kind /\ q.ids = ids /\ q.page = p /\ q.total_count = total
      /\ q.items = items /\ q.has_next = (p < Len(Pages))
  BY <1>1 DEF Request
<1>3. ids \in Seq(Id) /\ IsInjective(ids) BY SeenIsInjective
<1>4. ToSet(ids) \subseteq Id BY <1>3, ElementsAreFinite
<1>5. items \in Decisions /\ DOMAIN items \subseteq ToSet(ids)
  <2>1. CASE items = <<>>
    <3>1. items \in [{} -> Outcomes] /\ DOMAIN items = {} BY <2>1
    <3>. QED BY <3>1 DEF Decisions
  <2>2. ASSUME NEW i \in ToSet(ids), items \in [{i} -> {"failed"}]
        PROVE  items \in Decisions /\ DOMAIN items \subseteq ToSet(ids)
    <3>1. items \in [{i} -> Outcomes] /\ DOMAIN items = {i} BY <2>2 DEF Outcomes
    <3>2. {i} \in SUBSET Id BY <1>4
    <3>. QED BY <2>2, <3>1, <3>2, DecisionsAreFunctions
  <2>3. ASSUME NEW s \in SUBSET ToSet(ids), items \in [s -> Shown]
        PROVE  items \in Decisions /\ DOMAIN items \subseteq ToSet(ids)
    <3>1. Shown \subseteq Outcomes BY CheckpointAssumption
    <3>2. items \in [s -> Outcomes] /\ DOMAIN items = s BY <2>3, <3>1
    <3>3. s \in SUBSET Id BY <1>4
    <3>. QED BY <3>2, <3>3, DecisionsAreFunctions
  <2>4. \/ items = <<>>
        \/ \E i \in ToSet(ids) : items \in [{i} -> {"failed"}]
        \/ \E s \in SUBSET ToSet(ids) : items \in [s -> Shown]
    BY DEF Details
  <2>. QED BY <2>1, <2>2, <2>3, <2>4
<1>6. p \in Nat \ {0}
  <2>1. Pages \in Seq(Seq(Id)) BY CheckpointAssumption
  <2>. QED BY <2>1
<1>. QED BY <1>2, <1>3, <1>5, <1>6 DEF IsRequest

(* A page, and a batch or decisions after it.                              *)
LEMMA KeepsTwice ==
  ASSUME NEW a, Sound(a), NEW b, Sound(b), NEW c, Sound(c),
         KeepsItsWord(a, b), KeepsItsWord(b, c),
         b.captured_ids = a.captured_ids, b.decisions = a.decisions,
         c.discovered_ids = b.discovered_ids
  PROVE  KeepsItsWord(a, c)
<1>1. /\ a # None /\ b # None /\ c # None
      /\ a.next_page \in Nat /\ b.next_page \in Nat /\ c.next_page \in Nat
  BY SoundParts
<1>2. /\ Keeps(a, b) /\ KeepsRound(a, b)
      /\ Keeps(b, c) /\ KeepsRound(b, c) /\ RecoversFailures(b, c)
  BY <1>1 DEF KeepsItsWord
<1>3. Keeps(a, c) BY <1>1, <1>2 DEF Keeps, Decided
<1>4. KeepsRound(a, c) BY <1>2 DEF KeepsRound
<1>5. RecoversFailures(a, c) BY <1>2 DEF RecoversFailures, Decided, Captured
<1>. QED BY <1>1, <1>3, <1>4, <1>5 DEF KeepsItsWord

(* A sound checkpoint is one.                                              *)
LEMMA SoundIsCheckpoint ==
  ASSUME NEW cp, Sound(cp)
  PROVE  IsCheckpoint(cp)
<1>1. cp \in Checkpoints BY SoundParts
<1>. QED BY <1>1 DEF IsCheckpoint, Checkpoints, CheckpointFields

(* A page that is seen, and then a batch of its details.                   *)
LEMMA PageThenCapture ==
  ASSUME NEW cp, Sound(cp), NEW q, IsRequest(q), NEW amends, NEW d \in OnPage(cp, q, amends),
         NEW ids, NEW c \in capture(d, ids)
  PROVE  Sound(c) /\ KeepsItsWord(cp, c)
<1>1. Sound(d) /\ KeepsItsWord(cp, d) BY OnPageIsSound
<1>2. d.captured_ids = cp.captured_ids /\ d.decisions = cp.decisions
  BY SoundIsCheckpoint, OnPageKeeps DEF Alike
<1>3. Sound(c) /\ KeepsItsWord(d, c) /\ c.discovered_ids = d.discovered_ids
  BY <1>1, CaptureIsSound
<1>. QED BY <1>1, <1>2, <1>3, KeepsTwice

LEMMA PlanFileIsSound ==
  ASSUME NEW cp, Sound(cp), NEW q, IsRequest(q), NEW c \in PlanFile(cp, q)
  PROVE  Sound(c) /\ KeepsItsWord(cp, c)
<1>1. PICK d \in OnPage(cp, q, FALSE) : c \in capture(d, DOMAIN q.items)
  BY DEF PlanFile, PlanPage
<1>. QED BY <1>1, PageThenCapture

(* Every request leads to a checkpoint that can be loaded, and that goes   *)
(* on to say what the one before said.                                     *)
LEMMA PlanIsSound ==
  ASSUME NEW cp, Sound(cp), NEW q, IsRequest(q), q.kind \in RequestKinds,
         NEW c \in Plan(cp, q)
  PROVE  Sound(c) /\ KeepsItsWord(cp, c)
<1>1. ASSUME q.kind = "discover", c \in PlanDiscover(cp, q)
      PROVE  Sound(c) /\ KeepsItsWord(cp, c)
  BY <1>1, OnPageIsSound DEF PlanDiscover, PlanPage
<1>2. ASSUME q.kind = "capture", c \in PlanCapture(cp, q)
      PROVE  Sound(c) /\ KeepsItsWord(cp, c)
  <2>1. PICK d \in OnPage(cp, q, TRUE) :
          c = d \/ c \in capture(d, DOMAIN q.items \ Captured(cp))
    BY <1>2 DEF PlanCapture, PlanPage
  <2>. QED BY <2>1, OnPageIsSound, PageThenCapture
<1>3. ASSUME q.kind = "failure", c \in PlanFailure(cp, q)
      PROVE  Sound(c) /\ KeepsItsWord(cp, c)
  <2>1. PICK d \in OnPage(cp, q, FALSE) :
          c = d \/ c \in decide(d, [i \in DOMAIN q.items |-> "failed"])
    BY <1>3 DEF PlanFailure
  <2>2. Sound(d) /\ KeepsItsWord(cp, d) BY <2>1, OnPageIsSound
  <2>3. CASE c = d BY <2>2, <2>3
  <2>4. CASE c \in decide(d, [i \in DOMAIN q.items |-> "failed"])
    <3>1. d.captured_ids = cp.captured_ids /\ d.decisions = cp.decisions
      BY <2>1, SoundIsCheckpoint, OnPageKeeps DEF Alike
    <3> DEFINE failed == [i \in DOMAIN q.items |-> "failed"]
    <3>2. failed \in Decisions
      <4>1. DOMAIN q.items \in SUBSET Id BY DecisionsAreFunctions DEF IsRequest
      <4>2. failed \in [DOMAIN q.items -> Outcomes] BY DEF Outcomes
      <4>. QED BY <4>1, <4>2, DecisionsAreFunctions
    <3> HIDE DEF failed
    <3>3. c \in decide(d, failed) BY <2>4 DEF failed
    <3>4. Sound(c) /\ KeepsItsWord(d, c) /\ c.discovered_ids = d.discovered_ids
      BY <2>2, <3>2, <3>3, DecideIsSound
    <3>. QED BY <2>2, <3>1, <3>4, KeepsTwice
  <2>. QED BY <2>1, <2>3, <2>4
<1>4. ASSUME q.kind = "recapture", c \in PlanRecapture(cp, q)
      PROVE  Sound(c) /\ KeepsItsWord(cp, c)
  BY <1>4, SameKeeps DEF PlanRecapture
<1>5. ASSUME q.kind = "recover", c \in PlanRecover(cp, q)
      PROVE  Sound(c) /\ KeepsItsWord(cp, c)
  <2>1. c \in capture(cp, DOMAIN q.items) BY <1>5 DEF PlanRecover
  <2>. QED BY <2>1, CaptureIsSound
<1>6. ASSUME q.kind = "file", c \in PlanFile(cp, q)
      PROVE  Sound(c) /\ KeepsItsWord(cp, c)
  BY <1>6, PlanFileIsSound
<1>. QED BY <1>1, <1>2, <1>3, <1>4, <1>5, <1>6 DEF Plan, RequestKinds


-----------------------------------------------------------------------------
(* Types: each action *)

LEMMA InitTypes == Init => TypesInv
<1> SUFFICES ASSUME Init PROVE TypesInv OBVIOUS
<1>1. /\ raw = {} /\ file = None /\ importer.step = "idle"
      /\ imports = 0 /\ audits = 0 /\ crowded = FALSE
      /\ active = Before
  BY DEF Init, Resting
<1>2. \A w \in Writers : task[w] = Idle BY DEF Init
<1>3. MaxImports \in Nat /\ MaxAudits \in Nat BY CheckpointAssumption
<1>4. ImporterTyped BY <1>1 DEF ImporterTyped
<1>5. \A w \in Writers : TaskTyped(task[w]) BY <1>2 DEF TaskTyped
<1>6. DocsTyped(raw) BY <1>1 DEF DocsTyped
<1>7. imports \in 0 .. MaxImports /\ audits \in 0 .. MaxAudits BY <1>1, <1>3
<1>. QED BY <1>1, <1>4, <1>5, <1>6, <1>7 DEF TypesInv

LEMMA LoadedIsSound ==
  ASSUME TypesInv
  PROVE  Sound(Loaded)
BY InitialIsSound DEF TypesInv, Loaded

(* A writer takes up the task t.                                           *)
LEMMA WriterTypes ==
  ASSUME CheckpointInv, TypesInv, NEW w \in Writers, NEW t, task' = [task EXCEPT ![w] = t],
         TaskTyped(t), DocsTyped(raw'), file' = file \/ Sound(file'),
         made' \in Nat, made <= made', crowded' \in BOOLEAN,
         UNCHANGED <<importer, imports, audits, active>>
  PROVE  TypesInv'
<1>1. DOMAIN task = Writers /\ made \in Nat BY DEF CheckpointInv, WritersOK
<1>2. \A v \in Writers : TaskTyped(task'[v]) BY <1>1 DEF TypesInv
<1>3. ImporterTyped'
  <2>1. importer.step = "read" => DocsOK(importer.docs, made')
    BY <1>1 DEF TypesInv, ImporterTyped, DocsOK
  <2>. QED BY <2>1 DEF TypesInv, ImporterTyped
<1>. QED BY <1>2, <1>3 DEF TypesInv

(* A task that is planned has its jobs, and one that goes on keeps them.   *)
LEMMA PlannedTypes ==
  ASSUME NEW kind, NEW jobs, \A k \in DOMAIN jobs : JobTyped(jobs[k])
  PROVE  /\ TaskTyped(Storing(kind, jobs))
         /\ \A step, n : TaskTyped(Work(step, kind, jobs, n))
BY DEF TaskTyped, Storing, Work

LEMMA ReceiveTypes ==
  ASSUME CheckpointInv, TypesInv, NEW w \in Writers, NEW kind \in Kinds \ {"file"},
         Receive(w, kind)
  PROVE  TypesInv'
<1>1. kind \in RequestKinds BY CheckpointAssumption
<1>2. PICK p \in DOMAIN Pages : \E q \in Inputs(kind, p) : \E cp \in Plan(Loaded, q) :
        task' = [task EXCEPT ![w] = Storing(kind, <<Job(q.items, cp)>>)]
  BY DEF Receive
<1>3. PICK q \in Inputs(kind, p) : \E cp \in Plan(Loaded, q) :
        task' = [task EXCEPT ![w] = Storing(kind, <<Job(q.items, cp)>>)]
  BY <1>2
<1>4. PICK cp \in Plan(Loaded, q) :
        task' = [task EXCEPT ![w] = Storing(kind, <<Job(q.items, cp)>>)]
  BY <1>3
<1>5. IsRequest(q) /\ q.kind = kind BY <1>1, InputIsRequest
<1>6. Sound(cp) BY <1>1, <1>4, <1>5, LoadedIsSound, PlanIsSound
<1> DEFINE jobs == <<Job(q.items, cp)>>
<1>7. \A k \in DOMAIN jobs : JobTyped(jobs[k])
  BY <1>5, <1>6 DEF JobTyped, Job, IsRequest
<1>8. task' = [task EXCEPT ![w] = Storing(kind, jobs)] BY <1>4
<1> HIDE DEF jobs
<1>9. /\ raw' = raw /\ UNCHANGED <<file, importer, imports, audits, active>>
      /\ made' = IF kind \in {"discover", "failure"} THEN made ELSE made + 1
      /\ crowded' \in BOOLEAN
  BY DEF Receive, StartsWork
<1>10. made \in Nat BY DEF CheckpointInv
<1>11. made' \in Nat /\ made <= made' BY <1>9, <1>10
<1>12. DocsTyped(raw') BY <1>9 DEF TypesInv
<1>13. TaskTyped(Storing(kind, jobs)) BY <1>7, PlannedTypes
<1>. QED BY <1>8, <1>9, <1>11, <1>12, <1>13, WriterTypes

LEMMA ReadFileTypes ==
  ASSUME CheckpointInv, TypesInv, NEW w \in Writers, ReadFile(w)
  PROVE  TypesInv'
<1> DEFINE Planned(q1, c1, q2, c2) ==
             task' = [task EXCEPT ![w] =
                        Storing("file", <<Job(q1.items, c1), Job(q2.items, c2)>>)]
<1>1. PICK p1 \in DOMAIN Pages, p2 \in DOMAIN Pages :
        \E q1 \in Inputs("file", p1) : \E c1 \in PlanFile(Loaded, q1) :
        \E q2 \in Inputs("file", p2) : \E c2 \in PlanFile(c1, q2) : Planned(q1, c1, q2, c2)
  BY DEF ReadFile
<1>2. PICK q1 \in Inputs("file", p1) : \E c1 \in PlanFile(Loaded, q1) :
        \E q2 \in Inputs("file", p2) : \E c2 \in PlanFile(c1, q2) : Planned(q1, c1, q2, c2)
  BY <1>1
<1>3. PICK c1 \in PlanFile(Loaded, q1) :
        \E q2 \in Inputs("file", p2) : \E c2 \in PlanFile(c1, q2) : Planned(q1, c1, q2, c2)
  BY <1>2
<1>4. PICK q2 \in Inputs("file", p2) : \E c2 \in PlanFile(c1, q2) : Planned(q1, c1, q2, c2)
  BY <1>3
<1>5. PICK c2 \in PlanFile(c1, q2) : Planned(q1, c1, q2, c2) BY <1>4
<1>6. "file" \in RequestKinds BY DEF RequestKinds
<1>7. IsRequest(q1) /\ IsRequest(q2) BY <1>6, InputIsRequest
<1>8. Sound(c1) BY <1>3, <1>7, LoadedIsSound, PlanFileIsSound
<1>9. Sound(c2) BY <1>5, <1>7, <1>8, PlanFileIsSound
<1> DEFINE jobs == <<Job(q1.items, c1), Job(q2.items, c2)>>
<1>10. \A k \in DOMAIN jobs : JobTyped(jobs[k])
  <2>1. JobTyped(Job(q1.items, c1)) /\ JobTyped(Job(q2.items, c2))
    BY <1>7, <1>8, <1>9 DEF JobTyped, Job, IsRequest
  <2>. QED BY <2>1
<1>11. task' = [task EXCEPT ![w] = Storing("file", jobs)] BY <1>5
<1> HIDE DEF jobs
<1>12. /\ raw' = raw /\ UNCHANGED <<file, importer, imports, audits, active>>
       /\ made' = made + 2 /\ crowded' \in BOOLEAN
  BY DEF ReadFile, StartsWork
<1>13. made' \in Nat /\ made <= made' BY <1>12 DEF CheckpointInv
<1>14. DocsTyped(raw') BY <1>12 DEF TypesInv
<1>15. TaskTyped(Storing("file", jobs)) BY <1>10, PlannedTypes
<1>. QED BY <1>11, <1>12, <1>13, <1>14, <1>15, WriterTypes

(* A task at work, with its types.                                         *)
LEMMA WorkingTypes ==
  ASSUME CheckpointInv, TypesInv, NEW w \in Writers, task[w] # Idle
  PROVE  LET t == task[w] IN
         /\ t = Work(t.step, t.kind, t.jobs, t.n) /\ Current(w) = t.jobs[1]
         /\ 1 \in DOMAIN t.jobs /\ JobTyped(t.jobs[1])
         /\ \A k \in DOMAIN t.jobs : JobTyped(t.jobs[k])
<1>1. LET t == task[w] IN
      /\ t = Work(t.step, t.kind, t.jobs, t.n) /\ TaskForm(t)
      /\ Current(w) = t.jobs[1]
  BY WorkingTask
<1>2. 1 \in DOMAIN task[w].jobs BY <1>1 DEF TaskForm
<1>. QED BY <1>1, <1>2 DEF TypesInv, TaskTyped

(* The next step of a task.                                                *)
LEMMA StepOfWork ==
  ASSUME CheckpointInv, NEW w \in Writers, task[w] # Idle, NEW step
  PROVE  LET t == task[w] IN [t EXCEPT !.step = step] = Work(step, t.kind, t.jobs, t.n)
<1> DEFINE t == task[w]
<1>1. t = Work(t.step, t.kind, t.jobs, t.n) BY WorkingTask
<1> HIDE DEF t
<1>2. PICK old, kind, jobs, n : t = Work(old, kind, jobs, n) BY <1>1
<1>3. t.kind = kind /\ t.jobs = jobs /\ t.n = n BY <1>2 DEF Work
<1>4. [Work(old, kind, jobs, n) EXCEPT !.step = step] = Work(step, kind, jobs, n)
  BY DEF Work
<1>5. [t EXCEPT !.step = step] = Work(step, t.kind, t.jobs, t.n) BY <1>2, <1>3, <1>4
<1>. QED BY <1>5 DEF t

LEMMA SaveItemsTypes ==
  ASSUME CheckpointInv, TypesInv, NEW w \in Writers, SaveItems(w)
  PROVE  TypesInv'
<1> DEFINE old == task[w]
           t == Work("details", old.kind, old.jobs, old.n)
<1>1. /\ old.step = "items" /\ task' = [task EXCEPT ![w] = [old EXCEPT !.step = "details"]]
      /\ UNCHANGED <<file, made, importer, imports, audits, active, crowded>>
      /\ raw' = raw \cup {ListOf(old.n)} \cup
                {Document("list_item", old.n, i, None) : i \in DOMAIN Current(w).items}
  BY DEF SaveItems, Goto
<1>2. old # Idle BY <1>1 DEF Idle
<1>3. task' = [task EXCEPT ![w] = t] BY <1>1, <1>2, StepOfWork
<1>4. TaskTyped(t) BY <1>2, WorkingTypes, PlannedTypes
<1>5. DocsTyped(raw') BY <1>1 DEF TypesInv, DocsTyped, ListOf, Document
<1> HIDE DEF t
<1>6. crowded' \in BOOLEAN /\ made' \in Nat /\ made <= made'
  BY <1>1 DEF TypesInv, CheckpointInv
<1>. QED BY <1>1, <1>3, <1>4, <1>5, <1>6, WriterTypes

LEMMA SaveDetailsTypes ==
  ASSUME CheckpointInv, TypesInv, NEW w \in Writers, SaveDetails(w)
  PROVE  TypesInv'
<1> DEFINE old == task[w]
           items == old.jobs[1].items
<1>1. /\ old.step = "details"
      /\ UNCHANGED <<file, made, importer, imports, audits, active, crowded>>
      /\ raw' = raw \cup {Document("detail_response", old.n, i, Current(w).items[i]) :
                            i \in DOMAIN Current(w).items}
  BY DEF SaveDetails
<1>2. old # Idle BY <1>1 DEF Idle
<1>3. \/ task' = [task EXCEPT ![w] = Idle]
      \/ task' = [task EXCEPT ![w] = [old EXCEPT !.step = "replay"]]
      \/ task' = [task EXCEPT ![w] = [old EXCEPT !.step = "save"]]
  BY DEF SaveDetails, Goto
<1>4. PICK t : task' = [task EXCEPT ![w] = t] /\ TaskTyped(t)
  <2>1. TaskTyped(Idle) BY DEF TaskTyped
  <2>2. \A step : TaskTyped([old EXCEPT !.step = step])
    <3> SUFFICES ASSUME NEW step PROVE TaskTyped([old EXCEPT !.step = step]) OBVIOUS
    <3>1. [old EXCEPT !.step = step] = Work(step, old.kind, old.jobs, old.n)
      BY <1>2, StepOfWork
    <3>2. \A k \in DOMAIN old.jobs : JobTyped(old.jobs[k]) BY <1>2, WorkingTypes
    <3>3. TaskTyped(Work(step, old.kind, old.jobs, old.n)) BY <3>2, PlannedTypes
    <3>. QED BY <3>1, <3>3
  <2>. QED BY <1>3, <2>1, <2>2
<1>5. Current(w).items = items /\ items \in Decisions
  BY <1>2, WorkingTypes DEF JobTyped
<1> HIDE DEF items
<1>6. \A i \in DOMAIN items : items[i] \in Outcomes BY <1>5, DecisionsAreFunctions
<1>7. DocsTyped(raw') BY <1>1, <1>5, <1>6 DEF TypesInv, DocsTyped, Document
<1>8. crowded' \in BOOLEAN /\ made' \in Nat /\ made <= made'
  BY <1>1 DEF TypesInv, CheckpointInv
<1>. QED BY <1>1, <1>4, <1>7, <1>8, WriterTypes

LEMMA ReplayRecoveryTypes ==
  ASSUME CheckpointInv, TypesInv, NEW w \in Writers, ReplayRecovery(w)
  PROVE  TypesInv'
<1> DEFINE old == task[w]
<1>1. /\ old.step = "replay"
      /\ UNCHANGED <<file, raw, made, importer, imports, audits, active, crowded>>
  BY DEF ReplayRecovery
<1>2. old # Idle BY <1>1 DEF Idle
<1>3. PICK cp \in RecoveredOutcomes(w) :
        task' = [task EXCEPT ![w] =
                   Work("save", "recover", <<Job(Current(w).items, cp)>>, old.n)]
  BY DEF ReplayRecovery
<1>4. JobTyped(Current(w)) BY <1>2, WorkingTypes
<1>5. PICK outcomes : cp \in reclassify_failed(Current(w).cp, outcomes)
  BY <1>3 DEF RecoveredOutcomes
<1>6. Sound(cp) BY <1>4, <1>5, ReclassifyIsSound DEF JobTyped
<1> DEFINE jobs == <<Job(Current(w).items, cp)>>
<1>7. \A k \in DOMAIN jobs : JobTyped(jobs[k]) BY <1>4, <1>6 DEF JobTyped, Job
<1> DEFINE t == Work("save", "recover", jobs, old.n)
<1>8. task' = [task EXCEPT ![w] = t] BY <1>3
<1> HIDE DEF jobs
<1>9. TaskTyped(t) BY <1>7, PlannedTypes
<1> HIDE DEF t
<1>10. crowded' \in BOOLEAN /\ made' \in Nat /\ made <= made' /\ DocsTyped(raw')
  BY <1>1 DEF TypesInv, CheckpointInv
<1>. QED BY <1>1, <1>8, <1>9, <1>10, WriterTypes

LEMMA SaveCheckpointTypes ==
  ASSUME CheckpointInv, TypesInv, NEW w \in Writers, SaveCheckpoint(w)
  PROVE  TypesInv'
<1> DEFINE old == task[w]
<1>1. /\ old.step = "save" /\ file' = Current(w).cp
      /\ UNCHANGED <<raw, made, importer, imports, audits, active, crowded>>
      /\ task' = IF Len(old.jobs) = 1 THEN [task EXCEPT ![w] = Idle]
                 ELSE [task EXCEPT ![w] =
                         Work("items", "file", Tail(old.jobs), old.n + 1)]
  BY DEF SaveCheckpoint
<1>2. old # Idle BY <1>1 DEF Idle
<1>3. Sound(file') BY <1>1, <1>2, WorkingTypes DEF JobTyped
<1>4. PICK t : task' = [task EXCEPT ![w] = t] /\ TaskTyped(t)
  <2>1. TaskTyped(Idle) BY DEF TaskTyped
  <2>2. CASE Len(old.jobs) = 1 BY <1>1, <2>1, <2>2
  <2>3. CASE Len(old.jobs) # 1
    <3>1. TaskForm(old) BY <1>2, WorkingTask
    <3>2. old.jobs = <<old.jobs[1], old.jobs[2]>>
      BY <2>3, <3>1 DEF TaskForm
    <3>3. 2 \in DOMAIN old.jobs /\ Tail(old.jobs) = <<old.jobs[2]>>
      <4>1. \A a, b : 2 \in DOMAIN <<a, b>> /\ Tail(<<a, b>>) = <<b>> OBVIOUS
      <4>. QED BY <3>2, <4>1
    <3>4. JobTyped(old.jobs[2]) BY <1>2, <3>3, WorkingTypes
    <3> DEFINE rest == <<old.jobs[2]>>
    <3>5. \A k \in DOMAIN rest : JobTyped(rest[k]) BY <3>4
    <3> HIDE DEF rest
    <3>6. TaskTyped(Work("items", "file", rest, old.n + 1)) BY <3>5, PlannedTypes
    <3>. QED BY <1>1, <2>3, <3>3, <3>6 DEF rest
  <2>. QED BY <2>2, <2>3
<1>5. crowded' \in BOOLEAN /\ made' \in Nat /\ made <= made' /\ DocsTyped(raw')
  BY <1>1 DEF TypesInv, CheckpointInv
<1>. QED BY <1>1, <1>3, <1>4, <1>5, WriterTypes

(* A task that fails or is killed.                                         *)
LEMMA EndTypes ==
  ASSUME CheckpointInv, TypesInv, NEW w \in Writers, Fail(w) \/ Die(w)
  PROVE  TypesInv'
<1>1. /\ task' = [task EXCEPT ![w] = Idle] /\ raw' \subseteq raw
      /\ UNCHANGED <<file, made, importer, imports, audits, active, crowded>>
  BY DEF Fail, Die, Undo
<1>2. TaskTyped(Idle) BY DEF TaskTyped
<1>3. crowded' \in BOOLEAN /\ made' \in Nat /\ made <= made' /\ DocsTyped(raw')
  BY <1>1 DEF TypesInv, CheckpointInv, DocsTyped
<1>. QED BY <1>1, <1>2, <1>3, WriterTypes

LEMMA WriteTypes ==
  ASSUME CheckpointInv, TypesInv, NEW w \in Writers, Write(w)
  PROVE  TypesInv'
BY ReceiveTypes, ReadFileTypes, SaveItemsTypes, SaveDetailsTypes, ReplayRecoveryTypes,
   SaveCheckpointTypes, EndTypes DEF Write


(* A step of the importer or the audit.                                    *)
LEMMA ImporterTypes ==
  ASSUME CheckpointInv, TypesInv, UNCHANGED <<task, raw, made>>,
         file' = file \/ Sound(file'), ImporterTyped',
         imports' \in 0 .. MaxImports, audits' \in 0 .. MaxAudits, crowded' \in BOOLEAN,
         active' \subseteq Id \cup Before
  PROVE  TypesInv'
BY DEF TypesInv

LEMMA ReplayCheckpointTypes ==
  ASSUME CheckpointInv, TypesInv, ReplayCheckpoint
  PROVE  TypesInv'
<1> DEFINE docs == importer.docs
           ids == First(file.captured_ids, importer.limit)
           shown == Replay(docs, ids)
<1>1. /\ importer.step = "read" /\ file # None /\ Replayable(docs, ids)
      /\ importer' = [step |-> "replayed", shown |-> shown, clean |-> FALSE]
      /\ UNCHANGED <<file, raw, made, task, imports, audits, active, crowded>>
  BY DEF ReplayCheckpoint
<1>2. DocsOK(docs, made) /\ DocsTyped(docs) /\ importer.limit \in Nat /\ made \in Nat
  BY <1>1 DEF TypesInv, ImporterTyped, CheckpointInv
<1>3. ToSet(ids) \subseteq Id
  <2> DEFINE s == file.captured_ids
             n == IF importer.limit < Len(s) THEN importer.limit ELSE Len(s)
  <2>1. s \in Seq(Id) BY <1>1, SoundParts DEF TypesInv
  <2>2. n \in Nat /\ n <= Len(s) BY <1>2, <2>1
  <2>3. ids = SubSeq(s, 1, n) BY DEF First
  <2> HIDE DEF n, s, ids
  <2>4. \A i \in 1 .. n : s[i] \in Id BY <2>1, <2>2
  <2>5. ids \in Seq(Id) BY <2>2, <2>3, <2>4, SubSeqProperties
  <2>. QED BY <2>5, ElementsAreFinite
<1> HIDE DEF ids
<1>4. ASSUME NEW i \in ToSet(ids) PROVE shown[i] \in Outcomes
  <2>1. Has(docs, "detail_response", i) BY <1>1 DEF Replayable
  <2>2. LET d == Newest(docs, "detail_response", i) IN d \in docs /\ d.role = "detail_response"
    BY <1>2, <2>1, NewestIsThere
  <2>3. shown[i] = Newest(docs, "detail_response", i).shows BY DEF Replay
  <2>. QED BY <1>2, <2>2, <2>3 DEF DocsTyped
<1>5. shown = [i \in ToSet(ids) |-> shown[i]] BY DEF Replay
<1> HIDE DEF shown
<1>6. shown \in Decisions
  <2>1. shown \in [ToSet(ids) -> Outcomes] BY <1>4, <1>5
  <2>. QED BY <1>3, <2>1, DecisionsAreFunctions
<1>7. ImporterTyped' BY <1>1, <1>6 DEF ImporterTyped
<1>. QED BY <1>1, <1>7, ImporterTypes DEF TypesInv

LEMMA ImportTypes ==
  ASSUME CheckpointInv, TypesInv, Import \/ AuditRedecision
  PROVE  TypesInv'
<1>0. /\ imports \in 0 .. MaxImports /\ audits \in 0 .. MaxAudits /\ crowded \in BOOLEAN
      /\ active \subseteq Id \cup Before /\ ImporterTyped
      /\ MaxImports \in Nat /\ MaxAudits \in Nat
  BY CheckpointAssumption DEF TypesInv
<1>1. ASSUME NEW limit \in Limits, ReadDocuments(limit) PROVE TypesInv'
  <2>1. /\ imports < MaxImports /\ imports' = imports + 1
        /\ importer' = [step |-> "read", docs |-> raw, limit |-> limit]
        /\ crowded' \in BOOLEAN
        /\ UNCHANGED <<file, raw, made, task, audits, active>>
    BY <1>1 DEF ReadDocuments, StartsWork
  <2>2. limit \in Nat BY CheckpointAssumption
  <2>3. imports' \in 0 .. MaxImports BY <1>0, <2>1
  <2>4. DocsOK(raw, made') /\ DocsTyped(raw) BY <2>1 DEF CheckpointInv, TypesInv
  <2>5. ImporterTyped' BY <2>1, <2>2, <2>4 DEF ImporterTyped
  <2>. QED BY <1>0, <2>1, <2>3, <2>5, ImporterTypes
<1>2. CASE ReplayCheckpoint BY <1>2, ReplayCheckpointTypes
<1>3. ASSUME NEW stored \in SUBSET Accepted(importer.shown), NEW clean,
             CommitPrograms(stored, clean)
      PROVE  TypesInv'
  <2>1. /\ active' = active \cup stored
        /\ UNCHANGED <<file, raw, made, task, imports, audits, crowded>>
    BY <1>3 DEF CommitPrograms
  <2>n. /\ importer.step = "replayed"
        /\ importer' = [step |-> "committed", shown |-> importer.shown, clean |-> clean]
    BY <1>3, CommitSteps
  <2>2. importer.shown \in Decisions BY <1>0, <2>n DEF ImporterTyped
  <2>3. stored \subseteq Id BY <2>2, DecisionsAreFunctions DEF Accepted
  <2>4. ImporterTyped' BY <2>n, <2>2 DEF ImporterTyped
  <2>. QED BY <1>0, <2>1, <2>3, <2>4, ImporterTypes
<1>4. CASE LoadAgain
  <2>1. /\ importer.step = "committed" /\ file # None
        /\ UNCHANGED <<file, raw, made, task, imports, audits, active, crowded>>
    BY <1>4 DEF LoadAgain
  <2>2. PICK cp \in Finalized(file, importer.shown) :
          importer' = [step |-> "finalized", cp |-> cp, shown |-> importer.shown,
                       clean |-> importer.clean]
    BY <1>4 DEF LoadAgain
  <2>3. importer.shown \in Decisions /\ Sound(file)
    BY <1>0, <2>1 DEF ImporterTyped, TypesInv
  <2>4. Sound(cp) BY <2>3, FinalizedIsSound
  <2>5. ImporterTyped' BY <2>2, <2>4 DEF ImporterTyped
  <2>. QED BY <1>0, <2>1, <2>5, ImporterTypes
<1>5. CASE SaveFinal
  <2>1. /\ importer.step = "finalized" /\ file' = importer.cp
        /\ UNCHANGED <<raw, made, task, imports, audits, active, crowded>>
    BY <1>5 DEF SaveFinal
  <2>3. importer'.step = "saved" /\ importer'.cp = importer.cp BY <1>5, SaveFinalSteps
  <2>4. Sound(importer.cp) BY <1>0, <2>1 DEF ImporterTyped
  <2>5. ImporterTyped' BY <2>3, <2>4 DEF ImporterTyped
  <2>. QED BY <1>0, <2>1, <2>4, <2>5, ImporterTypes
<1>6. CASE InactivateMissing \/ ImportEnds
  <2>1. /\ importer'.step = "idle" /\ active' \subseteq active
        /\ UNCHANGED <<file, raw, made, task, imports, audits, crowded>>
    BY <1>6 DEF InactivateMissing, ImportEnds, Resting
  <2>2. ImporterTyped' BY <2>1 DEF ImporterTyped
  <2>. QED BY <1>0, <2>1, <2>2, ImporterTypes
<1>7. CASE AuditRedecision
  <2>1. /\ audits < MaxAudits /\ audits' = audits + 1
        /\ UNCHANGED <<file, raw, made, task, importer, imports, active, crowded>>
    BY <1>7 DEF AuditRedecision
  <2>2. audits' \in 0 .. MaxAudits BY <1>0, <2>1
  <2>3. ImporterTyped' BY <1>0, <2>1 DEF ImporterTyped
  <2>. QED BY <1>0, <2>1, <2>2, <2>3, ImporterTypes
<1>. QED BY <1>1, <1>2, <1>3, <1>4, <1>5, <1>6, <1>7 DEF Import

LEMMA TypesKeep == CheckpointInv /\ TypesInv /\ [Next]_vars => TypesInv'
<1> SUFFICES ASSUME CheckpointInv, TypesInv, [Next]_vars PROVE TypesInv' OBVIOUS
<1>1. CASE Next BY <1>1, WriteTypes, ImportTypes DEF Next
<1>2. CASE UNCHANGED vars
  BY <1>2 DEF vars, TypesInv, ImporterTyped
<1>. QED BY <1>1, <1>2

LEMMA TypesAlways == Spec => []TypesInv
  BY InitTypes, TypesKeep, CheckpointInvAlways, PTL DEF Spec

LEMMA TypedIsOK == CheckpointInv /\ TypesInv => TypeOK
<1> SUFFICES ASSUME CheckpointInv, TypesInv PROVE TypeOK OBVIOUS
<1>1. file # None => Valid(file) BY DEF TypesInv, Sound
<1>2. ASSUME NEW w \in Writers, NEW k \in DOMAIN (IF task[w] = Idle THEN <<>> ELSE task[w].jobs)
      PROVE  Valid(task[w].jobs[k].cp)
  <2>1. task[w] # Idle /\ k \in DOMAIN task[w].jobs BY <1>2
  <2>. QED BY <2>1 DEF TypesInv, TaskTyped, JobTyped, Sound
<1>3. \A d \in raw : /\ d.role \in {"list_response", "list_item", "detail_response"}
                     /\ d.capture \in 1 .. made
  BY DEF TypesInv, DocsTyped, CheckpointInv, DocsOK
<1>. QED BY <1>1, <1>2, <1>3 DEF TypeOK, TypesInv, CheckpointInv

(* What any of the operations builds can be written and loaded again: the  *)
(* constructor of the checkpoint (__post_init__) refuses nothing they      *)
(* make, in whatever order and however many at once they run.              *)
THEOREM CheckpointsLoad == Spec => []TypeOK
  BY TypedIsOK, CheckpointInvAlways, TypesAlways, PTL

-----------------------------------------------------------------------------
(* What a complete import has stored *)

(* What an import stored without a fault is active, and what it makes of   *)
(* the checkpoint accepts, of what it read, what it was shown to be.       *)
DecidesAsShown(cp, shown) ==
  \A i \in Decided(cp) \cap DOMAIN shown :
    cp.decisions[i] = "accepted" => shown[i] = "accepted"
WholeInv ==
  /\ importer.step \in {"committed", "finalized", "saved"} /\ importer.clean =>
       Accepted(importer.shown) \subseteq active
  /\ importer.step \in {"finalized", "saved"} =>
       DecidesAsShown(importer.cp, importer.shown)

LEMMA FinalizedDecides ==
  ASSUME NEW cp, Sound(cp), NEW shown, NEW c \in Finalized(cp, shown)
  PROVE  DecidesAsShown(c, shown)
<1> DEFINE outcomes == FinalOutcomes(cp, shown)
           drift == Transitions(cp, outcomes)
           pending == Restrict(outcomes, DOMAIN outcomes \ Decided(cp))
<1>1. \A i \in DOMAIN outcomes \cap DOMAIN shown :
        outcomes[i] = "accepted" => shown[i] = "accepted"
  BY DEF FinalOutcomes, Proposed
<1>2. \/ c \in redecide(cp, outcomes)
      \/ drift = {} /\ (c = cp \/ c \in decide(cp, pending))
  BY DEF Finalized
<1>3. Decided(cp) \subseteq DOMAIN outcomes BY DEF FinalOutcomes, Proposed
<1>4. drift = {} => \A i \in Decided(cp) : outcomes[i] = cp.decisions[i]
  BY DEF Transitions
<1>5. \A i \in DOMAIN pending : i \in DOMAIN outcomes /\ pending[i] = outcomes[i]
  BY DEF Restrict
<1>6. IsCheckpoint(cp) BY SoundIsCheckpoint
<1> HIDE DEF outcomes, pending, drift
<1>7. CASE c \in redecide(cp, outcomes)
  <2>1. c.decisions = outcomes BY <1>6, <1>7, RedecideReplaces
  <2>. QED BY <1>1, <2>1 DEF DecidesAsShown, Decided
<1>8. CASE drift = {} /\ c = cp
  BY <1>1, <1>3, <1>4, <1>8 DEF DecidesAsShown
<1>9. CASE drift = {} /\ c \in decide(cp, pending)
  <2> DEFINE new == [i \in Decided(cp) \cup DOMAIN pending |->
                       IF i \in DOMAIN pending THEN pending[i] ELSE cp.decisions[i]]
  <2>1. c = [cp EXCEPT !.decisions = new] BY <1>9 DEF decide
  <2>2. \A i \in DOMAIN new : i \in DOMAIN outcomes /\ new[i] = outcomes[i]
    BY <1>3, <1>4, <1>5, <1>9
  <2> HIDE DEF new
  <2>3. c.decisions = new BY <1>6, <2>1 DEF IsCheckpoint, CheckpointFields
  <2>. QED BY <1>1, <2>2, <2>3 DEF DecidesAsShown, Decided
<1>. QED BY <1>2, <1>7, <1>8, <1>9

(* Writers and audits leave the importer and the policies alone.           *)
LEMMA WholeKeeps == CheckpointInv /\ TypesInv /\ WholeInv /\ [Next]_vars => WholeInv'
<1> SUFFICES ASSUME CheckpointInv, TypesInv, WholeInv, [Next]_vars PROVE WholeInv' OBVIOUS
<1>1. ASSUME UNCHANGED <<importer, active>> PROVE WholeInv' BY <1>1 DEF WholeInv
<1>2. ASSUME NEW w \in Writers, Write(w) PROVE WholeInv'
  BY <1>1, <1>2 DEF Write, Receive, ReadFile, SaveItems, SaveDetails, ReplayRecovery,
     SaveCheckpoint, Fail, Die
<1>3. CASE AuditRedecision BY <1>1, <1>3 DEF AuditRedecision
<1>4. CASE UNCHANGED vars BY <1>1, <1>4 DEF vars
<1>5. ASSUME importer'.step \in {"idle", "read", "replayed"} PROVE WholeInv'
  BY <1>5 DEF WholeInv
<1>6. ASSUME NEW limit, ReadDocuments(limit) PROVE WholeInv'
  BY <1>5, <1>6 DEF ReadDocuments
<1>7. CASE ReplayCheckpoint BY <1>5, <1>7 DEF ReplayCheckpoint
<1>8. ASSUME NEW stored, NEW clean, CommitPrograms(stored, clean) PROVE WholeInv'
  <2>1. importer' = [step |-> "committed", shown |-> importer.shown, clean |-> clean]
    BY <1>8, CommitSteps
  <2>2. clean => Accepted(importer.shown) \subseteq active' BY <1>8 DEF CommitPrograms
  <2>. QED BY <2>1, <2>2 DEF WholeInv
<1>9. CASE LoadAgain
  <2>1. importer.step = "committed" /\ file # None /\ active' = active
    BY <1>9 DEF LoadAgain
  <2>2. PICK cp \in Finalized(file, importer.shown) :
          importer' = [step |-> "finalized", cp |-> cp, shown |-> importer.shown,
                       clean |-> importer.clean]
    BY <1>9 DEF LoadAgain
  <2>3. DecidesAsShown(cp, importer.shown) BY <2>1, FinalizedDecides DEF TypesInv
  <2>. QED BY <2>1, <2>2, <2>3 DEF WholeInv
<1>10. CASE SaveFinal
  <2>1. /\ importer.step = "finalized"
        /\ importer' = [step |-> "saved", cp |-> importer.cp, shown |-> importer.shown,
                        clean |-> importer.clean]
    BY <1>10, SaveFinalSteps
  <2>2. active' = active BY <1>10 DEF SaveFinal
  <2>. QED BY <2>1, <2>2 DEF WholeInv
<1>11. CASE InactivateMissing \/ ImportEnds
  BY <1>5, <1>11 DEF InactivateMissing, ImportEnds, Resting
<1>. QED BY <1>2, <1>3, <1>4, <1>6, <1>7, <1>8, <1>9, <1>10, <1>11 DEF Next, Import

(* Whatever earlier imports left out, and whoever captures, audits, fails  *)
(* or dies meanwhile: an import that inactivates by its checkpoint as the  *)
(* whole source, and has read all the captures it names, has every policy  *)
(* it calls accepted active and on the list (import_runtime_raw,           *)
(* _regional_lifecycle_is_complete).                                       *)
THEOREM CompleteImportsAreWhole == Spec => []CompleteImportIsWhole
<1>1. Init => WholeInv BY DEF Init, Resting, WholeInv
<1>2. TypesInv /\ WholeInv => CompleteImportIsWhole
  <2> SUFFICES ASSUME TypesInv, WholeInv, importer.step = "saved",
                      LifecycleIsComplete(importer.cp, importer.clean),
                      Captured(importer.cp) \subseteq DOMAIN importer.shown,
                      NEW i \in Accepted(importer.cp.decisions)
               PROVE  i \in active /\ i \in Observed(importer.cp)
    BY DEF CompleteImportIsWhole
  <2>1. Sound(importer.cp) BY DEF TypesInv, ImporterTyped
  <2>2. i \in Decided(importer.cp) /\ importer.cp.decisions[i] = "accepted"
    BY DEF Accepted, Decided
  <2>3. i \in Captured(importer.cp) /\ i \in Discovered(importer.cp)
    BY <2>1, <2>2 DEF Sound, Valid
  <2>4. i \in Accepted(importer.shown)
    BY <2>2, <2>3 DEF WholeInv, DecidesAsShown, Accepted
  <2>5. importer.clean BY DEF LifecycleIsComplete
  <2>. QED BY <2>3, <2>4, <2>5 DEF WholeInv, Observed
<1>. QED BY <1>1, <1>2, WholeKeeps, CheckpointInvAlways, TypesAlways, PTL DEF Spec


-----------------------------------------------------------------------------
(* One process at a time: each action                                      *)

LEMMA InitAlone == Init => AloneInv
<1> SUFFICES ASSUME Init PROVE AloneInv OBVIOUS
<1>1. importer.step = "idle" BY DEF Init, Resting
<1>2. \A w \in Writers : task[w] = Idle BY DEF Init
<1>. QED BY <1>1, <1>2 DEF AloneInv

(* A process that starts is alone, or it is crowded from then on.          *)
LEMMA NobodyAtWork ==
  ASSUME StartsWork, ~crowded'
  PROVE  ~crowded /\ importer.step = "idle" /\ \A w \in Writers : task[w] = Idle
BY DEF StartsWork, AtWork

(* A writer that starts with the task t.                                   *)
LEMMA WriterStarts ==
  ASSUME CheckpointInv, AloneInv, StartsWork, NEW w \in Writers, NEW t,
         task' = [task EXCEPT ![w] = t], GoesOnFrom(t, file), UNCHANGED <<file, importer>>
  PROVE  AloneInv'
<1> SUFFICES ASSUME ~crowded' PROVE AloneInv' BY DEF AloneInv
<1>1. importer.step = "idle" /\ \A v \in Writers : task[v] = Idle BY NobodyAtWork
<1>2. DOMAIN task = Writers BY DEF CheckpointInv, WritersOK
<1>3. task'[w] = t /\ \A v \in Writers \ {w} : task'[v] = Idle BY <1>1, <1>2
<1>4. importer'.step = "idle" /\ file' = file BY <1>1
<1>5. \A u, v \in Writers : task'[u] # Idle /\ task'[v] # Idle => u = v BY <1>3
<1>6. \A v \in Writers : task'[v] # Idle => GoesOnFrom(task'[v], file') BY <1>3, <1>4
<1>. QED BY <1>4, <1>5, <1>6 DEF AloneInv

(* A writer that is at work goes over to the task t.                       *)
LEMMA WriterGoesOn ==
  ASSUME CheckpointInv, AloneInv, NEW w \in Writers, task[w] # Idle, NEW t,
         task' = [task EXCEPT ![w] = t], UNCHANGED <<importer, crowded>>,
         GoesOnFrom(task[w], file) => t = Idle \/ GoesOnFrom(t, file')
  PROVE  AloneInv'
<1> SUFFICES ASSUME ~crowded' PROVE AloneInv' BY DEF AloneInv
<1>1. /\ \A v \in Writers \ {w} : task[v] = Idle
      /\ importer.step = "idle" /\ GoesOnFrom(task[w], file)
  BY DEF AloneInv
<1>2. DOMAIN task = Writers BY DEF CheckpointInv, WritersOK
<1>3. task'[w] = t /\ \A v \in Writers \ {w} : task'[v] = Idle BY <1>1, <1>2
<1>4. importer'.step = "idle" BY <1>1
<1>5. \A u, v \in Writers : task'[u] # Idle /\ task'[v] # Idle => u = v BY <1>3
<1>6. \A v \in Writers : task'[v] # Idle => GoesOnFrom(task'[v], file') BY <1>1, <1>3
<1>. QED BY <1>4, <1>5, <1>6 DEF AloneInv

(* What is planned on the loaded checkpoint goes on from the file.         *)
LEMMA LoadedGoesOn ==
  ASSUME NEW cp, KeepsItsWord(Loaded, cp)
  PROVE  KeepsItsWord(file, cp)
BY DEF Loaded, KeepsItsWord

LEMMA ReceiveAlone ==
  ASSUME CheckpointInv, TypesInv, AloneInv, NEW w \in Writers, NEW kind \in Kinds \ {"file"},
         Receive(w, kind)
  PROVE  AloneInv'
<1>1. kind \in RequestKinds \ {"file"} BY CheckpointAssumption
<1>2. PICK p \in DOMAIN Pages : \E q \in Inputs(kind, p) : \E cp \in Plan(Loaded, q) :
        task' = [task EXCEPT ![w] = Storing(kind, <<Job(q.items, cp)>>)]
  BY DEF Receive
<1>3. PICK q \in Inputs(kind, p) : \E cp \in Plan(Loaded, q) :
        task' = [task EXCEPT ![w] = Storing(kind, <<Job(q.items, cp)>>)]
  BY <1>2
<1>4. PICK cp \in Plan(Loaded, q) :
        task' = [task EXCEPT ![w] = Storing(kind, <<Job(q.items, cp)>>)]
  BY <1>3
<1>5. IsRequest(q) /\ q.kind = kind BY <1>1, InputIsRequest
<1>6. Sound(Loaded) BY LoadedIsSound
<1>7. KeepsItsWord(file, cp) BY <1>1, <1>4, <1>5, <1>6, PlanIsSound, LoadedGoesOn
<1> DEFINE job == Job(q.items, cp)
           t == Storing(kind, <<job>>)
<1>8. kind = "recover" => Recovers(job, file)
  <2> SUFFICES ASSUME kind = "recover", file # None
               PROVE  /\ DOMAIN q.items \cap Captured(file) = {}
                      /\ cp.decisions = file.decisions
    BY DEF Recovers, Job
  <2>1. Loaded = file BY DEF Loaded
  <2>2. cp \in PlanRecover(file, q) BY <1>4, <1>5, <2>1 DEF Plan
  <2>3. DOMAIN q.items \cap Captured(file) = {} /\ cp \in capture(file, DOMAIN q.items)
    BY <2>2 DEF PlanRecover
  <2>. QED BY <1>6, <2>1, <2>3, CaptureIsSound
<1>9. job.cp = cp BY DEF Job
<1> HIDE DEF job
<1>10. GoesOnFrom(t, file)
  <2>1. t.kind = kind /\ t.jobs = <<job>> /\ t.step \in {"save", "items"}
    BY DEF Storing, Work
  <2>2. t.jobs[1] = job /\ 2 \notin DOMAIN t.jobs BY <2>1
  <2> HIDE DEF t
  <2>. QED BY <1>7, <1>8, <1>9, <2>1, <2>2 DEF GoesOnFrom
<1>11. task' = [task EXCEPT ![w] = t] BY <1>4 DEF job
<1> HIDE DEF t
<1>12. StartsWork /\ UNCHANGED <<file, importer>> BY DEF Receive
<1>. QED BY <1>10, <1>11, <1>12, WriterStarts

LEMMA ReadFileAlone ==
  ASSUME CheckpointInv, TypesInv, AloneInv, NEW w \in Writers, ReadFile(w)
  PROVE  AloneInv'
<1> DEFINE Planned(q1, c1, q2, c2) ==
             task' = [task EXCEPT ![w] =
                        Storing("file", <<Job(q1.items, c1), Job(q2.items, c2)>>)]
<1>1. PICK p1 \in DOMAIN Pages, p2 \in DOMAIN Pages :
        \E q1 \in Inputs("file", p1) : \E c1 \in PlanFile(Loaded, q1) :
        \E q2 \in Inputs("file", p2) : \E c2 \in PlanFile(c1, q2) : Planned(q1, c1, q2, c2)
  BY DEF ReadFile
<1>2. PICK q1 \in Inputs("file", p1) : \E c1 \in PlanFile(Loaded, q1) :
        \E q2 \in Inputs("file", p2) : \E c2 \in PlanFile(c1, q2) : Planned(q1, c1, q2, c2)
  BY <1>1
<1>3. PICK c1 \in PlanFile(Loaded, q1) :
        \E q2 \in Inputs("file", p2) : \E c2 \in PlanFile(c1, q2) : Planned(q1, c1, q2, c2)
  BY <1>2
<1>4. PICK q2 \in Inputs("file", p2) : \E c2 \in PlanFile(c1, q2) : Planned(q1, c1, q2, c2)
  BY <1>3
<1>5. PICK c2 \in PlanFile(c1, q2) : Planned(q1, c1, q2, c2) BY <1>4
<1>6. "file" \in RequestKinds BY DEF RequestKinds
<1>7. IsRequest(q1) /\ IsRequest(q2) BY <1>6, InputIsRequest
<1>8. Sound(c1) /\ KeepsItsWord(file, c1)
  BY <1>3, <1>7, LoadedIsSound, PlanFileIsSound, LoadedGoesOn
<1>9. KeepsItsWord(c1, c2) BY <1>5, <1>7, <1>8, PlanFileIsSound
<1> DEFINE t == Storing("file", <<Job(q1.items, c1), Job(q2.items, c2)>>)
<1>10. GoesOnFrom(t, file)
  <2>1. /\ t.kind = "file" /\ t.step = "items"
        /\ t.jobs[1].cp = c1 /\ t.jobs[2].cp = c2
    BY DEF Storing, Work, Job
  <2> HIDE DEF t
  <2>. QED BY <1>8, <1>9, <2>1 DEF GoesOnFrom
<1>11. task' = [task EXCEPT ![w] = t] BY <1>5
<1> HIDE DEF t
<1>12. StartsWork /\ UNCHANGED <<file, importer>> BY DEF ReadFile
<1>. QED BY <1>10, <1>11, <1>12, WriterStarts

(* Documents are stored.                                                   *)
LEMMA StoresAlone ==
  ASSUME CheckpointInv, TypesInv, AloneInv, NEW w \in Writers, SaveItems(w) \/ SaveDetails(w)
  PROVE  AloneInv'
<1> DEFINE old == task[w]
<1>1. /\ old.step \in {"items", "details"} /\ UNCHANGED <<file, importer, crowded>>
      /\ \/ task' = [task EXCEPT ![w] = Idle]
         \/ task' = [task EXCEPT ![w] = [old EXCEPT !.step = "details"]]
         \/ /\ old.kind = "recover"
            /\ task' = [task EXCEPT ![w] = [old EXCEPT !.step = "replay"]]
         \/ /\ old.kind # "recover"
            /\ task' = [task EXCEPT ![w] = [old EXCEPT !.step = "save"]]
  BY DEF SaveItems, SaveDetails, Goto
<1>2. old # Idle BY <1>1 DEF Idle
<1>3. ASSUME NEW step \in {"details", "replay", "save"},
             step = "replay" => old.kind = "recover", GoesOnFrom(old, file)
      PROVE  GoesOnFrom([old EXCEPT !.step = step], file)
  <2>1. [old EXCEPT !.step = step] = Work(step, old.kind, old.jobs, old.n)
    BY <1>2, StepOfWork
  <2> DEFINE t == Work(step, old.kind, old.jobs, old.n)
  <2>2. t.step = step /\ t.kind = old.kind /\ t.jobs = old.jobs BY DEF Work
  <2> HIDE DEF t
  <2>3. GoesOnFrom(t, file) BY <1>1, <1>3, <2>2 DEF GoesOnFrom
  <2>. QED BY <2>1, <2>3 DEF t
<1>4. PICK t : /\ task' = [task EXCEPT ![w] = t]
               /\ GoesOnFrom(old, file) => t = Idle \/ GoesOnFrom(t, file)
  BY <1>1, <1>3
<1>. QED BY <1>1, <1>2, <1>4, WriterGoesOn

LEMMA ReplayRecoveryAlone ==
  ASSUME CheckpointInv, TypesInv, AloneInv, NEW w \in Writers, ReplayRecovery(w)
  PROVE  AloneInv'
<1> DEFINE old == task[w]
           job == old.jobs[1]
<1>1. old.step = "replay" /\ UNCHANGED <<file, importer, crowded>> BY DEF ReplayRecovery
<1>2. old # Idle BY <1>1 DEF Idle
<1>3. Current(w) = job /\ JobTyped(job) BY <1>2, WorkingTypes
<1>4. PICK cp \in RecoveredOutcomes(w) :
        task' = [task EXCEPT ![w] = Work("save", "recover", <<Job(job.items, cp)>>, old.n)]
  BY <1>3 DEF ReplayRecovery
<1>5. PICK shown : cp \in reclassify_failed(job.cp, [i \in DOMAIN job.items |-> shown[i]])
  BY <1>3, <1>4 DEF RecoveredOutcomes
<1>6. Sound(job.cp) BY <1>3 DEF JobTyped
<1> DEFINE b == job.cp
           outcomes == [i \in DOMAIN job.items |-> shown[i]]
<1>7. /\ Sound(cp) /\ Decided(cp) = Decided(b)
      /\ cp.discovered_ids = b.discovered_ids /\ cp.captured_ids = b.captured_ids
      /\ cp.next_page = b.next_page /\ cp.discovery_complete = b.discovery_complete
      /\ \A i \in Decided(b) : \/ cp.decisions[i] = b.decisions[i]
                               \/ /\ i \in DOMAIN job.items /\ i \in Captured(b)
                                  /\ cp.decisions[i] \in {"review", "closed"}
  <2>1. DOMAIN outcomes = DOMAIN job.items OBVIOUS
  <2>2. cp \in reclassify_failed(b, outcomes) BY <1>5
  <2>3. Sound(b) BY <1>6
  <2> HIDE DEF outcomes, b
  <2>. QED BY <2>1, <2>2, <2>3, ReclassifyIsSound
<1> DEFINE t == Work("save", "recover", <<Job(job.items, cp)>>, old.n)
<1>8. ASSUME GoesOnFrom(old, file) PROVE KeepsItsWord(file, cp)
  <2> SUFFICES ASSUME file # None PROVE KeepsItsWord(file, cp) BY DEF KeepsItsWord
  <2>1. /\ KeepsItsWord(file, b) /\ DOMAIN job.items \cap Captured(file) = {}
        /\ b.decisions = file.decisions
    BY <1>1, <1>8 DEF GoesOnFrom, Recovers
  <2>2. Keeps(file, b) /\ KeepsRound(file, b) BY <2>1 DEF KeepsItsWord
  <2> HIDE DEF b
  <2>3. cp # None BY <1>7, SoundParts
  <2>4. Keeps(file, cp) BY <1>7, <2>2 DEF Keeps
  <2>5. KeepsRound(file, cp) BY <1>7, <2>2 DEF KeepsRound, Complete
  <2>6. RecoversFailures(file, cp)
    BY <1>7, <2>1 DEF RecoversFailures, Decided, Captured
  <2>. QED BY <2>3, <2>4, <2>5, <2>6 DEF KeepsItsWord
<1>9. ASSUME GoesOnFrom(old, file) PROVE GoesOnFrom(t, file)
  <2>1. KeepsItsWord(file, cp) BY <1>8, <1>9
  <2>2. /\ t.step = "save" /\ t.kind = "recover" /\ t.jobs[1].cp = cp
        /\ 2 \notin DOMAIN t.jobs
    BY DEF Work, Job
  <2> HIDE DEF t
  <2>. QED BY <2>1, <2>2 DEF GoesOnFrom
<1>10. task' = [task EXCEPT ![w] = t] BY <1>4
<1> HIDE DEF t
<1>. QED BY <1>1, <1>2, <1>9, <1>10, WriterGoesOn

LEMMA SaveCheckpointAlone ==
  ASSUME CheckpointInv, TypesInv, AloneInv, NEW w \in Writers, SaveCheckpoint(w)
  PROVE  AloneInv'
<1> DEFINE old == task[w]
<1>1. /\ old.step = "save" /\ file' = Current(w).cp /\ UNCHANGED <<importer, crowded>>
      /\ task' = IF Len(old.jobs) = 1 THEN [task EXCEPT ![w] = Idle]
                 ELSE [task EXCEPT ![w] =
                         Work("items", "file", Tail(old.jobs), old.n + 1)]
  BY DEF SaveCheckpoint
<1>2. old # Idle BY <1>1 DEF Idle
<1>3. Current(w) = old.jobs[1] /\ TaskForm(old) BY <1>2, WorkingTask
<1>4. CASE Len(old.jobs) = 1
  BY <1>1, <1>2, <1>4, WriterGoesOn
<1>5. CASE Len(old.jobs) # 1
  <2>1. old.jobs = <<old.jobs[1], old.jobs[2]>> BY <1>3, <1>5 DEF TaskForm
  <2>2. 2 \in DOMAIN old.jobs /\ Tail(old.jobs) = <<old.jobs[2]>>
    <3>1. \A a, b : 2 \in DOMAIN <<a, b>> /\ Tail(<<a, b>>) = <<b>> OBVIOUS
    <3>. QED BY <2>1, <3>1
  <2> DEFINE t == Work("items", "file", <<old.jobs[2]>>, old.n + 1)
  <2>3. /\ t.step = "items" /\ t.kind = "file" /\ t.jobs[1] = old.jobs[2]
        /\ 2 \notin DOMAIN t.jobs
    BY DEF Work
  <2>4. task' = [task EXCEPT ![w] = t] BY <1>1, <1>5, <2>2
  <2> HIDE DEF t
  <2>5. ASSUME GoesOnFrom(old, file) PROVE GoesOnFrom(t, file')
    BY <1>1, <1>3, <2>2, <2>3, <2>5 DEF GoesOnFrom
  <2>. QED BY <1>1, <1>2, <2>4, <2>5, WriterGoesOn
<1>. QED BY <1>4, <1>5

LEMMA EndAlone ==
  ASSUME CheckpointInv, AloneInv, NEW w \in Writers, Fail(w) \/ Die(w)
  PROVE  AloneInv'
<1>1. /\ task[w] # Idle /\ task' = [task EXCEPT ![w] = Idle]
      /\ UNCHANGED <<importer, crowded>>
  BY DEF Fail, Die
<1>. QED BY <1>1, WriterGoesOn

LEMMA WriteAlone ==
  ASSUME CheckpointInv, TypesInv, AloneInv, NEW w \in Writers, Write(w)
  PROVE  AloneInv'
BY ReceiveAlone, ReadFileAlone, StoresAlone, ReplayRecoveryAlone, SaveCheckpointAlone,
   EndAlone DEF Write

(* A step of the importer at work.                                         *)
LEMMA ImporterAlone ==
  ASSUME AloneInv, importer.step # "idle", UNCHANGED <<task, crowded>>,
         importer'.step = "finalized" => KeepsItsWord(file', importer'.cp),
         importer'.step = "saved" => file' = importer'.cp
  PROVE  AloneInv'
<1> SUFFICES ASSUME ~crowded' PROVE AloneInv' BY DEF AloneInv
<1>1. \A w \in Writers : task'[w] = Idle BY DEF AloneInv
<1>. QED BY <1>1 DEF AloneInv

LEMMA ImportAlone ==
  ASSUME CheckpointInv, TypesInv, AloneInv, Import \/ AuditRedecision
  PROVE  AloneInv'
<1>1. ASSUME NEW limit \in Limits, ReadDocuments(limit) PROVE AloneInv'
  <2> SUFFICES ASSUME ~crowded' PROVE AloneInv' BY DEF AloneInv
  <2>1. StartsWork /\ task' = task /\ importer'.step = "read" BY <1>1 DEF ReadDocuments
  <2>2. \A w \in Writers : task'[w] = Idle BY <2>1, NobodyAtWork
  <2>. QED BY <2>1, <2>2 DEF AloneInv
<1>2. CASE ReplayCheckpoint BY <1>2, ImporterAlone DEF ReplayCheckpoint
<1>3. ASSUME NEW stored, NEW clean, CommitPrograms(stored, clean) PROVE AloneInv'
  <2>1. importer.step = "replayed" /\ importer'.step = "committed" BY <1>3, CommitSteps
  <2>2. UNCHANGED <<file, task, crowded>> BY <1>3 DEF CommitPrograms
  <2>. QED BY <2>1, <2>2, ImporterAlone
<1>4. CASE LoadAgain
  <2>1. importer.step = "committed" /\ file # None /\ UNCHANGED <<file, task, crowded>>
    BY <1>4 DEF LoadAgain
  <2>2. PICK cp \in Finalized(file, importer.shown) :
          importer' = [step |-> "finalized", cp |-> cp, shown |-> importer.shown,
                       clean |-> importer.clean]
    BY <1>4 DEF LoadAgain
  <2>3. importer.shown \in Decisions /\ Sound(file)
    BY <2>1 DEF ImporterTyped, TypesInv
  <2>4. KeepsItsWord(file, cp) BY <2>3, FinalizedIsSound
  <2>5. importer'.step = "finalized" /\ importer'.cp = cp BY <2>2
  <2>. QED BY <2>1, <2>4, <2>5, ImporterAlone
<1>5. CASE SaveFinal
  <2>1. importer.step = "finalized" /\ file' = importer.cp /\ UNCHANGED <<task, crowded>>
    BY <1>5 DEF SaveFinal
  <2>3. importer'.step = "saved" /\ importer'.cp = importer.cp BY <1>5, SaveFinalSteps
  <2>. QED BY <2>1, <2>3, ImporterAlone
<1>6. CASE InactivateMissing \/ ImportEnds
  <2>1. importer'.step = "idle" /\ UNCHANGED <<file, task, crowded>>
    BY <1>6 DEF InactivateMissing, ImportEnds, Resting
  <2>. QED BY <2>1 DEF AloneInv
<1>7. CASE AuditRedecision
  <2>1. UNCHANGED <<file, task, importer, crowded>> BY <1>7 DEF AuditRedecision
  <2>. QED BY <2>1 DEF AloneInv
<1>. QED BY <1>1, <1>2, <1>3, <1>4, <1>5, <1>6, <1>7 DEF Import

LEMMA AloneKeeps == CheckpointInv /\ TypesInv /\ AloneInv /\ [Next]_vars => AloneInv'
<1> SUFFICES ASSUME CheckpointInv, TypesInv, AloneInv, [Next]_vars PROVE AloneInv' OBVIOUS
<1>1. CASE Next BY <1>1, WriteAlone, ImportAlone DEF Next
<1>2. CASE UNCHANGED vars BY <1>2 DEF vars, AloneInv
<1>. QED BY <1>1, <1>2

LEMMA AloneAlways == Spec => []AloneInv
  BY InitAlone, AloneKeeps, CheckpointInvAlways, TypesAlways, PTL DEF Spec

(* A step that replaces the file writes what goes on from it.              *)
LEMMA FileKeepsItsWord ==
  ASSUME CheckpointInv, TypesInv, AloneInv, Next, ~crowded, file' # file
  PROVE  KeepsItsWord(file, file')
<1>1. ASSUME NEW w \in Writers, Write(w) PROVE KeepsItsWord(file, file')
  <2>1. SaveCheckpoint(w)
    BY <1>1 DEF Write, Receive, ReadFile, SaveItems, SaveDetails, ReplayRecovery, Fail, Die
  <2>2. task[w] # Idle /\ file' = Current(w).cp BY <2>1 DEF SaveCheckpoint, Idle
  <2>3. Current(w) = task[w].jobs[1] BY <2>2, WorkingTask
  <2>. QED BY <2>2, <2>3 DEF AloneInv, GoesOnFrom
<1>2. ASSUME Import PROVE KeepsItsWord(file, file')
  <2>1. SaveFinal
    BY <1>2 DEF Import, ReadDocuments, ReplayCheckpoint, CommitPrograms, LoadAgain,
       InactivateMissing, ImportEnds
  <2>. QED BY <2>1 DEF SaveFinal, AloneInv
<1>3. ~AuditRedecision BY DEF AuditRedecision
<1>. QED BY <1>1, <1>2, <1>3 DEF Next

(* As long as no two processes have been at work at once, the checkpoint   *)
(* file loses nothing of what it says, whatever operations follow each     *)
(* other and wherever one fails or is killed.                              *)
THEOREM CheckpointKeepsItsWord == Spec => NothingIsForgotten
<1>1. CheckpointInv /\ TypesInv /\ AloneInv /\ [Next]_vars =>
        [~crowded => KeepsItsWord(file, file')]_file
  BY FileKeepsItsWord DEF vars
<1>. QED BY <1>1, CheckpointInvAlways, TypesAlways, AloneAlways, PTL
     DEF Spec, NothingIsForgotten

(* A step that ends policies ends those a complete list does not have.     *)
LEMMA EndsOnlyUnseen ==
  ASSUME AloneInv, Next, ~crowded, active' # active
  PROVE  EndsUnseenPolicies
<1>1. CASE \E w \in Writers : Write(w)
  BY <1>1 DEF Write, Receive, ReadFile, SaveItems, SaveDetails, ReplayRecovery,
     SaveCheckpoint, Fail, Die
<1>2. CASE AuditRedecision BY <1>2 DEF AuditRedecision
<1>3. CASE Import
  <2>1. InactivateMissing \/ \E stored, clean : CommitPrograms(stored, clean)
    BY <1>3 DEF Import, ReadDocuments, ReplayCheckpoint, LoadAgain, SaveFinal, ImportEnds
  <2>2. ASSUME NEW stored, NEW clean, CommitPrograms(stored, clean) PROVE EndsUnseenPolicies
    BY <2>2 DEF CommitPrograms, EndsUnseenPolicies
  <2>3. CASE InactivateMissing
    <3>1. importer.step = "saved" /\ file = importer.cp
      BY <2>3 DEF InactivateMissing, AloneInv
    <3>2. active' = IF LifecycleIsComplete(file, importer.clean)
                    THEN active \cap Observed(file) ELSE active
      BY <2>3, <3>1 DEF InactivateMissing
    <3>. QED BY <3>2 DEF EndsUnseenPolicies, LifecycleIsComplete, Observed
  <2>. QED BY <2>1, <2>2, <2>3
<1>. QED BY <1>1, <1>2, <1>3 DEF Next

(* As long as no two processes have been at work at once, an import ends   *)
(* no policy that the completed list has, and none while an identity of    *)
(* the list has failed (_regional_lifecycle_is_complete).                  *)
THEOREM InactivatedWereUnseen == Spec => OnlyUnseenPoliciesEnd
<1>1. AloneInv /\ [Next]_vars => [~crowded => EndsUnseenPolicies]_active
  BY EndsOnlyUnseen DEF vars
<1>. QED BY <1>1, AloneAlways, PTL DEF Spec, OnlyUnseenPoliciesEnd


-----------------------------------------------------------------------------
(***************************************************************************)
(* HttpTraversal.  What it keeps of the documents, then of the file.       *)
(***************************************************************************)

\* The documents a failing batch does not take back.
Kept == IF run.step = "save batch" THEN {d \in raw : d.capture # made} ELSE raw

\* What is captured has its documents, and what is about to be written goes on
\* from the file.
WalkDocsInv ==
  /\ made \in Nat /\ DocsOK(raw, made)
  /\ \A d \in raw : d.role \in {"list_response", "list_item", "detail_response"}
  /\ file # None => \A i \in Captured(file) : Backs(Kept, i)
  /\ run # NotRunning =>
       /\ \A i \in Captured(run.cp) : Backs(raw, i)
       /\ run.step \in {"save page", "save batch"} /\ file # None =>
            KeepsItsWord(file, run.cp)

-----------------------------------------------------------------------------
(* The inductive invariant *)

\* Until the list was seen to its end, the checkpoint has whole pages of it.
HasWholePages(cp) ==
  ~cp.discovery_complete => Len(cp.discovered_ids) = (cp.next_page - 1) * PageSize

\* What the script builds and loads; it decides nothing.
WalkedCheckpoint(cp) ==
  /\ cp = [x \in CheckpointFields |-> cp[x]]
  /\ Valid(cp) /\ HasWholePages(cp)
  /\ cp.next_page \in Nat \ {0} /\ cp.total_count \in Nat \cup {None}
  /\ cp.discovery_complete \in BOOLEAN
  /\ cp.discovered_ids \in Seq(Identities) /\ cp.captured_ids \in Seq(Identities)
  /\ cp.decisions = <<>>

\* The sequence starts the longer one, position by position.
Starts(short, long) ==
  /\ Len(short) <= Len(long)
  /\ \A k \in 1 .. Len(short) : short[k] = long[k]

\* The pages run r has walked are the first ones of its checkpoint, and whole
\* unless the last one ends the list.
WalksTheCheckpoint(r) ==
  /\ Starts(r.seen, r.cp.discovered_ids)
  /\ r.step = "page" => Len(r.seen) = (r.page - 1) * PageSize
  /\ r.step # "page" =>
       /\ r.total \in Nat
       /\ HasNext(r.seen, r.total) => /\ Len(r.seen) = r.page * PageSize
                                      /\ r.page < SafetyPages

\* Between two requests the file on disk has what the script has.
FileIsCurrent(r, disk) ==
  /\ r.step = "page" => disk = r.cp \/ (disk = None /\ r.cp = initial)
  /\ r.step \in {"details", "completed"} => disk = r.cp
  /\ r.step = "completed" => IsWhole(r.cp)

Steps == {"page", "save page", "details", "save batch", "completed"}
RunIsSound(r, disk) ==
  /\ r = [step |-> r.step, page |-> r.page, seen |-> r.seen, total |-> r.total, cp |-> r.cp]
  /\ r.step \in Steps
  /\ r.page \in 1 .. SafetyPages
  /\ r.seen \in Seq(Identities) /\ IsInjective(r.seen)
  /\ WalkedCheckpoint(r.cp)
  /\ WalksTheCheckpoint(r) /\ FileIsCurrent(r, disk)

WalkInv ==
  /\ listing \in Lists /\ changes \in 0 .. MaxChanges /\ runs \in 0 .. MaxRuns
  /\ file # None => WalkedCheckpoint(file)
  /\ run # NotRunning => RunIsSound(run, file)

-----------------------------------------------------------------------------
(* Sequences *)

(* All identities of a page in the order of the page are the page.         *)
LEMMA WholeInOrder ==
  ASSUME NEW S, NEW ids \in Seq(S), IsInjective(ids), NEW s \in InOrder(ids, ToSet(ids))
  PROVE  s = ids
<1> DEFINE n == Len(ids)
<1>1. n \in Nat /\ DOMAIN ids = 1 .. n /\ Cardinality(ToSet(ids)) = n
  BY LengthIsCount
<1>2. s \in [1 .. n -> ToSet(ids)]
  BY <1>1 DEF InOrder
<1>3. \A k, m \in 1 .. n : k < m =>
        \E i, j \in 1 .. n : i < j /\ ids[i] = s[k] /\ ids[j] = s[m]
  <2>1. \A k, m \in DOMAIN s : k < m =>
          \E i, j \in DOMAIN ids : i < j /\ ids[i] = s[k] /\ ids[j] = s[m]
    BY DEF InOrder
  <2>. QED BY <1>1, <1>2, <2>1
<1> HIDE DEF n
<1> DEFINE p == [k \in 1 .. n |-> CHOOSE i \in 1 .. n : ids[i] = s[k]]
<1>4. ASSUME NEW k \in 1 .. n PROVE p[k] \in 1 .. n /\ ids[p[k]] = s[k]
  <2>1. \E i \in 1 .. n : ids[i] = s[k] BY <1>1, <1>2 DEF ToSet
  <2>. QED BY <2>1
<1>5. \A i, j \in 1 .. n : ids[i] = ids[j] => i = j BY <1>1 DEF IsInjective
<1>6. p \in [1 .. n -> 1 .. n]
  <2>1. p = [k \in 1 .. n |-> p[k]] OBVIOUS
  <2> HIDE DEF p
  <2>. QED BY <1>4, <2>1
<1> HIDE DEF p
<1>7. ASSUME NEW k \in 1 .. n, NEW m \in 1 .. n, k < m PROVE p[k] < p[m]
  <2>1. PICK i, j \in 1 .. n : i < j /\ ids[i] = s[k] /\ ids[j] = s[m] BY <1>3, <1>7
  <2>2. i = p[k] /\ j = p[m] BY <1>4, <1>5, <2>1
  <2>. QED BY <2>1, <2>2
<1>8. \A k \in 1 .. n : p[k] = k BY <1>1, <1>6, <1>7, GrowingIsIdentity
<1>9. \A k \in 1 .. n : s[k] = ids[k] BY <1>4, <1>8
<1>10. s \in Seq(S) /\ Len(s) = n
  <2>1. ToSet(ids) \subseteq S BY ElementsAreFinite
  <2>. QED BY <1>1, <1>2, <2>1
<1>. QED BY <1>9, <1>10, SeqEqual DEF n

-----------------------------------------------------------------------------
(* Pages *)

LEMMA ListsAreSequences ==
  ASSUME NEW list \in Lists
  PROVE  list \in Seq(Identities) /\ Len(list) \in Nat
<1>1. list \in Seq(ToSet(list)) /\ ToSet(list) \subseteq Identities
  BY TraversalAssumption DEF Identities
<1>. QED BY <1>1, SeqMonotonic

(* Where a page begins and ends.                                           *)
LEMMA PagesFollow ==
  ASSUME NEW page \in Nat \ {0}
  PROVE  /\ (page - 1) * PageSize \in Nat
         /\ page * PageSize = (page - 1) * PageSize + PageSize
         /\ (page + 1 - 1) * PageSize = page * PageSize
  BY TraversalAssumption

(* A page of the list, and how far the list is seen with it.               *)
LEMMA PageIsOfTheList ==
  ASSUME listing \in Lists, NEW page \in Nat \ {0}, PageOf(page) # <<>>
  PROVE  LET ids == PageOf(page)
             from == (page - 1) * PageSize
         IN /\ ids \in Seq(Identities) /\ Len(ids) \in 1 .. PageSize
            /\ from + Len(ids) <= Len(listing)
            /\ from + Len(ids) < Len(listing) => from + Len(ids) = page * PageSize
<1> DEFINE from == (page - 1) * PageSize
           to == IF page * PageSize < Len(listing) THEN page * PageSize ELSE Len(listing)
<1>1. listing \in Seq(Identities) /\ Len(listing) \in Nat BY ListsAreSequences
<1>2. from \in Nat /\ page * PageSize = from + PageSize /\ PageSize \in Nat \ {0}
  BY PagesFollow, TraversalAssumption
<1>3. PageOf(page) = SubSeq(listing, from + 1, to) BY DEF PageOf
<1>4. to \in Nat /\ to <= Len(listing) /\ to <= from + PageSize
      /\ (to < Len(listing) => to = page * PageSize)
  BY <1>1, <1>2
<1> HIDE DEF from, to
<1>5. from + 1 <= to
  <2>1. SUFFICES ASSUME to < from + 1 PROVE FALSE BY <1>2, <1>4
  <2>2. SubSeq(listing, from + 1, to) = <<>> BY <1>2, <1>4, <2>1, SubSeqEmpty
  <2>. QED BY <1>3, <2>2
<1>6. \A i \in from + 1 .. to : listing[i] \in Identities
  <2>1. \A i \in from + 1 .. to : i \in 1 .. Len(listing) BY <1>1, <1>2, <1>4
  <2>. QED BY <1>1, <2>1, ElementOfSeq
<1>7. /\ SubSeq(listing, from + 1, to) \in Seq(Identities)
      /\ Len(SubSeq(listing, from + 1, to)) = to - (from + 1) + 1
  <2>1. from + 1 \in Int /\ to \in Int BY <1>2, <1>4
  <2>. QED BY <1>5, <1>6, <2>1, SubSeqProperties
<1>8. to - (from + 1) + 1 = to - from /\ to - from \in 1 .. PageSize
  BY <1>2, <1>4, <1>5
<1>9. /\ PageOf(page) \in Seq(Identities) /\ Len(PageOf(page)) \in 1 .. PageSize
      /\ from + Len(PageOf(page)) = to
  BY <1>2, <1>3, <1>4, <1>7, <1>8
<1>. QED BY <1>4, <1>9 DEF from

(* A sequence that starts another of its length is the other.              *)
LEMMA StartsOfOneLength ==
  ASSUME NEW s \in Seq(Identities), NEW t \in Seq(Identities), Starts(s, t), Len(s) = Len(t)
  PROVE  s = t
  BY SeqEqual DEF Starts

LEMMA StartsIsPrefix ==
  ASSUME NEW s \in Seq(Identities), NEW t \in Seq(Identities), Starts(s, t)
  PROVE  IsPrefix(s, t)
<1> DEFINE u == SubSeq(t, 1, Len(s))
<1>1. Len(s) \in Nat /\ Len(t) \in Nat /\ Len(s) <= Len(t) BY DEF Starts
<1>2. u \in Seq(Identities) /\ Len(u) = Len(s) /\ \A i \in 1 .. Len(s) : u[i] = t[i]
  <2>1. \A i \in 1 .. Len(s) : t[i] \in Identities
    <3>1. \A i \in 1 .. Len(s) : i \in 1 .. Len(t) BY <1>1
    <3>. QED BY <3>1, ElementOfSeq
  <2>2. /\ u \in Seq(Identities) /\ Len(u) = IF 1 <= Len(s) THEN Len(s) - 1 + 1 ELSE 0
        /\ \A i \in 1 .. Len(s) - 1 + 1 : u[i] = t[1 + i - 1]
    <3>1. 1 \in Int /\ Len(s) \in Int BY <1>1
    <3>. QED BY <2>1, <3>1, SubSeqProperties
  <2>3. Len(s) - 1 + 1 = Len(s) /\ \A i \in 1 .. Len(s) : 1 + i - 1 = i BY <1>1
  <2>. HIDE DEF u
  <2>. QED BY <1>1, <2>2, <2>3
<1> HIDE DEF u
<1>3. u = s BY <1>1, <1>2, SeqEqual DEF Starts
<1>4. SubSeq(s, 1, Len(s)) = s BY SubSeqFull
<1>. QED BY <1>1, <1>3, <1>4 DEF IsPrefix, u

(* What starts a sequence goes on to when both are made longer by the same.*)
LEMMA StartsLonger ==
  ASSUME NEW s \in Seq(Identities), NEW ids \in Seq(Identities), NEW t \in Seq(Identities),
         Starts(s, t), Len(s) + Len(ids) <= Len(t),
         \A i \in 1 .. Len(ids) : ids[i] = t[Len(s) + i]
  PROVE  Starts(s \o ids, t)
<1>1. /\ Len(s \o ids) = Len(s) + Len(ids)
      /\ \A i \in 1 .. Len(s) + Len(ids) :
           (s \o ids)[i] = IF i <= Len(s) THEN s[i] ELSE ids[i - Len(s)]
  BY ConcatProperties
<1>2. Len(s) \in Nat /\ Len(ids) \in Nat OBVIOUS
<1>3. ASSUME NEW i \in 1 .. Len(s) + Len(ids)
      PROVE  (IF i <= Len(s) THEN s[i] ELSE ids[i - Len(s)]) = t[i]
  <2>1. CASE i <= Len(s) BY <1>2, <2>1 DEF Starts
  <2>2. CASE ~(i <= Len(s))
    <3>1. i - Len(s) \in 1 .. Len(ids) /\ Len(s) + (i - Len(s)) = i BY <1>2, <2>2
    <3>. QED BY <2>2, <3>1
  <2>. QED BY <2>1, <2>2
<1>. QED BY <1>1, <1>3 DEF Starts

(* A non-empty slice of t right after the part s, cut where t ends.        *)
LEMMA StartsWithSlice ==
  ASSUME NEW s \in Seq(Identities), NEW ids \in Seq(Identities), NEW t \in Seq(Identities),
         NEW next, next = s \o ids, Len(next) = Len(s) + Len(ids),
         ids # <<>>, Starts(s, t),
         NEW to, to = IF Len(next) < Len(t) THEN Len(next) ELSE Len(t),
         ids = SubSeq(t, Len(s) + 1, to)
  PROVE  Starts(next, t)
<1>1. /\ Len(s) \in Nat /\ Len(ids) \in Nat /\ Len(t) \in Nat /\ Len(next) \in Nat
      /\ Len(ids) > 0 /\ Len(s) <= Len(t)
  <2>1. Len(s) \in Nat /\ Len(ids) \in Nat /\ Len(t) \in Nat OBVIOUS
  <2>2. Len(ids) # 0 BY EmptySeq
  <2>. QED BY <2>1, <2>2 DEF Starts
<1>2. to \in Nat /\ to <= Len(t) /\ to <= Len(next) BY <1>1
<1>4. \A i \in Len(s) + 1 .. to : t[i] \in Identities
  <2>1. \A i \in Len(s) + 1 .. to : i \in 1 .. Len(t) BY <1>1, <1>2
  <2>. QED BY <2>1, ElementOfSeq
<1>5. /\ Len(ids) = IF Len(s) + 1 <= to THEN to - (Len(s) + 1) + 1 ELSE 0
      /\ \A i \in 1 .. to - (Len(s) + 1) + 1 : ids[i] = t[Len(s) + 1 + i - 1]
  <2>1. Len(s) + 1 \in Int /\ to \in Int BY <1>1, <1>2
  <2>2. /\ Len(SubSeq(t, Len(s) + 1, to)) = IF Len(s) + 1 <= to THEN to - (Len(s) + 1) + 1 ELSE 0
        /\ \A i \in 1 .. to - (Len(s) + 1) + 1 :
             SubSeq(t, Len(s) + 1, to)[i] = t[Len(s) + 1 + i - 1]
    BY <1>4, <2>1, SubSeqProperties
  <2>. QED BY <2>2
<1>6. Len(s) + Len(ids) = to /\ to - (Len(s) + 1) + 1 = Len(ids)
  <2>1. Len(s) + 1 <= to BY <1>1, <1>5
  <2>2. Len(ids) = to - (Len(s) + 1) + 1 BY <1>5, <2>1
  <2>. QED BY <1>1, <1>2, <2>2
<1>7. \A i \in 1 .. Len(ids) : Len(s) + 1 + i - 1 = Len(s) + i BY <1>1
<1>8. \A i \in 1 .. Len(ids) : ids[i] = t[Len(s) + i] BY <1>5, <1>6, <1>7
<1>9. Len(s) + Len(ids) <= Len(t) BY <1>2, <1>6
<1>. QED BY <1>8, <1>9, StartsLonger

-----------------------------------------------------------------------------
(* Operations of the checkpoint *)

(* A checkpoint of the script is one, and has decided nothing.             *)
LEMMA WalkedIsACheckpoint ==
  ASSUME NEW cp, WalkedCheckpoint(cp)
  PROVE  cp # None /\ Decided(cp) = {}
<1>1. cp = [next_page |-> cp.next_page, total_count |-> cp.total_count,
            discovery_complete |-> cp.discovery_complete,
            discovered_ids |-> cp.discovered_ids, captured_ids |-> cp.captured_ids,
            decisions |-> cp.decisions]
  BY DEF WalkedCheckpoint, CheckpointFields
<1>2. cp \in Undecided BY <1>1 DEF WalkedCheckpoint, Undecided
<1>3. DOMAIN <<>> = {} OBVIOUS
<1>. QED BY <1>2, <1>3, TraversalAssumption DEF WalkedCheckpoint, Decided

(* Where nothing is decided, the lists decide what a checkpoint keeps.     *)
LEMMA KeepsWithoutDecisions ==
  ASSUME NEW old, NEW new, Decided(old) = {}, WalkedCheckpoint(new),
         IsPrefix(old.discovered_ids, new.discovered_ids),
         IsPrefix(old.captured_ids, new.captured_ids), old.next_page <= new.next_page,
         Complete(old) => Complete(new) /\ new.discovered_ids = old.discovered_ids
  PROVE  KeepsItsWord(old, new)
  BY WalkedIsACheckpoint DEF KeepsItsWord, Keeps, KeepsRound, RecoversFailures

(* A page that comes next is added whole, after the ones before it.        *)
LEMMA WalkDiscovers ==
  ASSUME NEW cp, WalkedCheckpoint(cp), NEW seen \in Seq(Identities),
         Starts(seen, cp.discovered_ids),
         NEW page \in Nat \ {0}, Len(seen) = (page - 1) * PageSize,
         NEW ids \in Seq(Identities), Len(ids) \in 1 .. PageSize,
         ToSet(ids) \cap ToSet(seen) = {}, NEW total \in Nat,
         Len(seen) + Len(ids) < total => Len(seen) + Len(ids) = page * PageSize,
         NEW c \in discover(cp, [page |-> page, ids |-> ids, total_count |-> total,
                                 has_next |-> HasNext(seen \o ids, total)])
  PROVE  /\ WalkedCheckpoint(c) /\ c.discovered_ids = seen \o ids /\ c # cp
         /\ c.captured_ids = cp.captured_ids /\ KeepsItsWord(cp, c)
<1> DEFINE q == [page |-> page, ids |-> ids, total_count |-> total,
                 has_next |-> HasNext(seen \o ids, total)]
<1>1. q.page = page /\ q.ids = ids /\ q.total_count = total
      /\ q.has_next = HasNext(seen \o ids, total)
  OBVIOUS
<1> HIDE DEF q
<1>2. c \in discover(cp, q) BY DEF q
<1>3. /\ ~cp.discovery_complete /\ page = cp.next_page /\ IsInjective(ids)
      /\ total >= Found(cp, q)
      /\ ~q.has_next => Found(cp, q) = total
      /\ TotalWith(cp, q) = total /\ total # None
  <2>1. total # None BY TraversalAssumption
  <2>. QED BY <1>1, <1>2, <2>1 DEF discover, TotalWith
<1> DEFINE done == ~q.has_next
<1>s. PICK s \in InOrder(ids, Fresh(cp, q)) :
        c = [cp EXCEPT !.next_page = @ + 1, !.total_count = TotalWith(cp, q),
                       !.discovery_complete = done, !.discovered_ids = @ \o s]
  BY <1>1, <1>2 DEF discover
<1> HIDE DEF done
<1>4. seen = cp.discovered_ids
  <2>1. cp.discovered_ids \in Seq(Identities) /\ Len(cp.discovered_ids) = Len(seen)
    BY <1>3 DEF WalkedCheckpoint, HasWholePages
  <2>. QED BY <2>1, StartsOfOneLength
<1>5. Fresh(cp, q) = ToSet(ids) BY <1>1, <1>4 DEF Fresh, Discovered
<1>6. s = ids BY <1>3, <1>5, WholeInOrder
<1>7. /\ seen \o ids \in Seq(Identities) /\ Len(seen \o ids) = Len(seen) + Len(ids)
      /\ IsInjective(seen \o ids)
      /\ ToSet(seen \o ids) = ToSet(seen) \cup ToSet(ids)
  <2>1. IsInjective(seen) BY <1>4 DEF WalkedCheckpoint, Valid
  <2>2. ToSet(seen) \cap ToSet(ids) = {} OBVIOUS
  <2>3. seen \in Seq(Identities) /\ ids \in Seq(Identities) /\ IsInjective(ids) BY <1>3
  <2>. QED BY ONLY <2>1, <2>2, <2>3, ConcatIsInjective
<1>8. Found(cp, q) = Len(seen \o ids)
  <2>1. Cardinality(ToSet(ids)) = Len(ids) BY <1>3, LengthIsCount
  <2>. QED BY <1>4, <1>5, <1>7, <2>1 DEF Found
<1> DEFINE next == seen \o ids
<1>9. c = [cp EXCEPT !.next_page = page + 1, !.total_count = total,
                     !.discovery_complete = done, !.discovered_ids = next,
                     !.captured_ids = cp.captured_ids]
  <2>1. cp = [x \in CheckpointFields |-> cp[x]] BY DEF WalkedCheckpoint
  <2>. QED BY <1>3, <1>4, <1>s, <1>6, <2>1 DEF CheckpointFields
<1> HIDE DEF next
<1>10. /\ c = [x \in CheckpointFields |-> c[x]]
       /\ c.next_page = page + 1 /\ c.total_count = total
       /\ c.discovery_complete = done /\ c.discovered_ids = next
       /\ c.captured_ids = cp.captured_ids /\ c.decisions = cp.decisions
  <2>1. cp = [x \in CheckpointFields |-> cp[x]] BY DEF WalkedCheckpoint
  <2>. QED BY <1>9, <2>1 DEF CheckpointFields
<1>11. q.has_next <=> Len(next) < total
  BY <1>1 DEF HasNext, next
<1>12. done \in BOOLEAN /\ (done <=> ~q.has_next) BY DEF done
<1>13. Valid(c)
  <2>1. Valid(cp) /\ cp.decisions = <<>> /\ Captured(cp) \subseteq ToSet(seen)
    BY <1>4 DEF WalkedCheckpoint, Valid, Discovered
  <2>2. Captured(c) \subseteq Discovered(c)
    BY <1>7, <1>10, <2>1 DEF Captured, Discovered, next
  <2>3. Len(next) <= total /\ (done => Len(next) = total)
    BY <1>3, <1>7, <1>8, <1>12 DEF next
  <2>4. Decided(c) = {} BY <1>10, <2>1 DEF Decided
  <2>5. IsInjective(c.discovered_ids) /\ IsInjective(c.captured_ids)
    BY <1>7, <1>10, <2>1 DEF Valid, next
  <2>6. c.next_page >= 1 BY <1>10
  <2>. QED BY <1>10, <2>2, <2>3, <2>4, <2>5, <2>6 DEF Valid
<1>14. HasWholePages(c)
  <2>1. ~done => Len(next) = page * PageSize BY <1>7, <1>11, <1>12 DEF next
  <2>2. (page + 1 - 1) * PageSize = page * PageSize BY PagesFollow
  <2>3. c.next_page - 1 = page + 1 - 1 BY <1>10
  <2>. QED BY <1>10, <2>1, <2>2, <2>3 DEF HasWholePages
<1>15. WalkedCheckpoint(c)
  <2>1. /\ cp.captured_ids \in Seq(Identities) /\ cp.decisions = <<>>
        /\ page + 1 \in Nat \ {0}
    BY DEF WalkedCheckpoint
  <2>2. next \in Seq(Identities) BY <1>7 DEF next
  <2>. QED BY <1>10, <1>12, <1>13, <1>14, <2>1, <2>2 DEF WalkedCheckpoint
<1>16. c # cp
  <2>1. page + 1 # page OBVIOUS
  <2>. QED BY <1>3, <1>10, <2>1
<1>17. KeepsItsWord(cp, c)
  <2>1. /\ cp.discovered_ids \in Seq(Identities) /\ cp.captured_ids \in Seq(Identities)
        /\ cp.decisions = <<>> /\ cp.next_page = page
    BY <1>3 DEF WalkedCheckpoint
  <2>2. IsPrefix(cp.discovered_ids, c.discovered_ids)
    BY <1>4, <1>10, <2>1, ConcatIsPrefix DEF next
  <2>3. IsPrefix(cp.captured_ids, c.captured_ids) BY <1>10, <2>1, ConcatIsPrefix
  <2>. QED BY <1>3, <1>10, <1>15, <2>1, <2>2, <2>3, WalkedIsACheckpoint, KeepsWithoutDecisions DEF Complete
<1>. QED BY <1>10, <1>15, <1>16, <1>17 DEF next

(* A batch of details is added to the ones before.                         *)
LEMMA WalkCaptures ==
  ASSUME NEW cp, WalkedCheckpoint(cp), NEW ids, NEW c \in capture(cp, ids)
  PROVE  /\ WalkedCheckpoint(c) /\ c.discovered_ids = cp.discovered_ids
         /\ Captured(c) \subseteq Captured(cp) \cup ids /\ KeepsItsWord(cp, c)
<1>1. /\ cp.discovered_ids \in Seq(Identities) /\ IsInjective(cp.discovered_ids)
      /\ cp.captured_ids \in Seq(Identities) /\ IsInjective(cp.captured_ids)
      /\ Captured(cp) \subseteq Discovered(cp) /\ Valid(cp)
      /\ cp = [x \in CheckpointFields |-> cp[x]]
  BY DEF WalkedCheckpoint, Valid
<1>2. ids \subseteq Discovered(cp) /\ ids \cap Captured(cp) = {} BY DEF capture
<1>3. ids \subseteq Identities /\ IsFiniteSet(ids)
  <2>1. IsFiniteSet(Discovered(cp)) /\ Discovered(cp) \subseteq Identities
    BY <1>1, ElementsAreFinite DEF Discovered
  <2>. QED BY <1>2, <2>1, FS_Subset
<1>4. PICK s \in InOrder(cp.discovered_ids, ids) :
        c = [cp EXCEPT !.captured_ids = cp.captured_ids \o s]
  BY DEF capture
<1>5. s \in Seq(Identities) /\ IsInjective(s) /\ ToSet(s) \subseteq ids
  BY <1>1, <1>3, <1>4, InOrderIsSound
<1> DEFINE batches == cp.captured_ids \o s
<1>6. /\ batches \in Seq(Identities) /\ IsInjective(batches)
      /\ ToSet(batches) = ToSet(cp.captured_ids) \cup ToSet(s)
  <2>1. ToSet(cp.captured_ids) \cap ToSet(s) = {} BY <1>2, <1>5 DEF Captured
  <2>. QED BY <1>1, <1>5, <2>1, ConcatIsInjective
<1>7. c = [cp EXCEPT !.captured_ids = batches] BY <1>4
<1> HIDE DEF batches
<1>8. c = [cp EXCEPT !.next_page = cp.next_page, !.total_count = cp.total_count,
                     !.discovery_complete = cp.discovery_complete,
                     !.discovered_ids = cp.discovered_ids, !.captured_ids = batches]
  BY <1>1, <1>7 DEF CheckpointFields
<1>9. /\ c = [x \in CheckpointFields |-> c[x]]
      /\ c.next_page = cp.next_page /\ c.total_count = cp.total_count
      /\ c.discovery_complete = cp.discovery_complete
      /\ c.discovered_ids = cp.discovered_ids
      /\ c.captured_ids = batches /\ c.decisions = cp.decisions
  BY <1>1, <1>8 DEF CheckpointFields
<1>10. Captured(c) \subseteq Discovered(c)
  BY <1>1, <1>2, <1>5, <1>6, <1>9 DEF Captured, Discovered
<1>11. Decided(c) = {} BY <1>9 DEF WalkedCheckpoint, Decided
<1>12. Valid(c)
  BY <1>1, <1>6, <1>9, <1>10, <1>11 DEF Valid
<1>13. WalkedCheckpoint(c) BY <1>6, <1>9, <1>12 DEF WalkedCheckpoint, HasWholePages
<1>14. Captured(c) \subseteq Captured(cp) \cup ids BY <1>5, <1>6, <1>9 DEF Captured
<1>15. KeepsItsWord(cp, c)
  <2>1. IsPrefix(cp.discovered_ids, c.discovered_ids) BY <1>1, <1>9, ConcatIsPrefix
  <2>2. IsPrefix(cp.captured_ids, c.captured_ids)
    BY <1>1, <1>5, <1>9, ConcatIsPrefix DEF batches
  <2>3. cp.next_page <= c.next_page BY <1>9 DEF WalkedCheckpoint
  <2>4. Complete(cp) => Complete(c) /\ c.discovered_ids = cp.discovered_ids
    BY <1>9 DEF Complete, Decided
  <2>. QED BY <1>13, <2>1, <2>2, <2>3, <2>4, WalkedIsACheckpoint, KeepsWithoutDecisions
<1>. QED BY <1>9, <1>13, <1>14, <1>15

LEMMA InitialIsWalked == WalkedCheckpoint(initial)
<1> DEFINE cp == initial
<1>1. /\ cp.next_page = 1 /\ cp.total_count = None /\ cp.discovery_complete = FALSE
      /\ cp.discovered_ids = <<>> /\ cp.captured_ids = <<>> /\ cp.decisions = <<>>
      /\ cp = [x \in CheckpointFields |-> cp[x]]
  BY DEF initial, CheckpointFields
<1> HIDE DEF cp
<1>2. ToSet(<<>>) = {} /\ IsInjective(<<>>) /\ <<>> \in Seq(Identities) /\ DOMAIN <<>> = {}
      /\ Len(<<>>) = 0
  BY DEF ToSet, IsInjective
<1>3. Valid(cp) BY <1>1, <1>2 DEF Valid, Captured, Discovered, Decided
<1>4. HasWholePages(cp)
  <2>1. (1 - 1) * PageSize = 0 BY TraversalAssumption
  <2>. QED BY <1>1, <1>2, <2>1 DEF HasWholePages
<1>5. /\ cp.next_page \in Nat \ {0} /\ cp.total_count \in Nat \cup {None}
      /\ cp.discovery_complete \in BOOLEAN
      /\ cp.discovered_ids \in Seq(Identities) /\ cp.captured_ids \in Seq(Identities)
  <2>1. cp.discovery_complete \in BOOLEAN BY <1>1, Zenon
  <2>2. 1 \in Nat \ {0} /\ None \in Nat \cup {None} OBVIOUS
  <2>. QED BY <1>1, <1>2, <2>1, <2>2
<1>6. WalkedCheckpoint(cp) BY <1>1, <1>3, <1>4, <1>5 DEF WalkedCheckpoint
<1>. QED BY <1>6 DEF cp


-----------------------------------------------------------------------------
(* Steps of the script *)

LEMMA InitWalks == TraversalInit => WalkInv
  BY TraversalAssumption DEF TraversalInit, WalkInv

(* The list changes: nothing the script has is about the list of now.      *)
LEMMA ChangeKeeps ==
  ASSUME WalkInv, NEW list \in Lists, Change(list)
  PROVE  WalkInv'
<1>1. listing' = list /\ changes' = changes + 1 /\ changes < MaxChanges
      /\ file' = file /\ run' = run /\ runs' = runs
  BY DEF Change
<1>2. changes' \in 0 .. MaxChanges BY <1>1, TraversalAssumption DEF WalkInv
<1>. QED BY <1>1, <1>2 DEF WalkInv

LEMMA StartWalks ==
  ASSUME WalkInv, Start
  PROVE  WalkInv'
<1> DEFINE cp == IF file = None THEN initial ELSE file
<1>1. /\ run' = [step |-> "page", page |-> 1, seen |-> <<>>, total |-> None, cp |-> cp]
      /\ runs' = runs + 1 /\ runs < MaxRuns
      /\ listing' = listing /\ changes' = changes /\ file' = file
  BY DEF Start
<1>2. WalkedCheckpoint(cp) BY InitialIsWalked DEF WalkInv
<1>3. file = cp \/ (file = None /\ cp = initial) OBVIOUS
<1> HIDE DEF cp
<1>4. /\ run'.step = "page" /\ run'.page = 1 /\ run'.seen = <<>> /\ run'.cp = cp
      /\ run' = [step |-> run'.step, page |-> run'.page, seen |-> run'.seen,
                 total |-> run'.total, cp |-> run'.cp]
  BY <1>1
<1>5. <<>> \in Seq(Identities) /\ IsInjective(<<>>) /\ Len(<<>>) = 0 BY DEF IsInjective
<1>6. WalksTheCheckpoint(run')
  <2>1. (1 - 1) * PageSize = 0 BY TraversalAssumption
  <2>2. Len(cp.discovered_ids) >= 0 BY <1>2 DEF WalkedCheckpoint
  <2>. QED BY <1>4, <1>5, <2>1, <2>2 DEF WalksTheCheckpoint, Starts
<1>7. FileIsCurrent(run', file) BY <1>3, <1>4 DEF FileIsCurrent
<1>8. 1 \in 1 .. SafetyPages /\ runs' \in 0 .. MaxRuns
  BY <1>1, TraversalAssumption DEF WalkInv
<1>9. RunIsSound(run', file)
  BY <1>2, <1>4, <1>5, <1>6, <1>7, <1>8 DEF RunIsSound, Steps
<1>. QED BY <1>1, <1>8, <1>9 DEF WalkInv

(* What a running script has.                                              *)
LEMMA Running ==
  ASSUME WalkInv, run.step \in Steps
  PROVE  RunIsSound(run, file) /\ run # NotRunning
<1>1. NotRunning.step = "idle" BY DEF NotRunning
<1>2. "idle" \notin Steps BY DEF Steps
<1>3. run # NotRunning BY <1>1, <1>2
<1>. QED BY <1>3 DEF WalkInv

(* A step that leaves the list, the pages seen and the number of the page  *)
(* as they are.                                                            *)
LEMMA SamePagesKeep ==
  ASSUME WalkInv, run.step \in Steps \ {"page"}, NEW step \in Steps \ {"page"},
         NEW cp, WalkedCheckpoint(cp), cp.discovered_ids = run.cp.discovered_ids,
         run' = [run EXCEPT !.step = step, !.cp = cp],
         file' \in {file, run.cp},
         step \in {"details", "completed"} => file' = cp,
         step = "completed" => IsWhole(cp),
         UNCHANGED <<listing, changes, runs>>
  PROVE  WalkInv'
<1>1. RunIsSound(run, file) BY Running
<1>2. /\ run'.step = step /\ run'.page = run.page /\ run'.seen = run.seen
      /\ run'.total = run.total /\ run'.cp = cp
      /\ run' = [step |-> run'.step, page |-> run'.page, seen |-> run'.seen,
                 total |-> run'.total, cp |-> run'.cp]
  BY <1>1 DEF RunIsSound
<1>3. WalksTheCheckpoint(run')
  BY <1>1, <1>2 DEF WalksTheCheckpoint, RunIsSound
<1>4. FileIsCurrent(run', file') BY <1>2 DEF FileIsCurrent
<1>5. RunIsSound(run', file')
  BY <1>1, <1>2, <1>3, <1>4 DEF RunIsSound
<1>6. file' # None => WalkedCheckpoint(file') BY <1>1 DEF WalkInv, RunIsSound
<1>. QED BY <1>5, <1>6 DEF WalkInv

LEMMA SavePageKeeps ==
  ASSUME WalkInv, SavePage
  PROVE  WalkInv'
<1>1. /\ run.step = "save page" /\ file' = run.cp
      /\ run' = [run EXCEPT !.step = "details"]
      /\ UNCHANGED <<listing, changes, runs>>
  BY DEF SavePage
<1>2. RunIsSound(run, file) BY <1>1, Running DEF Steps
<1>3. run' = [run EXCEPT !.step = "details", !.cp = run.cp] BY <1>1, <1>2 DEF RunIsSound
<1>. QED BY <1>1, <1>2, <1>3, SamePagesKeep DEF RunIsSound, Steps

LEMMA SaveBatchKeeps ==
  ASSUME WalkInv, SaveBatch
  PROVE  WalkInv'
<1>1. /\ run.step = "save batch" /\ file' = run.cp
      /\ run' = [run EXCEPT !.step = "details"]
      /\ UNCHANGED <<listing, changes, runs>>
  BY DEF SaveBatch
<1>2. RunIsSound(run, file) BY <1>1, Running DEF Steps
<1>3. run' = [run EXCEPT !.step = "details", !.cp = run.cp] BY <1>1, <1>2 DEF RunIsSound
<1>. QED BY <1>1, <1>2, <1>3, SamePagesKeep DEF RunIsSound, Steps

LEMMA FetchDetailsKeeps ==
  ASSUME WalkInv, FetchDetails
  PROVE  WalkInv'
<1>1. /\ run.step = "details" /\ file' = file
      /\ UNCHANGED <<listing, changes, runs>>
      /\ \E cp \in capture(run.cp, ToSet(NextBatch)) :
           run' = [run EXCEPT !.step = "save batch", !.cp = cp]
  BY DEF FetchDetails
<1>2. RunIsSound(run, file) BY <1>1, Running DEF Steps
<1>3. PICK cp \in capture(run.cp, ToSet(NextBatch)) :
        run' = [run EXCEPT !.step = "save batch", !.cp = cp]
  BY <1>1
<1>4. WalkedCheckpoint(cp) /\ cp.discovered_ids = run.cp.discovered_ids
  BY <1>2, <1>3, WalkCaptures DEF RunIsSound
<1>. QED BY <1>1, <1>3, <1>4, SamePagesKeep DEF Steps

LEMMA FinishKeeps ==
  ASSUME WalkInv, Finish
  PROVE  WalkInv'
<1>1. /\ run.step = "details" /\ file' = file /\ IsWhole(run.cp)
      /\ run' = [run EXCEPT !.step = "completed"]
      /\ UNCHANGED <<listing, changes, runs>>
  BY DEF Finish
<1>2. RunIsSound(run, file) BY <1>1, Running DEF Steps
<1>3. run' = [run EXCEPT !.step = "completed", !.cp = run.cp] BY <1>1, <1>2 DEF RunIsSound
<1>4. file = run.cp BY <1>1, <1>2 DEF RunIsSound, FileIsCurrent
<1>. QED BY <1>1, <1>2, <1>3, <1>4, SamePagesKeep DEF RunIsSound, Steps

(* The next page begins where the pages seen end.                          *)
LEMMA EndPageKeeps ==
  ASSUME WalkInv, EndPage
  PROVE  WalkInv'
<1>1. /\ run.step = "details" /\ file' = file /\ HasNext(run.seen, run.total)
      /\ run' = [run EXCEPT !.step = "page", !.page = run.page + 1]
      /\ UNCHANGED <<listing, changes, runs>>
  BY DEF EndPage
<1>2. RunIsSound(run, file) BY <1>1, Running DEF Steps
<1>3. /\ run'.step = "page" /\ run'.page = run.page + 1 /\ run'.seen = run.seen
      /\ run'.total = run.total /\ run'.cp = run.cp
      /\ run' = [step |-> run'.step, page |-> run'.page, seen |-> run'.seen,
                 total |-> run'.total, cp |-> run'.cp]
  BY <1>1, <1>2 DEF RunIsSound
<1>4. /\ Len(run.seen) = run.page * PageSize /\ run.page < SafetyPages
      /\ Starts(run.seen, run.cp.discovered_ids) /\ file = run.cp
  BY <1>1, <1>2 DEF RunIsSound, WalksTheCheckpoint, FileIsCurrent
<1>5. run.page + 1 \in 1 .. SafetyPages /\ run.page \in Nat \ {0}
  BY <1>2, <1>4, TraversalAssumption DEF RunIsSound
<1>6. WalksTheCheckpoint(run')
  <2>1. Starts(run'.seen, run'.cp.discovered_ids) BY <1>3, <1>4
  <2>2. Len(run'.seen) = (run'.page - 1) * PageSize
    <3>1. run'.page = run.page + 1 BY <1>3
    <3>2. run'.page - 1 = run.page BY <1>5, <3>1
    <3>3. Len(run'.seen) = Len(run.seen) BY <1>3
    <3>. QED BY <1>4, <3>2, <3>3
  <2>3. run'.step = "page" BY <1>3
  <2>. QED BY <2>1, <2>2, <2>3 DEF WalksTheCheckpoint
<1>7. FileIsCurrent(run', file) BY <1>3, <1>4 DEF FileIsCurrent
<1>8. RunIsSound(run', file)
  BY <1>2, <1>3, <1>5, <1>6, <1>7 DEF RunIsSound, Steps
<1>. QED BY <1>1, <1>8 DEF WalkInv

(* A page that passes validate_page is what WalkDiscovers asks for.        *)
NextPageFits(ids) ==
  /\ run.page \in Nat \ {0} /\ run.seen \in Seq(Identities)
  /\ WalkedCheckpoint(run.cp) /\ Starts(run.seen, run.cp.discovered_ids)
  /\ Len(run.seen) = (run.page - 1) * PageSize
  /\ ids \in Seq(Identities) /\ Len(ids) \in 1 .. PageSize
  /\ ToSet(ids) \cap ToSet(run.seen) = {} /\ Len(listing) \in Nat
  /\ Len(run.seen) + Len(ids) < Len(listing) => Len(run.seen) + Len(ids) = run.page * PageSize

LEMMA PageFits ==
  ASSUME WalkInv, run.step = "page", PageIsSound(PageOf(run.page))
  PROVE  NextPageFits(PageOf(run.page))
<1> DEFINE ids == PageOf(run.page)
<1>1. RunIsSound(run, file) BY Running DEF Steps
<1>2. ids # <<>> /\ ToSet(ids) \cap ToSet(run.seen) = {} BY DEF PageIsSound
<1>3. /\ run.page \in Nat \ {0} /\ run.seen \in Seq(Identities)
      /\ WalkedCheckpoint(run.cp) /\ Starts(run.seen, run.cp.discovered_ids)
      /\ Len(run.seen) = (run.page - 1) * PageSize
  BY <1>1, TraversalAssumption DEF RunIsSound, WalksTheCheckpoint
<1>4. /\ ids \in Seq(Identities) /\ Len(ids) \in 1 .. PageSize /\ Len(listing) \in Nat
      /\ Len(run.seen) + Len(ids) < Len(listing) => Len(run.seen) + Len(ids) = run.page * PageSize
  <2>1. listing \in Lists BY DEF WalkInv
  <2>. QED BY <1>2, <1>3, <2>1, PageIsOfTheList, ListsAreSequences
<1> HIDE DEF ids
<1>5. NextPageFits(ids) BY <1>2, <1>3, <1>4 DEF NextPageFits
<1>. QED BY <1>5 DEF ids

LEMMA NextPageDiscovers ==
  ASSUME NEW ids, NextPageFits(ids),
         NEW cp \in discover(run.cp, [page |-> run.page, ids |-> ids,
                                      total_count |-> Len(listing),
                                      has_next |-> HasNext(run.seen \o ids, Len(listing))])
  PROVE  /\ WalkedCheckpoint(cp) /\ cp.discovered_ids = run.seen \o ids /\ cp # run.cp
         /\ cp.captured_ids = run.cp.captured_ids /\ KeepsItsWord(run.cp, cp)
  BY WalkDiscovers DEF NextPageFits

(* A page of the list: the one after the checkpoint's, or one it has.      *)
LEMMA ReadPageKeeps ==
  ASSUME WalkInv, ReadPage
  PROVE  WalkInv'
<1> DEFINE ids == PageOf(run.page)
           total == Len(listing)
           next == run.seen \o ids
<1>1. /\ run.step = "page" /\ PageIsSound(ids)
      /\ UNCHANGED <<listing, changes, file, runs>>
      /\ \E cp \in NextCheckpoint(ids) :
           run' = [run EXCEPT !.step = IF cp = run.cp THEN "details" ELSE "save page",
                              !.seen = run.seen \o ids, !.total = Len(listing), !.cp = cp]
  BY DEF ReadPage
<1>2. RunIsSound(run, file) BY <1>1, Running DEF Steps
<1>3. PICK cp \in NextCheckpoint(ids) :
        run' = [run EXCEPT !.step = IF cp = run.cp THEN "details" ELSE "save page",
                           !.seen = next, !.total = total, !.cp = cp]
  BY <1>1
<1>4. /\ ids # <<>> /\ IsInjective(ids) /\ ToSet(ids) \cap ToSet(run.seen) = {}
      /\ \/ run.page < SafetyPages
         \/ run.page = SafetyPages /\ ~HasNext(next, total)
  BY <1>1 DEF PageIsSound
<1>5. /\ run.page \in 1 .. SafetyPages /\ run.page \in Nat \ {0}
      /\ run.seen \in Seq(Identities) /\ IsInjective(run.seen)
      /\ WalkedCheckpoint(run.cp) /\ Starts(run.seen, run.cp.discovered_ids)
      /\ Len(run.seen) = (run.page - 1) * PageSize
      /\ (file = run.cp \/ (file = None /\ run.cp = initial))
  BY <1>1, <1>2, TraversalAssumption DEF RunIsSound, WalksTheCheckpoint, FileIsCurrent
<1>6. /\ ids \in Seq(Identities) /\ Len(ids) \in 1 .. PageSize /\ total \in Nat
      /\ Len(run.seen) + Len(ids) < total => Len(run.seen) + Len(ids) = run.page * PageSize
      /\ NextPageFits(ids)
  BY <1>1, PageFits DEF NextPageFits
<1>7. /\ next \in Seq(Identities) /\ Len(next) = Len(run.seen) + Len(ids)
      /\ IsInjective(next)
  <2>1. ToSet(run.seen) \cap ToSet(ids) = {} BY <1>4
  <2>. QED BY <1>4, <1>5, <1>6, <2>1, ConcatIsInjective
<1>8. HasNext(next, total) => Len(next) = run.page * PageSize /\ run.page < SafetyPages
  BY <1>4, <1>6, <1>7 DEF HasNext
<1>9. /\ WalkedCheckpoint(cp) /\ Starts(next, cp.discovered_ids)
      /\ cp = run.cp => file = cp
  <2>1. CASE run.page < run.cp.next_page
    <3>1. cp = run.cp /\ Known(ids) = ids BY <1>3, <2>1 DEF NextCheckpoint
    <3>2. Starts(next, run.cp.discovered_ids)
      <4>1. run.cp.discovered_ids \in Seq(Identities) BY <1>5 DEF WalkedCheckpoint
      <4> DEFINE t == run.cp.discovered_ids
                 to == IF Len(next) < Len(t) THEN Len(next) ELSE Len(t)
      <4>2. ids = SubSeq(t, Len(run.seen) + 1, to) BY <3>1 DEF Known
      <4>5. to = IF Len(next) < Len(t) THEN Len(next) ELSE Len(t) OBVIOUS
      <4> HIDE DEF ids, next, to
      <4>3. next = run.seen \o ids BY DEF next
      <4>4. /\ run.seen \in Seq(Identities) /\ ids \in Seq(Identities) /\ ids # <<>>
            /\ Len(next) = Len(run.seen) + Len(ids)
            /\ Starts(run.seen, run.cp.discovered_ids)
        BY <1>4, <1>5, <1>6, <1>7
      <4>. QED BY ONLY <4>1, <4>2, <4>3, <4>4, <4>5, StartsWithSlice
    <3>3. file = cp
      <4>1. run.cp # initial BY <1>5, <2>1 DEF initial
      <4>. QED BY <1>5, <3>1, <4>1
    <3>. QED BY <1>5, <3>1, <3>2, <3>3
  <2>2. CASE ~(run.page < run.cp.next_page)
    <3>1. cp \in discover(run.cp, [page |-> run.page, ids |-> ids, total_count |-> total,
                                   has_next |-> HasNext(run.seen \o ids, total)])
      BY <1>3, <2>2 DEF NextCheckpoint
    <3>2. WalkedCheckpoint(cp) /\ cp.discovered_ids = next /\ cp # run.cp
      <4> HIDE DEF ids
      <4>. QED BY <1>6, <3>1, NextPageDiscovers
    <3>. QED BY <1>7, <3>2 DEF Starts
  <2>. QED BY <2>1, <2>2
<1> HIDE DEF ids, total, next
<1>10. /\ run'.step = (IF cp = run.cp THEN "details" ELSE "save page")
       /\ run'.page = run.page /\ run'.seen = next /\ run'.total = total /\ run'.cp = cp
       /\ run' = [step |-> run'.step, page |-> run'.page, seen |-> run'.seen,
                  total |-> run'.total, cp |-> run'.cp]
  BY <1>2, <1>3 DEF RunIsSound
<1>11. WalksTheCheckpoint(run')
  BY <1>6, <1>8, <1>9, <1>10 DEF WalksTheCheckpoint
<1>12. FileIsCurrent(run', file) BY <1>9, <1>10 DEF FileIsCurrent
<1>13. RunIsSound(run', file)
  BY <1>5, <1>7, <1>9, <1>10, <1>11, <1>12 DEF RunIsSound, Steps
<1>. QED BY <1>1, <1>13 DEF WalkInv

LEMMA TraversalKeeps == WalkInv /\ [TraversalNext]_traversalVars => WalkInv'
<1> SUFFICES ASSUME WalkInv, [TraversalNext]_traversalVars PROVE WalkInv'
  OBVIOUS
<1>1. ASSUME NEW list \in Lists, Change(list) PROVE WalkInv' BY <1>1, ChangeKeeps
<1>2. CASE Start BY <1>2, StartWalks
<1>3. CASE ReadPage BY <1>3, ReadPageKeeps
<1>4. CASE SavePage BY <1>4, SavePageKeeps
<1>5. CASE FetchDetails BY <1>5, FetchDetailsKeeps
<1>6. CASE SaveBatch BY <1>6, SaveBatchKeeps
<1>7. CASE EndPage BY <1>7, EndPageKeeps
<1>8. CASE Finish BY <1>8, FinishKeeps
<1>9. CASE Ends BY <1>9 DEF Ends, End, WalkInv
<1>10. CASE UNCHANGED traversalVars BY <1>10 DEF traversalVars, WalkInv
<1>. QED
  BY <1>1, <1>2, <1>3, <1>4, <1>5, <1>6, <1>7, <1>8, <1>9, <1>10 DEF TraversalNext, Walk

LEMMA WalkInvAlways == TraversalSpec => []WalkInv
  BY InitWalks, TraversalKeeps, PTL DEF TraversalSpec


-----------------------------------------------------------------------------
(* The documents of the script *)

(* A collection of documents brings its list.                              *)
LEMMA StoredKeepsDocs ==
  ASSUME NEW docs, NEW m \in Nat, DocsOK(docs, m), NEW items, NEW details,
         \A d \in docs : d.role \in {"list_response", "list_item", "detail_response"},
         NEW all, all = docs \cup Stored(m + 1, items, details)
  PROVE  /\ DocsOK(all, m + 1)
         /\ \A d \in all : d.role \in {"list_response", "list_item", "detail_response"}
<1>1. \A d \in Stored(m + 1, items, details) :
        d.role \in {"list_response", "list_item", "detail_response"} /\ d.capture = m + 1
  BY DEF Stored, Document, ListOf
<1>2. ListOf(m + 1) \in all BY DEF Stored
<1>3. DocsOK(all, m + 1) BY <1>1, <1>2 DEF DocsOK
<1>. QED BY <1>1, <1>3

LEMMA StoredBacks ==
  ASSUME NEW docs, NEW n, NEW items, NEW details, NEW i, i \in items, i \in details,
         NEW all, all = docs \cup Stored(n, items, details)
  PROVE  Backs(all, i)
<1>1. Document("list_item", n, i, None) \in all BY DEF Stored
<1>2. Document("detail_response", n, i, None) \in all BY DEF Stored
<1>. QED BY <1>1, <1>2 DEF Backs, Has, Document

(* Every document was there before a collection that comes next.           *)
LEMMA EarlierDocs ==
  ASSUME NEW docs, NEW m \in Nat, DocsOK(docs, m)
  PROVE  {d \in docs : d.capture # m + 1} = docs
  BY DEF DocsOK

LEMMA InitBacks == TraversalInit => WalkDocsInv
  BY DEF TraversalInit, WalkDocsInv, DocsOK

LEMMA StartBacks ==
  ASSUME WalkInv, WalkDocsInv, Start
  PROVE  WalkDocsInv'
<1> DEFINE cp == IF file = None THEN initial ELSE file
<1>1. /\ run = NotRunning /\ UNCHANGED <<file, raw, made>>
      /\ run' = [step |-> "page", page |-> 1, seen |-> <<>>, total |-> None, cp |-> cp]
  BY DEF Start
<1>2. Kept = raw BY <1>1 DEF Kept, NotRunning
<1>3. \A i \in Captured(cp) : Backs(raw, i)
  <2>1. Captured(initial) = {} BY DEF initial, Captured, ToSet
  <2>. QED BY <1>2, <2>1 DEF WalkDocsInv
<1> HIDE DEF cp
<1>4. run'.step = "page" /\ run'.cp = cp BY <1>1
<1>5. Kept' = raw BY <1>1, <1>4 DEF Kept
<1>. QED BY <1>1, <1>2, <1>3, <1>4, <1>5 DEF WalkDocsInv

(* A page brings its list and its items, and captures nothing.             *)
LEMMA ReadPageBacks ==
  ASSUME WalkInv, WalkDocsInv, ReadPage
  PROVE  WalkDocsInv'
<1> DEFINE ids == PageOf(run.page)
<1>1. /\ run.step = "page" /\ PageIsSound(ids)
      /\ UNCHANGED <<listing, file>> /\ made' = made + 1
      /\ raw' = raw \cup Stored(made + 1, ToSet(ids), {})
      /\ \E cp \in NextCheckpoint(ids) :
           run' = [run EXCEPT !.step = IF cp = run.cp THEN "details" ELSE "save page",
                              !.seen = run.seen \o ids, !.total = Len(listing), !.cp = cp]
  BY DEF ReadPage
<1>2. RunIsSound(run, file) /\ run # NotRunning BY <1>1, Running DEF Steps
<1>3. PICK cp \in NextCheckpoint(ids) :
        /\ run' = [run EXCEPT !.step = IF cp = run.cp THEN "details" ELSE "save page",
                              !.seen = run.seen \o ids, !.total = Len(listing), !.cp = cp]
        /\ cp = run.cp \/ (Captured(cp) = Captured(run.cp) /\ KeepsItsWord(run.cp, cp))
  <2>1. PICK cp \in NextCheckpoint(ids) :
          run' = [run EXCEPT !.step = IF cp = run.cp THEN "details" ELSE "save page",
                             !.seen = run.seen \o ids, !.total = Len(listing), !.cp = cp]
    BY <1>1
  <2>2. ASSUME cp # run.cp
        PROVE  Captured(cp) = Captured(run.cp) /\ KeepsItsWord(run.cp, cp)
    <3>1. cp \in discover(run.cp, [page |-> run.page, ids |-> ids,
                                   total_count |-> Len(listing),
                                   has_next |-> HasNext(run.seen \o ids, Len(listing))])
      BY <2>2 DEF NextCheckpoint
    <3>2. NextPageFits(ids) BY <1>1, <1>2, PageFits
    <3> HIDE DEF ids
    <3>. QED BY <3>1, <3>2, NextPageDiscovers DEF Captured
  <2>. QED BY <2>1, <2>2
<1> HIDE DEF ids
<1>4. run'.step \in {"details", "save page"} /\ run'.cp = cp BY <1>2, <1>3 DEF RunIsSound
<1>5. Kept = raw /\ Kept' = raw' BY <1>1, <1>4 DEF Kept
<1>6. /\ DocsOK(raw', made + 1) /\ \A i : Backs(raw, i) => Backs(raw', i)
      /\ \A d \in raw' : d.role \in {"list_response", "list_item", "detail_response"}
  <2>1. /\ made \in Nat /\ DocsOK(raw, made)
        /\ \A d \in raw : d.role \in {"list_response", "list_item", "detail_response"}
    BY DEF WalkDocsInv
  <2>2. raw' = raw \cup Stored(made + 1, ToSet(ids), {}) BY <1>1
  <2>3. /\ DocsOK(raw', made + 1)
        /\ \A d \in raw' : d.role \in {"list_response", "list_item", "detail_response"}
    BY ONLY <2>1, <2>2, StoredKeepsDocs
  <2>4. \A i : Backs(raw, i) => Backs(raw', i) BY ONLY <2>2 DEF Backs, Has
  <2>. QED BY <2>3, <2>4
<1>7. file # None => \A i \in Captured(file) : Backs(Kept', i)
  BY <1>5, <1>6 DEF WalkDocsInv
<1>8. \A i \in Captured(cp) : Backs(raw', i) BY <1>2, <1>3, <1>6 DEF WalkDocsInv
<1>9. run'.step = "save page" /\ file # None => KeepsItsWord(file, cp)
  <2>1. run'.step = "save page" => cp # run.cp BY <1>2, <1>3 DEF RunIsSound
  <2>2. file # None => file = run.cp BY <1>1, <1>2 DEF RunIsSound, FileIsCurrent
  <2>. QED BY <1>3, <2>1, <2>2
<1>10. made' \in Nat /\ DocsOK(raw', made') BY <1>1, <1>6 DEF WalkDocsInv
<1>11. file' # None => \A i \in Captured(file') : Backs(Kept', i) BY <1>1, <1>7
<1>12. /\ \A i \in Captured(run'.cp) : Backs(raw', i)
       /\ run'.step \in {"save page", "save batch"} /\ file' # None =>
            KeepsItsWord(file', run'.cp)
  BY <1>1, <1>4, <1>8, <1>9
<1>. QED BY <1>6, <1>10, <1>11, <1>12 DEF WalkDocsInv

(* A batch brings its items and their details, and is the only document    *)
(* of its number.                                                          *)
LEMMA FetchDetailsBacks ==
  ASSUME WalkInv, WalkDocsInv, FetchDetails
  PROVE  WalkDocsInv'
<1> DEFINE ids == ToSet(NextBatch)
<1>1. /\ run.step = "details" /\ UNCHANGED file /\ made' = made + 1
      /\ raw' = raw \cup Stored(made + 1, ids, ids)
      /\ \E cp \in capture(run.cp, ids) : run' = [run EXCEPT !.step = "save batch", !.cp = cp]
  BY DEF FetchDetails
<1> HIDE DEF ids
<1>2. RunIsSound(run, file) /\ run # NotRunning BY <1>1, Running DEF Steps
<1>3. PICK cp \in capture(run.cp, ids) : run' = [run EXCEPT !.step = "save batch", !.cp = cp]
  BY <1>1
<1>4. Captured(cp) \subseteq Captured(run.cp) \cup ids /\ KeepsItsWord(run.cp, cp)
  BY <1>2, WalkCaptures DEF RunIsSound
<1>5. run'.step = "save batch" /\ run'.cp = cp BY <1>2, <1>3 DEF RunIsSound
<1>6. /\ DocsOK(raw', made + 1) /\ \A i : Backs(raw, i) => Backs(raw', i)
      /\ \A i \in ids : Backs(raw', i)
      /\ \A d \in raw' : d.role \in {"list_response", "list_item", "detail_response"}
      /\ \A i : Backs({d \in raw : d.capture # made + 1}, i)
                 => Backs({d \in raw' : d.capture # made + 1}, i)
  <2>1. /\ made \in Nat /\ DocsOK(raw, made)
        /\ \A d \in raw : d.role \in {"list_response", "list_item", "detail_response"}
    BY DEF WalkDocsInv
  <2>2. /\ DocsOK(raw', made + 1) /\ \A i : Backs(raw, i) => Backs(raw', i)
        /\ \A i \in ids : Backs(raw', i)
        /\ \A d \in raw' : d.role \in {"list_response", "list_item", "detail_response"}
    <3>1. raw' = raw \cup Stored(made + 1, ids, ids) BY <1>1
    <3>2. DocsOK(raw', made + 1) BY ONLY <2>1, <3>1, StoredKeepsDocs
    <3>3. \A i : Backs(raw, i) => Backs(raw', i) BY ONLY <3>1 DEF Backs, Has
    <3>4. ASSUME NEW i \in ids PROVE Backs(raw', i) BY ONLY <3>1, <3>4, StoredBacks
    <3>5. \A d \in raw' : d.role \in {"list_response", "list_item", "detail_response"}
      BY ONLY <2>1, <3>1, StoredKeepsDocs
    <3>. QED BY <3>2, <3>3, <3>4, <3>5
  <2>3. \A i : Backs({d \in raw : d.capture # made + 1}, i)
                 => Backs({d \in raw' : d.capture # made + 1}, i)
    BY <1>1 DEF Backs, Has
  <2>. QED BY <2>2, <2>3
<1>7. Kept = raw /\ Kept' = {d \in raw' : d.capture # made + 1} BY <1>1, <1>5 DEF Kept
<1>8. file # None => \A i \in Captured(file) : Backs(Kept', i)
  <2>1. /\ file # None => \A i \in Captured(file) : Backs(Kept, i)
        /\ made \in Nat /\ DocsOK(raw, made)
    BY DEF WalkDocsInv
  <2>2. {d \in raw : d.capture # made + 1} = raw BY ONLY <2>1, EarlierDocs
  <2>3. \A i : Backs(raw, i) => Backs(Kept', i) BY ONLY <1>6, <1>7, <2>2
  <2>. QED BY ONLY <1>7, <2>1, <2>3
<1>9. \A i \in Captured(cp) : Backs(raw', i) BY <1>2, <1>4, <1>6 DEF WalkDocsInv
<1>10. KeepsItsWord(run.cp, cp) /\ file = run.cp
  BY <1>1, <1>2, <1>4 DEF RunIsSound, FileIsCurrent
<1>11. made' \in Nat /\ DocsOK(raw', made') BY <1>1, <1>6 DEF WalkDocsInv
<1>12. file' # None => \A i \in Captured(file') : Backs(Kept', i) BY <1>1, <1>8
<1>13. /\ \A i \in Captured(run'.cp) : Backs(raw', i)
       /\ KeepsItsWord(file', run'.cp)
  BY <1>1, <1>5, <1>9, <1>10
<1>. QED BY <1>6, <1>11, <1>12, <1>13 DEF WalkDocsInv

(* What is written is backed by documents that are there.                  *)
LEMMA SaveBacks ==
  ASSUME WalkInv, WalkDocsInv, SavePage \/ SaveBatch
  PROVE  WalkDocsInv'
<1>1. /\ run.step \in {"save page", "save batch"} /\ file' = run.cp
      /\ run' = [run EXCEPT !.step = "details"] /\ UNCHANGED <<raw, made>>
  BY DEF SavePage, SaveBatch
<1>2. RunIsSound(run, file) /\ run # NotRunning BY <1>1, Running DEF Steps
<1>3. run'.step = "details" /\ run'.cp = run.cp BY <1>1, <1>2 DEF RunIsSound
<1>4. Kept' = raw BY <1>1, <1>3 DEF Kept
<1>. QED BY <1>1, <1>2, <1>3, <1>4 DEF WalkDocsInv

(* A step that stores nothing and writes nothing.                          *)
LEMMA QuietBacks ==
  ASSUME WalkInv, WalkDocsInv, Finish \/ EndPage
  PROVE  WalkDocsInv'
<1>1. /\ run.step = "details" /\ UNCHANGED <<file, raw, made>>
      /\ \/ run' = [run EXCEPT !.step = "completed"]
         \/ run' = [run EXCEPT !.step = "page", !.page = run.page + 1]
  BY DEF Finish, EndPage
<1>2. RunIsSound(run, file) /\ run # NotRunning BY <1>1, Running DEF Steps
<1>3. run'.step \in {"completed", "page"} /\ run'.cp = run.cp BY <1>1, <1>2 DEF RunIsSound
<1>4. Kept = raw /\ Kept' = raw BY <1>1, <1>3 DEF Kept
<1>. QED BY <1>1, <1>2, <1>3, <1>4 DEF WalkDocsInv

(* A batch that is not recorded may take its documents back.               *)
LEMMA EndBacks ==
  ASSUME WalkInv, WalkDocsInv, NEW removes \in BOOLEAN, End(removes)
  PROVE  WalkDocsInv'
<1>1. /\ run' = NotRunning /\ UNCHANGED <<file, made>>
      /\ raw' \in {raw, Kept}
  BY DEF End, Kept
<1>2. Kept \subseteq raw BY DEF Kept
<1>3. DocsOK(Kept, made)
  <2>1. ASSUME NEW d \in Kept, d.role = "list_item" PROVE ListOf(d.capture) \in Kept
    <3>1. ListOf(d.capture) \in raw BY <1>2, <2>1 DEF WalkDocsInv, DocsOK
    <3>2. ListOf(d.capture).capture = d.capture BY DEF ListOf, Document
    <3>. QED BY <2>1, <3>1, <3>2 DEF Kept
  <2>. QED BY <1>2, <2>1 DEF WalkDocsInv, DocsOK
<1>4. Kept' = raw' BY <1>1 DEF Kept, NotRunning
<1>5. file # None => \A i \in Captured(file) : Backs(raw', i)
  <2>1. \A i : Backs(Kept, i) => Backs(raw, i) BY <1>2 DEF Backs, Has
  <2>. QED BY <1>1, <2>1 DEF WalkDocsInv
<1>. QED BY <1>1, <1>2, <1>3, <1>4, <1>5 DEF WalkDocsInv

LEMMA TraversalBacks ==
  WalkInv /\ WalkDocsInv /\ [TraversalNext]_traversalVars => WalkDocsInv'
<1> SUFFICES ASSUME WalkInv, WalkDocsInv, [TraversalNext]_traversalVars PROVE WalkDocsInv'
  OBVIOUS
<1>1. ASSUME NEW list \in Lists, Change(list) PROVE WalkDocsInv'
  BY <1>1 DEF Change, WalkDocsInv, Kept
<1>2. CASE Start BY <1>2, StartBacks
<1>3. CASE ReadPage BY <1>3, ReadPageBacks
<1>4. CASE FetchDetails BY <1>4, FetchDetailsBacks
<1>5. CASE SavePage \/ SaveBatch BY <1>5, SaveBacks
<1>6. CASE EndPage \/ Finish BY <1>6, QuietBacks
<1>7. CASE Ends BY <1>7, EndBacks DEF Ends
<1>8. CASE UNCHANGED traversalVars BY <1>8 DEF traversalVars, WalkDocsInv, Kept
<1>. QED BY <1>1, <1>2, <1>3, <1>4, <1>5, <1>6, <1>7, <1>8 DEF TraversalNext, Walk

-----------------------------------------------------------------------------
(* Results *)

LEMMA WalkIsTyped == WalkInv => TraversalTypeOK
  BY DEF WalkInv, TraversalTypeOK, RunIsSound, WalkedCheckpoint

(* Whatever the site shows and however often the script is started, fails  *)
(* or dies, the checkpoint it builds and the one on disk are ones that     *)
(* RegionalBatchCheckpoint.__post_init__ accepts, and it reads no identity *)
(* twice and no page beyond safety_max_pages.                              *)
THEOREM WalksLoad == TraversalSpec => []TraversalTypeOK
  BY WalkIsTyped, WalkInvAlways, PTL

(* When collect_regional_http_source.py reports completion, the pages it   *)
(* walked in this run are the list of the checkpoint on disk, from its     *)
(* start and in its order, and every identity of that checkpoint has its   *)
(* detail, although the list may change between any two requests.          *)
THEOREM CompletionsAreEarned == TraversalSpec => []CompletionIsEarned
<1>1. WalkInv => CompletionIsEarned
  <2>1. SUFFICES ASSUME WalkInv, run # NotRunning, run.step = "completed"
                 PROVE  /\ IsPrefix(run.seen, file.discovered_ids)
                        /\ Captured(file) = Discovered(file)
    BY DEF CompletionIsEarned
  <2>2. RunIsSound(run, file) BY <2>1 DEF WalkInv
  <2>3. file = run.cp /\ IsWhole(file) BY <2>1, <2>2 DEF RunIsSound, FileIsCurrent
  <2>4. IsPrefix(run.seen, file.discovered_ids)
    BY <2>2, <2>3, StartsIsPrefix DEF RunIsSound, WalksTheCheckpoint, WalkedCheckpoint
  <2>. QED BY <2>3, <2>4 DEF IsWhole, Captured, Discovered
<1>. QED BY <1>1, WalkInvAlways, PTL

-----------------------------------------------------------------------------
(* Both ways to collect a source *)

\* The processes of the other way are at rest.
NoCaptures ==
  /\ task = [w \in Writers |-> Idle]
  /\ imports = 0 /\ audits = 0 /\ active = Before /\ crowded = FALSE
NoWalk == listing \in Lists /\ changes = 0 /\ run = NotRunning /\ runs = 0

CapturesInv == NoWalk /\ CheckpointInv /\ TypesInv /\ AloneInv
HttpInv == NoCaptures /\ WalkInv /\ WalkDocsInv
CollectionInv == IF style = "http" THEN HttpInv ELSE CapturesInv

LEMMA InitCollects == CollectionInit => CollectionInv
<1> SUFFICES ASSUME CollectionInit PROVE HttpInv /\ CapturesInv BY DEF CollectionInv
<1>1. Init /\ TraversalInit BY DEF CollectionInit
<1>2. HttpInv
  BY <1>1, InitWalks, InitBacks DEF HttpInv, NoCaptures, Init
<1>3. CapturesInv
  BY <1>1, InitHolds, InitTypes, InitAlone DEF CapturesInv, NoWalk, TraversalInit
<1>. QED BY <1>2, <1>3

LEMMA CollectionKeeps == CollectionInv /\ [CollectionNext]_collectionVars => CollectionInv'
<1> SUFFICES ASSUME CollectionInv, [CollectionNext]_collectionVars PROVE CollectionInv'
  OBVIOUS
<1>1. CASE ByCaptures /\ UNCHANGED style
  <2>1. CapturesInv /\ [Next]_vars /\ UNCHANGED walkVars
    BY <1>1 DEF ByCaptures, CollectionInv
  <2>2. CheckpointInv' /\ TypesInv' /\ AloneInv'
    BY <2>1, NextKeeps, TypesKeep, AloneKeeps DEF CapturesInv
  <2>3. NoWalk' BY <2>1 DEF CapturesInv, NoWalk, walkVars
  <2>. QED BY <1>1, <2>2, <2>3 DEF CapturesInv, CollectionInv, ByCaptures
<1>2. CASE ByHttp /\ UNCHANGED style
  <2>1. HttpInv /\ [TraversalNext]_traversalVars /\ UNCHANGED captureVars
    BY <1>2 DEF ByHttp, CollectionInv
  <2>2. WalkInv' /\ WalkDocsInv' BY <2>1, TraversalKeeps, TraversalBacks DEF HttpInv
  <2>3. NoCaptures' BY <2>1 DEF HttpInv, NoCaptures, captureVars
  <2>. QED BY <1>2, <2>2, <2>3 DEF HttpInv, CollectionInv, ByHttp
<1>3. CASE UNCHANGED collectionVars
  <2>1. UNCHANGED <<vars, walkVars, style>> BY <1>3 DEF collectionVars
  <2>2. UNCHANGED traversalVars /\ UNCHANGED captureVars
    BY <2>1 DEF vars, walkVars, traversalVars, captureVars
  <2>3. CASE style = "http"
    <3>1. WalkInv' /\ WalkDocsInv' /\ NoCaptures'
      BY <2>2, <2>3, TraversalKeeps, TraversalBacks
      DEF HttpInv, CollectionInv, NoCaptures, captureVars
    <3>. QED BY <2>1, <2>3, <3>1 DEF HttpInv, CollectionInv
  <2>4. CASE style # "http"
    <3>1. CheckpointInv' /\ TypesInv' /\ AloneInv'
      BY <2>1, <2>4, NextKeeps, TypesKeep, AloneKeeps DEF CapturesInv, CollectionInv
    <3>2. NoWalk' BY <2>1, <2>4 DEF CapturesInv, CollectionInv, NoWalk, walkVars
    <3>. QED BY <2>1, <2>4, <3>1, <3>2 DEF CapturesInv, CollectionInv
  <2>. QED BY <2>3, <2>4
<1>. QED BY <1>1, <1>2, <1>3 DEF CollectionNext

LEMMA CollectionAlways == CollectionSpec => []CollectionInv
  BY InitCollects, CollectionKeeps, PTL DEF CollectionSpec

(* Whichever way a source is collected, the constructor of the checkpoint  *)
(* refuses nothing that is built or written, and every variable has its    *)
(* type.                                                                   *)
THEOREM CollectionsLoad == CollectionSpec => []TypesOK
<1>1. HttpInv => TypesOK
  <2> SUFFICES ASSUME HttpInv PROVE TypeOK /\ TraversalTypeOK BY DEF TypesOK
  <2>1. TraversalTypeOK BY WalkIsTyped DEF HttpInv
  <2>2. \A w \in Writers : task[w] = Idle BY DEF HttpInv, NoCaptures
  <2>3. \A d \in raw : /\ d.role \in {"list_response", "list_item", "detail_response"}
                       /\ d.capture \in 1 .. made
    BY DEF HttpInv, WalkDocsInv, DocsOK
  <2>4. imports \in 0 .. MaxImports /\ audits \in 0 .. MaxAudits
    BY CheckpointAssumption DEF HttpInv, NoCaptures
  <2>5. active \subseteq Id \cup Before /\ crowded \in BOOLEAN
    BY DEF HttpInv, NoCaptures
  <2>6. ASSUME NEW w \in Writers PROVE DOMAIN (IF task[w] = Idle THEN <<>> ELSE task[w].jobs) = {}
    <3>1. (IF task[w] = Idle THEN <<>> ELSE task[w].jobs) = <<>> BY <2>2
    <3>2. DOMAIN <<>> = {} OBVIOUS
    <3>. QED BY <3>1, <3>2
  <2>7. file # None => Valid(file) BY <2>1 DEF TraversalTypeOK
  <2>8. made \in Nat BY DEF HttpInv, WalkDocsInv
  <2>9. TypeOK BY <2>3, <2>4, <2>5, <2>6, <2>7, <2>8 DEF TypeOK
  <2>. QED BY <2>1, <2>9
<1>2. CapturesInv => TypesOK
  <2> SUFFICES ASSUME CapturesInv PROVE TypeOK /\ TraversalTypeOK BY DEF TypesOK
  <2>1. TypeOK BY TypedIsOK DEF CapturesInv
  <2>2. TraversalTypeOK
    BY <2>1, TraversalAssumption DEF CapturesInv, NoWalk, TraversalTypeOK, TypeOK
  <2>. QED BY <2>1, <2>2
<1>3. CollectionInv => TypesOK BY <1>1, <1>2 DEF CollectionInv
<1>. QED BY <1>3, CollectionAlways, PTL

(* Whichever way a source is collected, and wherever a script, a request   *)
(* or an import fails or dies, what the checkpoint file calls captured has *)
(* its item, its list and its detail in Raw.                               *)
THEOREM CollectionsAreBacked == CollectionSpec => []CapturedHasRaw
<1>1. HttpInv => CapturedHasRaw
  <2> SUFFICES ASSUME HttpInv, file # None, file.captured_ids # <<>>
               PROVE  Replayable(raw, file.captured_ids)
    BY DEF CapturedHasRaw
  <2>1. \A i \in Captured(file) : Backs(Kept, i) BY DEF HttpInv, WalkDocsInv
  <2>2. Kept \subseteq raw BY DEF Kept
  <2>3. \A i \in ToSet(file.captured_ids) : Backs(raw, i)
    BY <2>1, <2>2 DEF Captured, Backs, Has
  <2>. QED BY <2>3, BackedIsReplayable DEF HttpInv, WalkDocsInv
<1>2. CapturesInv => CapturedHasRaw BY CheckpointIsBacked DEF CapturesInv
<1>3. CollectionInv => CapturedHasRaw BY <1>1, <1>2 DEF CollectionInv
<1>. QED BY <1>3, CollectionAlways, PTL

(* Whichever way a source is collected, the checkpoint file goes on to say *)
(* what it says, as long as no two processes are at work at once; the HTTP *)
(* script may be killed and started again at any time.                     *)
THEOREM CollectionsForgetNothing == CollectionSpec => NothingIsForgotten
<1>1. ASSUME HttpInv, TraversalNext, file' # file PROVE KeepsItsWord(file, file')
  <2>1. SavePage \/ SaveBatch
    BY <1>1 DEF TraversalNext, Change, Start, Walk, ReadPage, FetchDetails, EndPage, Finish,
       Ends, End
  <2>2. run.step \in {"save page", "save batch"} /\ file' = run.cp
    BY <2>1 DEF SavePage, SaveBatch
  <2>3. run # NotRunning BY <1>1, <2>2, Running DEF HttpInv, Steps
  <2>. QED BY <1>1, <2>2, <2>3 DEF HttpInv, WalkDocsInv, KeepsItsWord
<1>2. CollectionInv /\ [CollectionNext]_collectionVars =>
        [~crowded => KeepsItsWord(file, file')]_file
  <2> SUFFICES ASSUME CollectionInv, [CollectionNext]_collectionVars, ~crowded, file' # file
               PROVE  KeepsItsWord(file, file')
    OBVIOUS
  <2>1. CASE ByCaptures
    BY <2>1, FileKeepsItsWord DEF ByCaptures, CollectionInv, CapturesInv
  <2>2. CASE ByHttp BY <1>1, <2>2 DEF ByHttp, CollectionInv
  <2>. QED BY <2>1, <2>2 DEF CollectionNext, collectionVars, vars
<1>. QED BY <1>2, CollectionAlways, PTL DEF CollectionSpec, NothingIsForgotten
=============================================================================

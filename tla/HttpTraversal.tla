----------------------------- MODULE HttpTraversal -----------------------------
(***************************************************************************)
(* The script that collects a regional source over HTTP.  It walks the     *)
(* whole list from page 1 in every run, compares the pages a checkpoint    *)
(* already has with the list of now, adds the pages it does not have, and  *)
(* fetches the missing details of each page in small batches.  The list    *)
(* may change between two requests.                                        *)
(*                                                                         *)
(* A request of a collector is one step: it stores all of its documents or *)
(* fails; the documents a failing one leaves behind are not part of any    *)
(* checkpoint.                                                             *)
(***************************************************************************)
EXTENDS BatchCheckpoint

CONSTANTS Lists,      \* the lists the site may show: sequences of identities
          PageSize,   \* identities on a page of the site
          Batch,      \* detail_batch
          SafetyPages,\* safety_max_pages
          MaxRuns,    \* bound: runs of the script
          MaxChanges  \* bound: changes of the list

(* What the site may show, and the checkpoints the script makes of it.     *)
Identities == UNION {ToSet(list) : list \in Lists}
Undecided == [next_page : Nat \ {0}, total_count : Nat \cup {None},
              discovery_complete : BOOLEAN, discovered_ids : Seq(Identities),
              captured_ids : Seq(Identities), decisions : {<<>>}]

ASSUME TraversalAssumption ==
  /\ PageSize \in Nat \ {0} /\ Batch \in 1 .. 3 /\ SafetyPages \in Nat \ {0}
  /\ MaxRuns \in Nat /\ MaxChanges \in Nat
  /\ None \notin Nat \cup Undecided
  /\ \A list \in Lists : list \in Seq(ToSet(list))

VARIABLES listing, changes, \* the list now
          run, runs         \* the script, and how often it was started

walkVars == <<listing, changes, run, runs>>
traversalVars == <<listing, changes, file, raw, made, run, runs>>

NotRunning == [step |-> "idle"]

-----------------------------------------------------------------------------
(* The site *)

Change(list) ==
  /\ changes < MaxChanges /\ list # listing
  /\ listing' = list /\ changes' = changes + 1
  /\ UNCHANGED <<file, raw, made, run, runs>>

PageOf(page) ==
  SubSeq(listing, (page - 1) * PageSize + 1,
         IF page * PageSize < Len(listing) THEN page * PageSize ELSE Len(listing))

-----------------------------------------------------------------------------
(* Documents of one collection: its list, its items, and their details *)

Stored(n, items, details) ==
  {ListOf(n)} \cup {Document("list_item", n, i, None) : i \in items}
              \cup {Document("detail_response", n, i, None) : i \in details}

Start ==
  /\ run = NotRunning /\ runs < MaxRuns
  /\ run' = [step |-> "page", page |-> 1, seen |-> <<>>, total |-> None,
             cp |-> IF file = None THEN initial ELSE file]
  /\ runs' = runs + 1
  /\ UNCHANGED <<listing, changes, file, raw, made>>

HasNext(seen, total) == Len(seen) < total

(* The identities of a page are new, the total stays, and the page contract *)
(* holds: validate_page.                                                    *)
PageIsSound(ids) ==
  /\ ids # <<>> /\ IsInjective(ids)
  /\ ToSet(ids) \cap ToSet(run.seen) = {}
  /\ run.total \in {None, Len(listing)}
  /\ Len(run.seen \o ids) <= Len(listing)
  /\ run.page < SafetyPages \/ (run.page = SafetyPages /\ ~HasNext(run.seen \o ids, Len(listing)))

(* mutant: pages the checkpoint has are not compared *)
KnownAny(ids) == ids

(* The slice of the checkpoint the page is compared with. *)
Known(ids) == SubSeq(run.cp.discovered_ids, Len(run.seen) + 1,
                     IF Len(run.seen \o ids) < Len(run.cp.discovered_ids)
                     THEN Len(run.seen \o ids) ELSE Len(run.cp.discovered_ids))
NextCheckpoint(ids) ==
  IF run.page < run.cp.next_page THEN IF Known(ids) = ids THEN {run.cp} ELSE {}
  ELSE discover(run.cp, [page |-> run.page, ids |-> ids, total_count |-> Len(listing),
                         has_next |-> HasNext(run.seen \o ids, Len(listing))])

(* One page of the list is fetched and stored with its items. *)
ReadPage ==
  /\ run.step = "page"
  /\ LET ids == PageOf(run.page)
     IN /\ PageIsSound(ids)
        /\ raw' = raw \cup Stored(made + 1, ToSet(ids), {})
        /\ \E cp \in NextCheckpoint(ids) :
             run' = [run EXCEPT !.step = IF cp = run.cp THEN "details" ELSE "save page",
                                !.seen = @ \o ids, !.total = Len(listing), !.cp = cp]
  /\ made' = made + 1
  /\ UNCHANGED <<listing, changes, file, runs>>

SavePage ==
  /\ run.step = "save page"
  /\ file' = run.cp
  /\ run' = [run EXCEPT !.step = "details"]
  /\ UNCHANGED <<listing, changes, raw, made, runs>>

(* Identities of the page from the first without a detail on, while none   *)
(* has one, and at most Batch of them.                                     *)
PageStart == ((Len(run.seen) - 1) \div PageSize) * PageSize
Missing == {k \in PageStart + 1 .. Len(run.seen) : run.seen[k] \notin Captured(run.cp)}
FirstMissing == CHOOSE k \in Missing : \A m \in Missing : k <= m
NextBatch ==
  LET last == CHOOSE k \in FirstMissing .. Len(run.seen) :
                /\ FirstMissing .. k \subseteq Missing /\ k - FirstMissing < Batch
                /\ \/ k + 1 \notin Missing \/ k + 1 - FirstMissing = Batch
  IN SubSeq(run.seen, FirstMissing, last)
(* What the site has at the place of the batch now. *)
Answered ==
  LET ids == PageOf(run.page)
      from == FirstMissing - PageStart
      to == from + Len(NextBatch) - 1
  IN IF from > Len(ids) THEN <<>> ELSE SubSeq(ids, from, IF to < Len(ids) THEN to ELSE Len(ids))

FetchDetails ==
  /\ run.step = "details" /\ Missing # {}
  /\ Answered = NextBatch
  /\ raw' = raw \cup Stored(made + 1, ToSet(Answered), ToSet(Answered))
  /\ made' = made + 1
  /\ \E cp \in capture(run.cp, ToSet(NextBatch)) :
       run' = [run EXCEPT !.step = "save batch", !.cp = cp]
  /\ UNCHANGED <<listing, changes, file, runs>>

SaveBatch ==
  /\ run.step = "save batch"
  /\ file' = run.cp
  /\ run' = [run EXCEPT !.step = "details"]
  /\ UNCHANGED <<listing, changes, raw, made, runs>>

(* The page has all of its details: the next page, or the end. *)
EndPage ==
  /\ run.step = "details" /\ Missing = {}
  /\ HasNext(run.seen, run.total)
  /\ run' = [run EXCEPT !.step = "page", !.page = @ + 1]
  /\ UNCHANGED <<listing, changes, file, raw, made, runs>>

IsWhole(cp) == /\ cp.discovery_complete
               /\ cp.total_count = Len(cp.discovered_ids)
               /\ cp.discovered_ids = cp.captured_ids
Finish ==
  /\ run.step = "details" /\ Missing = {}
  /\ ~HasNext(run.seen, run.total)
  /\ IsWhole(run.cp)
  /\ run' = [run EXCEPT !.step = "completed"]
  /\ UNCHANGED <<listing, changes, file, raw, made, runs>>
(* The script ends: it completed, an answer did not fit, a request or a    *)
(* write failed, or it was killed.  A batch that cannot be recorded takes  *)
(* its documents back unless the script was killed.                        *)
End(removes) ==
  /\ run # NotRunning
  /\ run' = NotRunning
  /\ raw' = IF removes /\ run.step = "save batch"
            THEN {d \in raw : d.capture # made} ELSE raw
  /\ UNCHANGED <<listing, changes, file, made, runs>>

TraversalInit ==
  /\ listing \in Lists /\ changes = 0
  /\ file = None /\ raw = {} /\ made = 0
  /\ run = NotRunning /\ runs = 0

Walk == ReadPage \/ SavePage \/ FetchDetails \/ SaveBatch \/ EndPage \/ Finish
Ends == \E removes \in BOOLEAN : End(removes)
TraversalNext == (\E list \in Lists : Change(list)) \/ Start \/ Walk \/ Ends

TraversalSpec == TraversalInit /\ [][TraversalNext]_traversalVars

-----------------------------------------------------------------------------
(* Properties *)

(* Every state variable has its type; the checkpoint on disk and in memory *)
(* are ones the constructor accepts.                                       *)
TraversalTypeOK ==
  /\ listing \in Lists /\ changes \in 0 .. MaxChanges /\ runs \in 0 .. MaxRuns
  /\ file # None => Valid(file)
  /\ run # NotRunning => /\ Valid(run.cp)
                      /\ run.page \in 1 .. SafetyPages
                      /\ IsInjective(run.seen)

(* When the script reports completion, the pages it walked are the ones of *)
(* the checkpoint, in their order, and each has its detail.                *)
CompletionIsEarned ==
  run # NotRunning /\ run.step = "completed" =>
    /\ IsPrefix(run.seen, file.discovered_ids)
    /\ Captured(file) = Discovered(file)
=============================================================================

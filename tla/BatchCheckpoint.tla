---------------------------- MODULE BatchCheckpoint ----------------------------
(***************************************************************************)
(* RegionalBatchCheckpoint, the record of how far the collection of one    *)
(* regional source has come, with the operations that make a new one, and  *)
(* the choice of the Raw documents a checkpoint is replayed from.          *)
(*                                                                         *)
(* "complete" of the source is derived here: the constructor refuses every *)
(* other value.  The file, the documents and their number are the state of *)
(* whichever script collects the source.                                   *)
(***************************************************************************)
EXTENDS FiniteSets, Integers, Sequences, SequencesExt

CONSTANT None

VARIABLES file,    \* the checkpoint file
          raw,     \* Raw documents of the source
          made     \* collections stored so far

Outcomes == {"accepted", "duplicate", "review", "closed", "failed"}

-----------------------------------------------------------------------------
(* RegionalBatchCheckpoint; an operation that raises returns no checkpoint *)

initial == [next_page |-> 1, total_count |-> None, discovery_complete |-> FALSE,
            discovered_ids |-> <<>>, captured_ids |-> <<>>, decisions |-> <<>>]

(* decisions is a function on the identities that are decided. *)
Decided(cp) == DOMAIN cp.decisions
Discovered(cp) == ToSet(cp.discovered_ids)
Captured(cp) == ToSet(cp.captured_ids)
Complete(cp) == /\ cp.discovery_complete
                /\ Cardinality(Decided(cp)) = Len(cp.discovered_ids)

(* What __post_init__ requires of every checkpoint that is built or loaded. *)
Valid(cp) ==
  /\ cp.next_page >= 1
  /\ IsInjective(cp.discovered_ids) /\ IsInjective(cp.captured_ids)
  /\ Captured(cp) \subseteq Discovered(cp)
  /\ Decided(cp) \subseteq Discovered(cp)
  /\ \A i \in Decided(cp) : cp.decisions[i] # "failed" => i \in Captured(cp)
  /\ cp.total_count # None =>
       /\ Len(cp.discovered_ids) <= cp.total_count
       /\ cp.discovery_complete => Len(cp.discovered_ids) = cp.total_count

(* The identities ids as a sequence, in the order of seq. *)
InOrder(seq, ids) ==
  {s \in [1 .. Cardinality(ids) -> ids] :
     \A m, n \in DOMAIN s : m < n =>
       \E j, k \in DOMAIN seq : j < k /\ seq[j] = s[m] /\ seq[k] = s[n]}

(* The identities of a page that the checkpoint does not have, and how     *)
(* many it has with them.                                                  *)
Fresh(cp, q) == ToSet(q.ids) \ Discovered(cp)
Found(cp, q) == Len(cp.discovered_ids) + Cardinality(Fresh(cp, q))
TotalWith(cp, q) == IF q.total_count = None THEN cp.total_count ELSE q.total_count

(* mutant: the last page is accepted before the total is reached *)
discoverShort(cp, q) ==
  IF /\ ~cp.discovery_complete
     /\ q.page = cp.next_page
     /\ q.ids # <<>> /\ IsInjective(q.ids)
     /\ q.has_next => Fresh(cp, q) # {}
     /\ q.total_count # None => q.total_count >= Found(cp, q)
  THEN {[cp EXCEPT !.next_page = @ + 1, !.total_count = TotalWith(cp, q),
                   !.discovery_complete = ~q.has_next,
                   !.discovered_ids = @ \o s] : s \in InOrder(q.ids, Fresh(cp, q))}
  ELSE {}

discover(cp, q) ==
  IF /\ ~cp.discovery_complete
     /\ q.page = cp.next_page
     /\ q.ids # <<>> /\ IsInjective(q.ids)
     /\ q.has_next => Fresh(cp, q) # {}
     /\ q.total_count # None => /\ q.total_count >= Found(cp, q)
                                /\ cp.total_count \in {None, q.total_count}
     /\ ~q.has_next /\ TotalWith(cp, q) # None => Found(cp, q) = TotalWith(cp, q)
  THEN {[cp EXCEPT !.next_page = @ + 1, !.total_count = TotalWith(cp, q),
                   !.discovery_complete = ~q.has_next,
                   !.discovered_ids = @ \o s] : s \in InOrder(q.ids, Fresh(cp, q))}
  ELSE {}

(* mutant: an open page may be amended after the list was closed *)
amend_discoveryLate(cp, q) ==
  IF /\ q.page = cp.next_page - 1
     /\ Fresh(cp, q) # {}
  THEN {[cp EXCEPT !.discovered_ids = @ \o s, !.total_count = None] :
          s \in InOrder(q.ids, Fresh(cp, q))}
  ELSE {}

amend_discovery(cp, q) ==
  IF /\ ~cp.discovery_complete
     /\ q.page = cp.next_page - 1
     /\ q.has_next
     /\ Fresh(cp, q) # {}
     /\ q.total_count = cp.total_count
     /\ cp.total_count # None => Found(cp, q) <= cp.total_count
  THEN {[cp EXCEPT !.discovered_ids = @ \o s] : s \in InOrder(q.ids, Fresh(cp, q))}
  ELSE {}

(* mutant: a batch replaces the batches before it *)
captureOnly(cp, ids) ==
  IF /\ ids # {} /\ ids \subseteq Discovered(cp)
  THEN {[cp EXCEPT !.captured_ids = s] : s \in InOrder(cp.discovered_ids, ids)}
  ELSE {}

capture(cp, ids) ==
  IF /\ ids # {} /\ ids \subseteq Discovered(cp) /\ ids \cap Captured(cp) = {}
  THEN {[cp EXCEPT !.captured_ids = @ \o s] : s \in InOrder(cp.discovered_ids, ids)}
  ELSE {}

decide(cp, outcomes) ==
  IF /\ DOMAIN outcomes # {}
     /\ DOMAIN outcomes \subseteq Discovered(cp) \ Decided(cp)
     /\ \A i \in DOMAIN outcomes : outcomes[i] # "failed" => i \in Captured(cp)
  THEN {[cp EXCEPT !.decisions =
           [i \in Decided(cp) \cup DOMAIN outcomes |->
              IF i \in DOMAIN outcomes THEN outcomes[i] ELSE @[i]]]}
  ELSE {}

(* mutant: a recovery decides anew whatever failed and was captured *)
reclassify_failedAll(cp, outcomes) ==
  IF \A i \in DOMAIN outcomes : outcomes[i] \in {"review", "closed"}
  THEN {[cp EXCEPT !.decisions =
           [i \in Decided(cp) |->
              IF @[i] = "failed" /\ i \in Captured(cp) THEN "review" ELSE @[i]]]}
  ELSE {}

reclassify_failed(cp, outcomes) ==
  IF /\ DOMAIN outcomes # {}
     /\ DOMAIN outcomes \subseteq Captured(cp) \cap Decided(cp)
     /\ \A i \in DOMAIN outcomes : /\ cp.decisions[i] = "failed"
                                   /\ outcomes[i] \in {"review", "closed"}
  THEN {[cp EXCEPT !.decisions =
           [i \in Decided(cp) |->
              IF i \in DOMAIN outcomes THEN outcomes[i] ELSE @[i]]]}
  ELSE {}

redecide(cp, outcomes) ==
  IF /\ Complete(cp)
     /\ DOMAIN outcomes = Discovered(cp)
     /\ \A i \in DOMAIN outcomes : outcomes[i] # "failed" => i \in Captured(cp)
  THEN {[cp EXCEPT !.decisions = outcomes]}
  ELSE {}

-----------------------------------------------------------------------------
(* Raw documents and their replay *)

Document(role, n, i, shows) == [role |-> role, capture |-> n, id |-> i, shows |-> shows]
ListOf(n) == Document("list_response", n, None, None)

Newest(docs, role, i) ==
  CHOOSE d \in docs : /\ d.role = role /\ d.id = i
                      /\ \A e \in docs : e.role = role /\ e.id = i =>
                                           e.capture <= d.capture
Has(docs, role, i) == \E d \in docs : d.role = role /\ d.id = i

(* The batch of the first captured identities is there: _checkpoint_batch. *)
Replayable(docs, ids) ==
  /\ ids # <<>>
  /\ \A i \in ToSet(ids) :
       /\ Has(docs, "list_item", i) /\ Has(docs, "detail_response", i)
       /\ ListOf(Newest(docs, "list_item", i).capture) \in docs

First(ids, limit) == SubSeq(ids, 1, IF limit < Len(ids) THEN limit ELSE Len(ids))

(* The regional decision and the duplicate decision of every identity of a *)
(* batch, as outcome_from_decisions joins them.                            *)
Replay(docs, ids) ==
  [i \in ToSet(ids) |-> Newest(docs, "detail_response", i).shows]
=============================================================================

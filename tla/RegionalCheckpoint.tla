-------------------------- MODULE RegionalCheckpoint --------------------------
(***************************************************************************)
(* The checkpoint of one regional source: which identities its list was    *)
(* seen to have, which of them have stored details, and what was decided   *)
(* of each.  Captures of a browser arrive at a threaded endpoint or from a *)
(* file; an audit proposes new decisions; the runtime importer decides,    *)
(* publishes and inactivates.  Each of them reads the checkpoint file,     *)
(* computes, and replaces the file; nothing orders two of them.            *)
(*                                                                         *)
(* A capture carries one page of the list, as the browser saw it, and the  *)
(* details it opened; a detail is what it shows the policy to be.  Fields  *)
(* and URLs of captures are checked before anything is read and left out.  *)
(***************************************************************************)
EXTENDS BatchCheckpoint

CONSTANTS Pages,       \* the pages of the list: sequences of identities
          Limits,      \* limits of the imports
          Kinds,       \* requests that arrive: subset of RequestKinds
          Writers,     \* threads of the endpoint and scripts
          Shown,       \* what details may show
          Before,      \* policies of the source that are active at first
          Together,    \* bound: processes at work at once
          MaxCaptures, \* bound: captures that are stored
          MaxImports,  \* bound: imports
          MaxAudits    \* bound: redecision audits

RequestKinds == {"capture", "discover", "failure", "recapture", "recover", "file"}
Id == UNION {ToSet(Pages[p]) : p \in DOMAIN Pages}

Totals == {None, Cardinality(Id)}

(* RegionalBatchCheckpoint with the fields it has. *)
Decisions == UNION {[ids -> Outcomes] : ids \in SUBSET Id}
Checkpoints ==
  [next_page : Nat \ {0}, total_count : Totals, discovery_complete : BOOLEAN,
   discovered_ids : Seq(Id), captured_ids : Seq(Id), decisions : Decisions]

ASSUME CheckpointAssumption ==
  /\ Pages \in Seq(Seq(Id))
  /\ \A p \in DOMAIN Pages : IsInjective(Pages[p])
  /\ Kinds \subseteq RequestKinds
  /\ Shown \subseteq Outcomes \ {"failed"}
  /\ Limits \subseteq 1 .. 5000
  /\ MaxImports \in Nat /\ MaxAudits \in Nat
  /\ None \notin Checkpoints

VARIABLES task,    \* what each writer does
          importer, imports,
          audit, audits,
          active,  \* policies of the source that are active
          crowded  \* history: two processes have been at work at once

vars == <<file, raw, made, task, importer, imports, audit, audits, active, crowded>>

-----------------------------------------------------------------------------
(* Requests *)

(* What a browser may send: a page of the list, perhaps without an item it *)
(* overlooked, with the total the site prints, if any; and the details.    *)
Seen(p) == {Pages[p]} \cup {RemoveAt(Pages[p], n) : n \in DOMAIN Pages[p]}
Request(kind, p, ids, total, items, excluded) ==
  [kind |-> kind, page |-> p, ids |-> ids, total_count |-> total,
   has_next |-> p < Len(Pages), items |-> items, excluded |-> excluded]

(* The page contract: RegionalPaginationSpec.validate_page, _validate. *)
PageIsAcceptable(q) ==
  /\ q.ids # <<>>
  /\ DOMAIN q.items \subseteq ToSet(q.ids)
  /\ q.total_count # None => Len(q.ids) <= q.total_count

OnPage(cp, q, amends) ==
  CASE q.page = cp.next_page -> discover(cp, q)
    [] amends /\ q.page = cp.next_page - 1 /\ Fresh(cp, q) # {} -> amend_discovery(cp, q)
    [] OTHER ->
         IF q.page < cp.next_page /\ Fresh(cp, q) = {}
         THEN {cp} ELSE {}
SameTotal(cp, q) == q.page < cp.next_page => q.total_count \in {None, cp.total_count}

(* The checkpoint a request leads to; none when it is rejected. *)
PlanPage(cp, q, amends) == {c \in OnPage(cp, q, amends) : SameTotal(cp, q)}
PlanDiscover(cp, q) == PlanPage(cp, q, FALSE)
PlanCapture(cp, q) ==
  UNION {LET new == DOMAIN q.items \ Captured(cp)
         IN IF new = {} THEN {c} ELSE capture(c, new) : c \in PlanPage(cp, q, TRUE)}
PlanFailure(cp, q) ==
  UNION {IF DOMAIN q.items \subseteq Decided(c) THEN {c}
         ELSE decide(c, [i \in DOMAIN q.items |-> "failed"]) : c \in OnPage(cp, q, FALSE)}
PlanFile(cp, q) ==
  UNION {capture(c, DOMAIN q.items) : c \in PlanPage(cp, q, FALSE)}
PlanRecapture(cp, q) ==
  IF /\ Complete(cp)
     /\ q.page < cp.next_page
     /\ Fresh(cp, q) = {}
     /\ DOMAIN q.items \subseteq Captured(cp)
     /\ q.excluded \cap Discovered(cp) = {}
     /\ IF q.excluded = {} THEN q.total_count \in {None, cp.total_count}
        ELSE /\ cp.total_count # None /\ q.total_count # None
             /\ q.total_count = cp.total_count + Cardinality(q.excluded)
  THEN {cp} ELSE {}
PlanRecover(cp, q) ==
  IF /\ Complete(cp)
     /\ q.page < cp.next_page
     /\ Fresh(cp, q) = {}
     /\ DOMAIN q.items \cap Captured(cp) = {}
     /\ \A i \in DOMAIN q.items : cp.decisions[i] = "failed"
     /\ q.total_count \in {None, cp.total_count}
  THEN capture(cp, DOMAIN q.items) ELSE {}

(* What arrives: pages as a browser sees them, with the details it opened. *)
Details(kind, ids) ==
  CASE kind = "discover" -> {<<>>}
    [] kind = "failure"  -> UNION {[{i} -> {"failed"}] : i \in ToSet(ids)}
    [] OTHER             -> UNION {[s -> Shown] : s \in SUBSET ToSet(ids) \ {{}}}
Excluded(kind) == IF kind = "recapture" THEN {{}, {None}} ELSE {{}}
Inputs(kind, p) ==
  {q \in UNION {{Request(kind, p, ids, total, items, excluded) :
                   total \in Totals, items \in Details(kind, ids),
                   excluded \in Excluded(kind)} : ids \in Seen(p)} :
     PageIsAcceptable(q)}

Plan(cp, q) ==
  CASE q.kind = "discover"  -> PlanDiscover(cp, q)
    [] q.kind = "capture"   -> PlanCapture(cp, q)
    [] q.kind = "failure"   -> PlanFailure(cp, q)
    [] q.kind = "recapture" -> PlanRecapture(cp, q)
    [] q.kind = "recover"   -> PlanRecover(cp, q)
    [] q.kind = "file"      -> PlanFile(cp, q)

-----------------------------------------------------------------------------
(* Writers *)

Idle == [step |-> "idle"]
Loaded == IF file = None THEN initial ELSE file
AtWork == {w \in Writers : task[w] # Idle} \cup
          (IF importer.step = "idle" THEN {} ELSE {None})
MayStart == Cardinality(AtWork) < Together
StartsWork == crowded' = (crowded \/ AtWork # {})

Job(items, cp) == [items |-> items, cp |-> cp]
Work(step, kind, jobs, n) == [step |-> step, kind |-> kind, jobs |-> jobs, n |-> n]
(* Everything but a discovery and a failure brings documents. *)
Storing(kind, jobs) ==
  IF kind \in {"discover", "failure"} THEN Work("save", kind, jobs, 0)
  ELSE Work("items", kind, jobs, made + 1)
Goto(w, step) == task' = [task EXCEPT ![w] = [@ EXCEPT !.step = step]]

(* A request is read, the checkpoint loaded, and the next one computed; a  *)
(* request that does not fit is refused.  A recovery and a recapture need  *)
(* a checkpoint.                                                           *)
Receive(w, kind) ==
  /\ task[w] = Idle /\ MayStart /\ made < MaxCaptures
  /\ \E p \in DOMAIN Pages : \E q \in Inputs(kind, p) : \E cp \in Plan(Loaded, q) :
       task' = [task EXCEPT ![w] = Storing(kind, <<Job(q.items, cp)>>)]
  /\ made' = IF kind \in {"discover", "failure"} THEN made ELSE made + 1
  /\ StartsWork
  /\ UNCHANGED <<file, raw, importer, imports, audit, audits, active>>

(* A file of captures: all of them are planned on the checkpoint that was  *)
(* loaded before the first document is stored.                             *)
ReadFile(w) ==
  /\ "file" \in Kinds
  /\ task[w] = Idle /\ MayStart /\ made + 1 < MaxCaptures
  /\ \E p1, p2 \in DOMAIN Pages :
     \E q1 \in Inputs("file", p1) : \E c1 \in PlanFile(Loaded, q1) :
     \E q2 \in Inputs("file", p2) : \E c2 \in PlanFile(c1, q2) :
       task' = [task EXCEPT ![w] = Storing("file", <<Job(q1.items, c1), Job(q2.items, c2)>>)]
  /\ made' = made + 2
  /\ StartsWork
  /\ UNCHANGED <<file, raw, importer, imports, audit, audits, active>>

Current(w) == Head(task[w].jobs)
Own(w) == {d \in raw : d.capture = task[w].n}

SaveItems(w) ==
  /\ task[w].step = "items"
  /\ raw' = raw \cup {ListOf(task[w].n)} \cup
        {Document("list_item", task[w].n, i, None) : i \in DOMAIN Current(w).items}
  /\ Goto(w, "details")
  /\ UNCHANGED <<file, made, importer, imports, audit, audits, active, crowded>>

SaveDetails(w) ==
  /\ task[w].step = "details"
  /\ raw' = raw \cup {Document("detail_response", task[w].n, i, Current(w).items[i]) :
                        i \in DOMAIN Current(w).items}
  /\ CASE task[w].kind = "recapture" -> task' = [task EXCEPT ![w] = Idle]
       [] task[w].kind = "recover"   -> Goto(w, "replay")
       [] OTHER                      -> Goto(w, "save")
  /\ UNCHANGED <<file, made, importer, imports, audit, audits, active, crowded>>

(* What a recovery makes of its own replay; only a closed or a reviewed    *)
(* policy may leave "failed" here.                                         *)
RecoveredOutcomes(w) ==
  LET cp == Current(w).cp
      shown == Replay(raw, cp.captured_ids)
  IN IF Replayable(raw, cp.captured_ids)
     THEN reclassify_failed(cp, [i \in DOMAIN Current(w).items |-> shown[i]])
     ELSE {}

ReplayRecovery(w) ==
  /\ task[w].step = "replay"
  /\ \E cp \in RecoveredOutcomes(w) :
       task' = [task EXCEPT ![w] =
                  Work("save", "recover", <<Job(Current(w).items, cp)>>, task[w].n)]
  /\ UNCHANGED <<file, raw, made, importer, imports, audit, audits, active, crowded>>

SaveCheckpoint(w) ==
  /\ task[w].step = "save"
  /\ file' = Current(w).cp
  /\ task' = IF Len(task[w].jobs) = 1 THEN [task EXCEPT ![w] = Idle]
             ELSE [task EXCEPT ![w] =
                     Work("items", "file", Tail(task[w].jobs), task[w].n + 1)]
  /\ UNCHANGED <<raw, made, importer, imports, audit, audits, active, crowded>>

(* mutant: the documents of the identities of the request are removed *)
UndoAll(w) ==
  raw \ {d \in raw : d.role # "list_response" /\ d.id \in DOMAIN Current(w).items}

(* A file cannot be written, or a replay refuses: the request takes back   *)
(* the documents it made.                                                  *)
Undo(w) == raw \ Own(w)
Fail(w) ==
  /\ task[w] # Idle
  /\ raw' = Undo(w)
  /\ task' = [task EXCEPT ![w] = Idle]
  /\ UNCHANGED <<file, made, importer, imports, audit, audits, active, crowded>>

(* The process is killed: its documents stay. *)
Die(w) ==
  /\ task[w] # Idle
  /\ task' = [task EXCEPT ![w] = Idle]
  /\ UNCHANGED <<file, raw, made, importer, imports, audit, audits, active, crowded>>

-----------------------------------------------------------------------------
(* Redecision audit *)

AllowedTransitions == {<<"review", "closed">>, <<"duplicate", "review">>,
                       <<"review", "accepted">>, <<"review", "duplicate">>}
(* Which identities change from what to what; a failed one is left alone. *)
Proposed(cp, shown) ==
  [i \in Decided(cp) \cup DOMAIN shown |->
     IF i \in DOMAIN shown /\ ~(i \in Decided(cp) /\ cp.decisions[i] = "failed")
     THEN shown[i] ELSE cp.decisions[i]]
Transitions(cp, outcomes) ==
  {<<i, cp.decisions[i], outcomes[i]>> : i \in {j \in Decided(cp) :
                                            outcomes[j] # cp.decisions[j]}}

(* The audit reads the checkpoint and replays all of it; a report that is  *)
(* not ready is as good as none: a captured identity is undecided, or a    *)
(* decision would change as none may.                                      *)
AuditRedecision ==
  /\ audits < MaxAudits
  /\ file # None /\ Replayable(raw, file.captured_ids)
  /\ LET proposed == Proposed(file, Replay(raw, file.captured_ids))
         changes == Transitions(file, proposed)
     IN audit' = IF /\ DOMAIN proposed = Decided(file)
                    /\ \A c \in changes : <<c[2], c[3]>> \in AllowedTransitions
                 THEN changes ELSE {}
  /\ audits' = audits + 1
  /\ UNCHANGED <<file, raw, made, task, importer, imports, active, crowded>>

-----------------------------------------------------------------------------
(* Runtime import *)

Resting == [step |-> "idle"]

ReadDocuments(limit) ==
  /\ importer = Resting /\ MayStart /\ imports < MaxImports
  /\ importer' = [step |-> "read", docs |-> raw, limit |-> limit]
  /\ imports' = imports + 1
  /\ StartsWork
  /\ UNCHANGED <<file, raw, made, task, audit, audits, active>>

(* The checkpoint chooses the batch; without one the newest list is the    *)
(* batch and the import ends without a decision, which is left out.        *)
ReplayCheckpoint ==
  /\ importer.step = "read"
  /\ file # None
  /\ LET ids == First(file.captured_ids, importer.limit)
     IN /\ Replayable(importer.docs, ids)
        /\ importer' = [step |-> "replayed", shown |-> Replay(importer.docs, ids),
                         clean |-> FALSE]
  /\ UNCHANGED <<file, raw, made, task, imports, audit, audits, active, crowded>>

Accepted(outcomes) == {i \in DOMAIN outcomes : outcomes[i] = "accepted"}

(* One transaction: the programs it stores are active.  clean: nothing was *)
(* invalid, rejected, skipped or failed, and all that is accepted is       *)
(* stored.  Else invalid ones have given no program, or the batch was      *)
(* refused or rolled back; import_programs says so and raises nothing, and *)
(* the import goes on.                                                     *)
CommitPrograms(stored, clean) ==
  /\ importer.step = "replayed"
  /\ clean => stored = Accepted(importer.shown)
  /\ active' = active \cup stored
  /\ importer' = [importer EXCEPT !.step = "committed", !.clean = clean]
  /\ UNCHANGED <<file, raw, made, task, imports, audit, audits, crowded>>

(* Decisions of the checkpoint as it is now and of the replay; a captured  *)
(* identity the replay does not have has failed.                           *)
FinalOutcomes(cp, shown) ==
  LET proposed == Proposed(cp, shown)
  IN [i \in DOMAIN proposed \cup Captured(cp) |->
        IF i \in DOMAIN proposed THEN proposed[i] ELSE "failed"]
Finalized(cp, shown) ==
  LET outcomes == FinalOutcomes(cp, shown)
      drift == Transitions(cp, outcomes)
      pending == Restrict(outcomes, DOMAIN outcomes \ Decided(cp))
      next == IF drift # {} THEN IF drift = audit THEN redecide(cp, outcomes) ELSE {}
              ELSE IF DOMAIN pending = {} THEN {cp} ELSE decide(cp, pending)
  IN {c \in next : cp.discovery_complete /\ Complete(c)}

LoadAgain ==
  /\ importer.step = "committed"
  /\ file # None
  /\ \E cp \in Finalized(file, importer.shown) :
       importer' = [step |-> "finalized", cp |-> cp, shown |-> importer.shown,
                    clean |-> importer.clean]
  /\ UNCHANGED <<file, raw, made, task, imports, audit, audits, active, crowded>>

SaveFinal ==
  /\ importer.step = "finalized"
  /\ file' = importer.cp
  /\ importer' = [importer EXCEPT !.step = "saved"]
  /\ UNCHANGED <<raw, made, task, imports, audit, audits, active, crowded>>

Observed(cp) == Discovered(cp)
(* mutant: failed identities do not stop the inactivation *)
LifecycleDespiteFailures(cp, clean) == clean /\ Complete(cp)
(* mutant: what was not stored does not stop the inactivation *)
LifecycleWhateverStored(cp, clean) ==
  Complete(cp) /\ \A i \in Decided(cp) : cp.decisions[i] # "failed"

LifecycleIsComplete(cp, clean) ==
  /\ clean /\ Complete(cp)
  /\ \A i \in Decided(cp) : cp.decisions[i] # "failed"
InactivateMissing ==
  /\ importer.step = "saved"
  /\ active' = IF LifecycleIsComplete(importer.cp, importer.clean)
               THEN active \cap Observed(importer.cp) ELSE active
  /\ importer' = Resting
  /\ UNCHANGED <<file, raw, made, task, imports, audit, audits, crowded>>

(* Any error, and a process that is killed, ends the import where it is. *)
ImportEnds ==
  /\ importer # Resting
  /\ importer' = Resting
  /\ UNCHANGED <<file, raw, made, task, imports, audit, audits, active, crowded>>

-----------------------------------------------------------------------------
Init ==
  /\ file = None /\ raw = {} /\ made = 0
  /\ task = [w \in Writers |-> Idle]
  /\ importer = Resting /\ imports = 0
  /\ audit = {} /\ audits = 0
  /\ active = Before
  /\ crowded = FALSE

Write(w) ==
  \/ \E kind \in Kinds \ {"file"} : Receive(w, kind)
  \/ ReadFile(w)
  \/ SaveItems(w) \/ SaveDetails(w) \/ ReplayRecovery(w) \/ SaveCheckpoint(w)
  \/ Fail(w) \/ Die(w)

Import ==
  \/ \E limit \in Limits : ReadDocuments(limit)
  \/ ReplayCheckpoint
  \/ /\ importer.step = "replayed"
     /\ \E stored \in SUBSET Accepted(importer.shown), clean \in BOOLEAN :
          CommitPrograms(stored, clean)
  \/ LoadAgain \/ SaveFinal \/ InactivateMissing \/ ImportEnds

Next == (\E w \in Writers : Write(w)) \/ Import \/ AuditRedecision

Spec == Init /\ [][Next]_vars

-----------------------------------------------------------------------------
(* Properties *)

(* Every state variable has its type, and the checkpoint file is one that  *)
(* __post_init__ accepts: no operation builds a checkpoint it then refuses *)
(* to load.                                                                *)
TypeOK ==
  /\ file # None => Valid(file)
  /\ \A w \in Writers : \A k \in DOMAIN (IF task[w] = Idle THEN <<>> ELSE task[w].jobs) :
       Valid(task[w].jobs[k].cp)
  /\ \A d \in raw : /\ d.role \in {"list_response", "list_item", "detail_response"}
                     /\ d.capture \in 1 .. made
  /\ made \in Nat /\ imports \in 0 .. MaxImports /\ audits \in 0 .. MaxAudits
  /\ active \subseteq Id \cup Before
  /\ crowded \in BOOLEAN

(* Every captured identity of the checkpoint has its item, its list page   *)
(* and its detail among the Raw documents, however writers interleave,     *)
(* fail and die: a later replay does not end for missing documents.        *)
CapturedHasRaw ==
  file # None /\ file.captured_ids # <<>> => Replayable(raw, file.captured_ids)

(* What the checkpoint calls accepted need not be stored: the importer     *)
(* writes its decisions also when the batch was refused, failed or had     *)
(* invalid policies (import_runtime_raw), and a later import may read a    *)
(* part of the captures only.  But an import that takes its result for the *)
(* whole source, and inactivates by it, has every accepted policy active   *)
(* and on the list if it read all captures, whatever earlier imports left  *)
(* out and whoever captures, audits, fails or dies beside it.              *)
CompleteImportIsWhole ==
  /\ importer.step = "saved"
  /\ LifecycleIsComplete(importer.cp, importer.clean)
  /\ Captured(importer.cp) \subseteq DOMAIN importer.shown
  => Accepted(importer.cp.decisions) \subseteq active \cap Observed(importer.cp)

(* What a checkpoint holds stays: identities and captures in their order,  *)
(* and each decision but those an audit or a recovery replaces.  The file  *)
(* is written whole or not at all, so that no crash loses any of it.       *)
Keeps(old, new) ==
  /\ IsPrefix(old.discovered_ids, new.discovered_ids)
  /\ IsPrefix(old.captured_ids, new.captured_ids)
  /\ Decided(old) \subseteq Decided(new)
  /\ old.next_page <= new.next_page

(* A completed round takes no identity that appears later.                 *)
KeepsRound(old, new) ==
  Complete(old) => Complete(new) /\ new.discovered_ids = old.discovered_ids

(* Only a recovery, which brings the detail that was missing, takes        *)
(* "failed" away from an identity, and never to publish it.                *)
RecoversFailures(old, new) ==
  \A i \in Decided(old) :
    old.decisions[i] = "failed" /\ new.decisions[i] # "failed" =>
      /\ i \notin Captured(old) /\ i \in Captured(new)
      /\ new.decisions[i] \in {"review", "closed"}

KeepsItsWord(old, new) ==
  old # None =>
    new # None /\ Keeps(old, new) /\ KeepsRound(old, new) /\ RecoversFailures(old, new)

(* As long as no two processes have been at work at once, whatever the     *)
(* checkpoint file says it goes on to say, and a process that is killed    *)
(* takes nothing of it away.                                               *)
NothingIsForgotten == [][~crowded => KeepsItsWord(file, file')]_file

(* A policy is inactivated only when the list was seen to its end without  *)
(* it and no identity of the list has failed, as long as no two processes  *)
(* have been at work at once.                                              *)
EndsUnseenPolicies ==
  \A i \in active \ active' :
       /\ Complete(file) /\ i \notin Discovered(file)
       /\ \A j \in Decided(file) : file.decisions[j] # "failed"
OnlyUnseenPoliciesEnd == [][~crowded => EndsUnseenPolicies]_active

(* A capture that was recorded stays recorded.                             *)
RecordedCapturesStay ==
  [][file # None => Captured(file) \subseteq Captured(file')]_file
=============================================================================

---------------------------- MODULE PolicyStore ----------------------------
(***************************************************************************)
(* The policies table and the processes that write it: runtime imports     *)
(* (runtime_importer.py, seed_importer.py, policy_lifecycle.py) and        *)
(* installations of a public dataset (public_dataset_installer.py).        *)
(*                                                                         *)
(* PostgreSQL runs every transaction at READ COMMITTED.  A process writes  *)
(* to its own copy of a row (`pending') and thereby locks the row; another *)
(* writer of that row waits; a reader sees committed rows.  A statement    *)
(* that selects rows sees the commits before its start, and looks again at *)
(* a row, but at no other table, when it waited for that row's lock.       *)
(***************************************************************************)
EXTENDS FiniteSets, Integers, Functions

CONSTANTS Policy,      \* identities (source_id, external_id)
          Source,
          SourceOf,    \* the source of an identity
          Content,     \* the business fields of a policy
          Collected,   \* those a collection gives
          Time,        \* instants at which a batch was collected
          Importer,    \* processes that run import_runtime_raw
          Installer,   \* processes that run install_public_dataset
          Version,     \* dataset versions
          Release,     \* verified releases: artifacts with a manifest
          VersionOf,   \* the version a release states
          Artifact,    \* its rows: identity -> business fields
          ReleaseTime, \* collected_at of the rows of an artifact
          None,        \* no job, no installation
          MaxEvents    \* bound: changes of what a source lists, crashes
                       \* and database errors

ASSUME StoreAssumption ==
  /\ SourceOf \in [Policy -> Source]
  /\ Time \subseteq Nat /\ Collected \subseteq Content
  /\ VersionOf \in [Release -> Version] /\ None \notin Release
  /\ ReleaseTime \in Time
  /\ \A r \in Release : /\ DOMAIN Artifact[r] \subseteq Policy
                        /\ DOMAIN Artifact[r] # {}
                        /\ \A p \in DOMAIN Artifact[r] : Artifact[r][p] \in Content
  /\ Importer \cap Installer = {}
  /\ MaxEvents \in Nat

VARIABLES table,     \* committed rows of policies
          pending,   \* process -> rows it wrote and has not committed
          installed, \* version -> the release installed as it, or None
          active,    \* versions whose installation has status active
          pc,        \* where a process is
          job,       \* what it works on: a batch or a release
          todo,      \* identities its current loop or statement still visits
          old,       \* the active versions an installer's UPDATE saw
          listing,   \* what each source lists now
          events     \* changes of sources and faults so far

vars == <<table, pending, installed, active, pc, job, todo, old, listing, events>>

Proc == Importer \cup Installer

Absent == [there |-> FALSE]
Row == [there : {TRUE}, content : Content, seen : Time, inactive : BOOLEAN]

(* A batch as replay_runtime_raw hands it over: the programs to store, the *)
(* identities that were observed (review, duplicates and invalid records   *)
(* included), whether the manifest covers the whole source, whether the    *)
(* replay counted an invalid record, whether the preflight of              *)
(* import_programs skips or rejects one of the programs.                   *)
Batch == [source : Source, items : SUBSET Policy, content : Content,
          at : Time, observed : SUBSET Policy, complete : BOOLEAN,
          invalid : BOOLEAN, refused : BOOLEAN, dry : BOOLEAN]

-----------------------------------------------------------------------------
(* Reading *)

(* Identities of the installation with status active. *)
Published ==
  UNION {DOMAIN Artifact[installed[v]] : v \in {w \in active : installed[w] # None}}

(* public_policy_predicates and the membership: what a user can be shown. *)
Visible == {p \in Published : table[p].there /\ ~table[p].inactive}

LockedFor(i, p) == \E j \in Proc \ {i} : p \in DOMAIN pending[j]

(* The row as process i sees it. *)
Seen(i, p) == IF p \in DOMAIN pending[i] THEN pending[i][p] ELSE table[p]

-----------------------------------------------------------------------------
(* Writing one row *)

Later(s, t) == IF s < t THEN t ELSE s

UpsertedLatest(row, content, at) ==           \* mutant: last_seen_at as collected
  [there |-> TRUE, content |-> content, inactive |-> FALSE, seen |-> at]

(* INSERT .. ON CONFLICT DO UPDATE, or the refresh of an unchanged row:    *)
(* new fields, never an earlier last_seen_at, and inactive_at cleared.     *)
Upserted(row, content, at) ==
  [there |-> TRUE, content |-> content, inactive |-> FALSE,
   seen |-> IF row.there THEN Later(row.seen, at) ELSE at]

Write(i, p, row) ==
  pending' = [pending EXCEPT ![i] = [q \in DOMAIN @ \cup {p} |->
                                       IF q = p THEN row ELSE @[q]]]

Discard(i) == pending' = [pending EXCEPT ![i] = <<>>]

Publish(i) ==
  table' = [p \in Policy |-> Seen(i, p)]

AnyOf(S) == CHOOSE x \in S : TRUE

Goto(i, where) == pc' = [pc EXCEPT ![i] = where]

Finish(i) ==
  /\ Goto(i, "idle")
  /\ job' = [job EXCEPT ![i] = None]
  /\ todo' = [todo EXCEPT ![i] = {}]
  /\ old' = [old EXCEPT ![i] = {}]

-----------------------------------------------------------------------------
(* A runtime import *)

(* The preflight saw neither a skipped nor a rejected program. *)
Accepted(b) == ~b.refused

(* import_programs: a refused batch writes nothing and ends uncommitted,   *)
(* also for the lifecycle.  Any other, one of a replay with invalid        *)
(* records too, begins and reads the identities of the active dataset once. *)
BeginImport(i, b) ==
  /\ pc[i] = "idle"
  /\ IF Accepted(b)
     THEN /\ Goto(i, "upserting")
          /\ job' = [job EXCEPT ![i] = b]
          /\ todo' = [todo EXCEPT ![i] = b.items \ Published]
          /\ UNCHANGED old
     ELSE Finish(i)
  /\ UNCHANGED <<table, pending, installed, active, listing, events>>

(* _postgresql_upsert of one program, once no other process holds the row. *)
ImportRow(i, p) ==
  /\ pc[i] = "upserting"
  /\ p \in todo[i]
  /\ ~LockedFor(i, p)
  /\ Write(i, p, Upserted(table[p], job[i].content, job[i].at))
  /\ todo' = [todo EXCEPT ![i] = @ \ {p}]
  /\ UNCHANGED <<table, installed, active, pc, job, old, listing, events>>

LifecycleIsCommitted(b) == ~b.invalid /\ ~b.dry  \* mutant: a partial batch counts
LifecycleIsWhole(b) == b.complete /\ ~b.dry       \* mutant: invalid records are no matter

(* _snapshot_lifecycle_is_complete, of a batch that was committed unless   *)
(* it was a dry run.                                                       *)
LifecycleIsComplete(b) == b.complete /\ ~b.invalid /\ ~b.dry

(* What follows the batch uses its identities only. *)
Identities(b) ==
  [source |-> b.source, items |-> {}, content |-> AnyOf(Collected), at |-> AnyOf(Time),
   observed |-> b.observed, complete |-> b.complete, invalid |-> b.invalid,
   refused |-> b.refused, dry |-> b.dry]

(* The end of the batch: commit, or roll back a dry run. *)
CommitImport(i) ==
  /\ pc[i] = "upserting"
  /\ todo[i] = {}
  /\ IF job[i].dry THEN UNCHANGED table ELSE Publish(i)
  /\ Discard(i)
  /\ IF LifecycleIsComplete(job[i])
     THEN /\ Goto(i, "imported")
          /\ job' = [job EXCEPT ![i] = Identities(@)]
          /\ UNCHANGED <<todo, old>>
     ELSE Finish(i)
  /\ UNCHANGED <<installed, active, listing, events>>

MissingAnything(b) ==         \* mutant: the UPDATE does not look at memberships
  {p \in Policy : /\ SourceOf[p] = b.source
                  /\ table[p].there /\ ~table[p].inactive
                  /\ p \notin b.observed}

(* The rows the UPDATE of mark_missing_policies_inactive selects. *)
Missing(b) ==
  {p \in Policy : /\ SourceOf[p] = b.source
                  /\ table[p].there /\ ~table[p].inactive
                  /\ p \notin Published
                  /\ p \notin b.observed}

(* What the subquery on the memberships answers when the UPDATE starts. *)
Updating(b) ==
  [source |-> b.source, observed |-> b.observed, complete |-> b.complete,
   invalid |-> b.invalid, dry |-> b.dry, published |-> Published]

(* A second transaction: the UPDATE starts with what is committed now. *)
BeginMark(i) ==
  /\ pc[i] = "imported"
  /\ Goto(i, "marking")
  /\ todo' = [todo EXCEPT ![i] = Missing(job[i])]
  /\ job' = [job EXCEPT ![i] = Updating(@)]
  /\ UNCHANGED <<table, pending, installed, active, old, listing, events>>

(* A selected row, once it is not locked: the condition on the row itself  *)
(* is tested again, the subquery on the memberships is not.                *)
MarkRow(i, p) ==
  /\ pc[i] = "marking"
  /\ p \in todo[i]
  /\ ~LockedFor(i, p)
  /\ IF table[p].inactive
     THEN UNCHANGED pending
     ELSE Write(i, p, [table[p] EXCEPT !.inactive = TRUE])
  /\ todo' = [todo EXCEPT ![i] = @ \ {p}]
  /\ UNCHANGED <<table, installed, active, pc, job, old, listing, events>>

CommitMarkUnsaved(i) ==                       \* mutant: db.commit() is missing
  /\ pc[i] = "marking"
  /\ todo[i] = {}
  /\ Discard(i)
  /\ Finish(i)
  /\ UNCHANGED <<table, installed, active, listing, events>>

CommitMark(i) ==
  /\ pc[i] = "marking"
  /\ todo[i] = {}
  /\ Publish(i)
  /\ Discard(i)
  /\ Finish(i)
  /\ UNCHANGED <<installed, active, listing, events>>

-----------------------------------------------------------------------------
(* An installation: one transaction *)

BeginInstallProtected(i, r) ==    \* mutant: allow_active_public_updates is FALSE
  /\ pc[i] = "idle"
  /\ Goto(i, "installing")
  /\ job' = [job EXCEPT ![i] = r]
  /\ todo' = [todo EXCEPT ![i] = DOMAIN Artifact[r] \ Published]
  /\ UNCHANGED <<table, pending, installed, active, old, listing, events>>

(* import_seed_data with allow_active_public_updates. *)
BeginInstall(i, r) ==
  /\ pc[i] = "idle"
  /\ Goto(i, "installing")
  /\ job' = [job EXCEPT ![i] = r]
  /\ todo' = [todo EXCEPT ![i] = DOMAIN Artifact[r]]
  /\ UNCHANGED <<table, pending, installed, active, old, listing, events>>

InstallRow(i, p) ==
  /\ pc[i] = "installing"
  /\ p \in todo[i]
  /\ ~LockedFor(i, p)
  /\ Write(i, p, Upserted(table[p], Artifact[job[i]][p], ReleaseTime))
  /\ todo' = [todo EXCEPT ![i] = @ \ {p}]
  /\ UNCHANGED <<table, installed, active, pc, job, old, listing, events>>

(* The version was installed from another manifest or artifact. *)
Conflicts(r) == installed[VersionOf[r]] \notin {None, r}

(* The memberships are replaced, and the UPDATE that deactivates           *)
(* installations starts with what is committed.                            *)
ReplaceMemberships(i) ==
  /\ Goto(i, "recorded")
  /\ old' = [old EXCEPT ![i] = active]
  /\ UNCHANGED <<pending, job, todo>>

RollBack(i) == Discard(i) /\ Finish(i)

(* Identities resolve to the rows just written, and the installation of    *)
(* the version is looked up: one with other hashes rolls everything back.  *)
Record(i) ==
  /\ pc[i] = "installing"
  /\ todo[i] = {}
  /\ \/ Conflicts(job[i]) /\ RollBack(i)
     \/ /\ installed[VersionOf[job[i]]] = job[i]
        /\ ReplaceMemberships(i)
     \/ /\ installed[VersionOf[job[i]]] = None
        /\ Goto(i, "inserting")
        /\ UNCHANGED <<pending, job, todo, old>>
  /\ UNCHANGED <<table, installed, active, listing, events>>

(* Another installer inserted the same version and has not committed. *)
KeyLocked(i) ==
  \E j \in Installer \ {i} : /\ pc[j] \in {"recorded", "activated"}
                             /\ VersionOf[job[j]] = VersionOf[job[i]]

(* The new installation row, once its primary key is not locked: an error  *)
(* and a rollback if the other installer committed it.                     *)
Insert(i) ==
  /\ pc[i] = "inserting"
  /\ ~KeyLocked(i)
  /\ IF installed[VersionOf[job[i]]] = None THEN ReplaceMemberships(i) ELSE RollBack(i)
  /\ UNCHANGED <<table, installed, active, listing, events>>

(* Another installer changed the active installation and has not committed. *)
SwitchLocked(i) == \E j \in Installer \ {i} : pc[j] = "activated"

AnyActive(versions) == TRUE                   \* mutant: no unique index

(* uq_public_dataset_installations_one_active *)
OneActive(versions) == Cardinality(versions) <= 1

(* The installations the UPDATE saw become installed, this one active; the *)
(* unique index refuses a second active one, which rolls back.             *)
Activate(i) ==
  LET after == (active \ old[i]) \cup {VersionOf[job[i]]}
  IN  /\ pc[i] = "recorded"
      /\ ~SwitchLocked(i)
      /\ IF OneActive(after)
         THEN Goto(i, "activated") /\ UNCHANGED <<pending, job, todo, old>>
         ELSE RollBack(i)
      /\ UNCHANGED <<table, installed, active, listing, events>>

CommitInstall(i) ==
  /\ pc[i] = "activated"
  /\ Publish(i)
  /\ Discard(i)
  /\ installed' = [installed EXCEPT ![VersionOf[job[i]]] = job[i]]
  /\ active' = (active \ old[i]) \cup {VersionOf[job[i]]}
  /\ Finish(i)
  /\ UNCHANGED <<listing, events>>

-----------------------------------------------------------------------------
(* Faults and the environment *)

(* Every row a process still needs is held by a process that waits for it. *)
WaitsFor(i, j) == \A p \in todo[i] : p \in DOMAIN pending[j]
Deadlocked(i) ==
  /\ pc[i] \in {"upserting", "installing", "marking"}
  /\ todo[i] # {}
  /\ \E j \in Proc \ {i} :
       /\ pc[j] \in {"upserting", "installing", "marking"}
       /\ todo[j] # {} /\ WaitsFor(i, j) /\ WaitsFor(j, i)

(* PostgreSQL ends a deadlock by an error in one transaction: failed = 1   *)
(* and a rollback in an import, an exception in an installation.           *)
DeadlockVictim(i) ==
  /\ Deadlocked(i)
  /\ Discard(i)
  /\ Finish(i)
  /\ UNCHANGED <<table, installed, active, listing, events>>

(* The process dies, or a statement fails: its transaction is gone, and    *)
(* what the job had still to do is not done.                               *)
Fail(i) ==
  /\ pc[i] # "idle"
  /\ events < MaxEvents
  /\ events' = events + 1
  /\ Discard(i)
  /\ Finish(i)
  /\ UNCHANGED <<table, installed, active, listing>>

(* A source adds or drops policies. *)
SourceChanges(s, now) ==
  /\ events < MaxEvents
  /\ now # listing[s]
  /\ events' = events + 1
  /\ listing' = [listing EXCEPT ![s] = now]
  /\ UNCHANGED <<table, pending, installed, active, pc, job, todo, old>>

-----------------------------------------------------------------------------
PoliciesOf(s) == {p \in Policy : SourceOf[p] = s}

(* Batches a collection of what source s lists now can give: partial or    *)
(* complete ones, complete ones with invalid records, which give no        *)
(* program, dry and refused ones.  Fields and time matter for a batch that *)
(* has items, and are free where nothing is invalid: with invalid records  *)
(* it writes what a partial one does.  Of a dry run, which leaves nothing, *)
(* matters only that it holds rows, of a refused one nothing.              *)
BatchOf(s, items, content, at, kind) ==
  [source |-> s, items |-> items, content |-> content, at |-> at,
   observed |-> IF kind = "partial" THEN items ELSE listing[s],
   complete |-> kind # "partial", invalid |-> kind = "invalid",
   refused |-> kind = "refused", dry |-> kind = "dry"]

Batches(s) ==
  {b \in {BatchOf(s, items, content, at, kind) :
            items \in SUBSET listing[s], content \in Collected, at \in Time,
            kind \in {"partial", "whole", "invalid", "dry", "refused"}} :
     /\ b.items = {} \/ b.invalid \/ b.dry \/ b.refused =>
          b.content = AnyOf(Collected) /\ b.at = AnyOf(Time)
     /\ b.invalid => b.items # b.observed
     /\ b.dry \/ b.refused => b.items = b.observed}

Init ==
  /\ table = [p \in Policy |-> Absent]
  /\ pending = [i \in Proc |-> <<>>]
  /\ installed = [v \in Version |-> None]
  /\ active = {}
  /\ pc = [i \in Proc |-> "idle"]
  /\ job = [i \in Proc |-> None]
  /\ todo = [i \in Proc |-> {}]
  /\ old = [i \in Proc |-> {}]
  /\ listing = [s \in Source |-> PoliciesOf(s)]
  /\ events = 0

ImportStep(i) ==
  \/ \E p \in Policy : ImportRow(i, p) \/ MarkRow(i, p)
  \/ CommitImport(i) \/ BeginMark(i) \/ CommitMark(i)

InstallStep(i) ==
  \/ \E p \in Policy : InstallRow(i, p)
  \/ Record(i) \/ Insert(i) \/ Activate(i) \/ CommitInstall(i)

Next ==
  \/ \E i \in Importer : \E s \in Source : \E b \in Batches(s) : BeginImport(i, b)
  \/ \E i \in Importer : ImportStep(i)
  \/ \E i \in Installer : \E r \in Release : BeginInstall(i, r)
  \/ \E i \in Installer : InstallStep(i)
  \/ \E i \in Proc : DeadlockVictim(i) \/ Fail(i)
  \/ \E s \in Source : \E now \in SUBSET PoliciesOf(s) : SourceChanges(s, now)

Spec == Init /\ [][Next]_vars

(* The schedule collects a source again and again, completely and cleanly  *)
(* in the end; a process that runs goes on, and PostgreSQL queues those    *)
(* that wait for a row lock, so that none waits for ever.                  *)
CompleteImport(i, s) ==
  \E b \in Batches(s) : /\ Accepted(b) /\ LifecycleIsComplete(b)
                        /\ BeginImport(i, b)

Fairness ==
  /\ \A i \in Importer : SF_vars(ImportStep(i) \/ DeadlockVictim(i))
  /\ \A i \in Installer : WF_vars(InstallStep(i) \/ DeadlockVictim(i))
  /\ \A s \in Source : SF_vars(\E i \in Importer : CompleteImport(i, s))

FairSpec == Spec /\ Fairness

-----------------------------------------------------------------------------
(* Properties *)

(* public_policy_dataset.md: all rows of a release become visible with its *)
(* activation, in one step, with the fields of its artifact, whatever      *)
(* imports and installations run beside it, and no other release stays     *)
(* active beside it (install_public_dataset).                              *)
ActivationIsWhole ==
  [][/\ Cardinality(active') <= 1
     /\ \A r \in Release :
          installed'[VersionOf[r]] = r /\ VersionOf[r] \in active' \ active =>
            \A p \in DOMAIN Artifact[r] :
              /\ p \in Visible'
              /\ table'[p].content = Artifact[r][p]]_vars

(* policy_lifecycle.md: last_seen_at never goes back and a row is never    *)
(* deleted, with imports of old and new batches and installations at once. *)
RowsNeverRegress ==
  [][\A p \in Policy : table[p].there =>
       table'[p].there /\ table'[p].seen >= table[p].seen]_vars

(* policy_lifecycle.md, mark_missing_policies_inactive: only a complete    *)
(* run of the policy's own source, committed and without invalid records,  *)
(* that did not observe it makes a policy inactive, and none that was      *)
(* published when the UPDATE began: imports that leave records out,        *)
(* refused and dry ones, installations and faults may come in between.     *)
OnlyProvenAbsence ==
  [][\A p \in Policy :
       table[p].there /\ ~table[p].inactive /\ table'[p].inactive =>
         \E i \in Importer :
           /\ pc[i] = "marking"
           /\ job[i].complete /\ ~job[i].invalid /\ ~job[i].dry
           /\ p \in PoliciesOf(job[i].source) \ job[i].observed
           /\ p \notin job[i].published]_vars

Shown(p) == table[p].there /\ ~table[p].inactive

(* A crash between the commit of a batch and the inactivation is repaired  *)
(* by the next complete run: a policy that its source stopped listing and  *)
(* that no active dataset has does not stay active.                        *)
GoneBecomesInactive ==
  \A p \in Policy :
    <>[](p \notin listing[SourceOf[p]] /\ p \notin Published) => <>[](~Shown(p))

(* test_public_dataset_import.py: a manual collection never overwrites a   *)
(* published policy.  The identities are read before the upserts, so an    *)
(* installation in between is not seen (seed_importer.py:511).             *)
PublishedContentIsKept ==
  [][\A p \in Policy :
       active' = active /\ installed' = installed /\ p \in Published =>
         table'[p].content = table[p].content]_vars

(* policy_database_mapping.md: a collection does not make a published      *)
(* policy inactive either.  An UPDATE that waits for the row of an         *)
(* installation does not look at the memberships again once the            *)
(* installation is committed (policy_lifecycle.py:56).                     *)
PublishedStaysShown ==
  [][\A p \in Policy :
       active' = active /\ installed' = installed /\ p \in Published /\ Shown(p) =>
         ~table'[p].inactive]_vars

=============================================================================

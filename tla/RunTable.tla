------------------------------ MODULE RunTable ------------------------------
(***************************************************************************)
(* The collection_runs table: the shape of a row, the constraints under    *)
(* which PostgreSQL commits a change, and the statements the services      *)
(* issue.  A table is a function from the identifiers of its rows to rows. *)
(*                                                                         *)
(* The services never lock a row.  They load it into a session, test and   *)
(* assign its attributes, and commit; the ORM then writes the columns      *)
(* whose value differs from the one LOADED, whatever the row holds by then *)
(* (operator Flush).                                                       *)
(***************************************************************************)
EXTENDS Naturals

CONSTANT Sources    \* the sources of policies a run may collect

Active   == {"queued", "running"}
Terminal == {"succeeded", "partial_failure", "failed"}

\* error_type, reduced to who closed the row: "none" is NULL, and
\* "ExecutionError" stands for the class name of any exception of a run.
ErrorTypes == {"none", "ExecutionError", "StaleCollectionRunReplaced",
               "SourceCollectionLockTimeout", "CollectionQueuePublishError"}

\* finished_at is reduced to "IS NOT NULL", and failed_count to 0 or more.
Rows == [source               : Sources,
         status               : Active \cup Terminal,
         finished_at          : BOOLEAN,
         error_type           : ErrorTypes,
         failed_count         : {0, 1},
         is_complete_snapshot : BOOLEAN]

NewRow(s, status) ==
  [source |-> s, status |-> status, finished_at |-> FALSE,
   error_type |-> "none", failed_count |-> 0, is_complete_snapshot |-> FALSE]

-----------------------------------------------------------------------------
(***************************************************************************)
(* Constraints.                                                            *)
(***************************************************************************)

\* ck_collection_runs_terminal_finished_at
TerminalFinishedOnly(row) ==    \* mutant: one direction of the constraint
  row.status \notin Active => row.finished_at

TerminalFinishedAt(row) == row.status \in Active <=> ~row.finished_at

ActiveRuns(t, s) == {r \in DOMAIN t : t[r].source = s /\ t[r].status \in Active}

\* uq_collection_runs_active_source, the partial unique index
UniqueQueuedSource(t) ==        \* mutant: the index covers queued runs only
  \A r, q \in DOMAIN t :
    /\ t[r].status = "queued"
    /\ t[q].status = "queued"
    /\ t[r].source = t[q].source
    => r = q

UniqueActiveSource(t) ==
  \A r, q \in DOMAIN t :
    /\ t[r].status \in Active
    /\ t[q].status \in Active
    /\ t[r].source = t[q].source
    => r = q

\* The table accepts a commit that would leave it as t.
Accepts(t) == /\ \A r \in DOMAIN t : TerminalFinishedAt(t[r])
              /\ UniqueActiveSource(t)

-----------------------------------------------------------------------------
(***************************************************************************)
(* Statements.                                                             *)
(***************************************************************************)

Insert(t, r, row) == [q \in DOMAIN t \cup {r} |-> IF q = r THEN row ELSE t[q]]

Dirty(current, loaded, new) == IF new = loaded THEN current ELSE new

\* The row after the UPDATE of a session that loaded `loaded', assigned the
\* attributes of `new', and flushes when the row is `current'.
Flush(current, loaded, new) ==
  [source       |-> current.source,
   status       |-> Dirty(current.status, loaded.status, new.status),
   finished_at  |-> Dirty(current.finished_at, loaded.finished_at, new.finished_at),
   error_type   |-> Dirty(current.error_type, loaded.error_type, new.error_type),
   failed_count |-> Dirty(current.failed_count, loaded.failed_count, new.failed_count),
   is_complete_snapshot |-> Dirty(current.is_complete_snapshot,
                                  loaded.is_complete_snapshot,
                                  new.is_complete_snapshot)]

\* What CollectionRunWriter.mark_running assigns.
Claimed(loaded) == [loaded EXCEPT !.status = "running"]

\* What CollectionRunWriter.finish assigns.
Finished(loaded, status, failed, error, complete) ==
  [loaded EXCEPT !.status = status,
                 !.finished_at = TRUE,
                 !.error_type = error,
                 !.failed_count = failed,
                 !.is_complete_snapshot = complete]

\* What the trigger service assigns to a stale run, and the endpoint to a run
\* it could not publish: is_complete_snapshot is left alone.
ClosedByApiUncounted(loaded, error) ==    \* mutant: the failure is not counted
  [loaded EXCEPT !.status = "failed",
                 !.finished_at = TRUE,
                 !.error_type = error]

ClosedByApi(loaded, error) ==
  [loaded EXCEPT !.status = "failed",
                 !.finished_at = TRUE,
                 !.error_type = error,
                 !.failed_count = 1]

\* The gate of wait_for_promotable_run and assert_promotable_runs, which
\* decides whether the run is evidence for publishing a dataset.
Promotable(row) == /\ row.status = "succeeded"
                   /\ row.is_complete_snapshot
                   /\ row.failed_count = 0

=============================================================================

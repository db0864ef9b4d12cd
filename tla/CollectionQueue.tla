--------------------------- MODULE CollectionQueue ---------------------------
(***************************************************************************)
(* Central collection: how the run of a source goes from a request to a    *)
(* terminal row.                                                           *)
(*                                                                         *)
(* A client (an administrator's request, the beat schedule, the release    *)
(* script) inserts a queued row, commits it, and only then publishes a     *)
(* message with its identifier.  A Celery worker takes the message, tries  *)
(* the advisory lock of the source, claims the run, collects, imports and  *)
(* finishes the row, and acknowledges the message last.  An importer (the  *)
(* runtime import script) inserts a running row and does the work itself,  *)
(* without a message and without the lock.                                 *)
(*                                                                         *)
(* Each session of the code that reads a row and later writes it is two    *)
(* actions, so that any other process may commit in between.               *)
(***************************************************************************)
EXTENDS RunTable

CONSTANTS
  Runs,             \* the identifiers uuid4 can return (bounds the number of rows)
  Workers,          \* Celery worker processes
  Admins,           \* API threads that serve POST /admin/collection-runs
  Schedulers,       \* executions of enqueue_scheduled_source_task
  Releasers,        \* executions of scripts/run_complete_collection.py
  Importers,        \* executions of scripts/import_runtime_data.py
  ScheduleSource,   \* COLLECTION_SCHEDULE_SOURCE_ID
  ScheduleComplete, \* COLLECTION_SCHEDULE_COMPLETE_SNAPSHOT
  MaxRetries,       \* COLLECTION_TASK_MAX_RETRIES
  Faults,           \* the kinds of fault that may happen
  MaxFaults,        \* bound: how many of them
  None              \* no process, no message

Clients == Admins \cup Schedulers \cup Releasers \cup Importers
Procs   == Workers \cup Clients

FaultKinds == {"duplicate_publish", "worker_lost", "hard_limit", "exception",
               "lock_lost", "client_lost"}

ASSUME RolesAssumption ==
  /\ None \notin Procs
  /\ Workers \cap Clients = {}
  /\ Importers \cap (Admins \cup Schedulers \cup Releasers) = {}
ASSUME ScheduleAssumption == /\ ScheduleSource \in Sources
                             /\ ScheduleComplete \in BOOLEAN
ASSUME BoundsAssumption   == /\ MaxRetries \in Nat
                             /\ MaxFaults \in Nat
                             /\ Faults \subseteq FaultKinds

\* The body of a collect_source message: the run, self.request.retries, and
\* the argument complete_snapshot.
Messages == [run : Runs, retries : 0..MaxRetries, complete : BOOLEAN]
ASSUME NoneAssumption == None \notin Messages

VARIABLES
  table,      \* collection_runs
  stale,      \* the runs whose started_at is two hours old or more
  queue,      \* the broker: how many copies of each message are ready
  holder,     \* the advisory lock of each source
  connected,  \* whether the session that took the lock of a worker is alive
  pc,         \* where each process is
  task,       \* the message a worker works on, or a client is to publish
  target,     \* the source a client was asked to collect
  loaded,     \* the row a session has loaded and not yet written
  result,     \* what a successful import makes a process write
  faults,     \* how many faults have happened
  imported,   \* history: the runs whose policies were committed
  closings    \* history: the terminal statuses ever committed for each run

dbVars     == <<table, stale>>
lockVars   == <<holder, connected>>
procVars   == <<pc, task, target, loaded, result>>
historyVars == <<imported, closings>>
vars == <<table, stale, queue, holder, connected, pc, task, target, loaded,
          result, faults, imported, closings>>

Results == [status : Terminal, failed : {0, 1}, complete : BOOLEAN]
NoResult == [status |-> "failed", failed |-> 0, complete |-> FALSE]

WorkerPcs == {"idle", "claim_read", "claim_write", "collect", "import",
              "finish_read", "finish_write", "fail_read", "fail_write",
              "unlock", "exhaust_read", "exhaust_write", "retry", "ack"}
ClientPcs == {"idle", "replace", "insert", "publish", "close_read",
              "close_write", "import", "finish_read", "finish_write",
              "fail_read", "fail_write"}

\* Inside `with source_collection_lock(...)' with the lock acquired.
LockedPcs == {"claim_read", "claim_write", "collect", "import", "finish_read",
              "finish_write", "fail_read", "fail_write", "unlock"}
WritePcs  == {"claim_write", "finish_write", "fail_write", "exhaust_write",
              "replace", "close_write"}

SourceOf(w)  == table[task[w].run].source
Fresh        == Runs \ DOMAIN table

Init ==
  /\ table = << >>
  /\ stale = {}
  /\ queue = [m \in Messages |-> 0]
  /\ holder = [s \in Sources |-> None]
  /\ connected = [w \in Workers |-> TRUE]
  /\ pc = [p \in Procs |-> "idle"]
  /\ task = [p \in Procs |-> None]
  /\ target = [c \in Clients |-> ScheduleSource]
  /\ loaded = [p \in Procs |-> None]
  /\ result = [p \in Procs |-> NoResult]
  /\ faults = 0
  /\ imported = {}
  /\ closings = [r \in Runs |-> {}]

-----------------------------------------------------------------------------
(***************************************************************************)
(* Building blocks.                                                        *)
(***************************************************************************)

Goto(p, from, to) == pc[p] = from /\ pc' = [pc EXCEPT ![p] = to]

\* Where a process goes when it is done with its row.
Leave(p) == IF p \in Workers THEN "unlock" ELSE "idle"

\* A session loads the row of the run in hand.
Load(p) == loaded' = [loaded EXCEPT ![p] = table[task[p].run]]
Forget(p) == loaded' = [loaded EXCEPT ![p] = None]

\* The table after p flushes the attributes of row `new'.
Flushed(p, new) ==
  [table EXCEPT ![task[p].run] = Flush(@, loaded[p], new)]

\* The commit of a terminal row.
CommitClosing(p, new) ==
  /\ table' = Flushed(p, new)
  /\ closings' = [closings EXCEPT ![task[p].run] = @ \cup {new.status}]
  /\ Forget(p)

Put(m) == queue' = [queue EXCEPT ![m] = @ + 1]

Fault(kind) == /\ kind \in Faults
               /\ faults < MaxFaults
               /\ faults' = faults + 1

-----------------------------------------------------------------------------
(***************************************************************************)
(* Clients: request, insert, publish.                                      *)
(***************************************************************************)

\* trigger_manual_collection_run_service up to its first write.  With an
\* active run that is not stale the answer is 409 and nothing changes.
AdminRead(c, s) ==
  /\ pc[c] = "idle"
  /\ Fresh # {}
  /\ \/ /\ ActiveRuns(table, s) = {}
        /\ pc' = [pc EXCEPT ![c] = "insert"]
        /\ UNCHANGED <<task, loaded>>
     \/ \E r \in ActiveRuns(table, s) \cap stale :
          /\ pc' = [pc EXCEPT ![c] = "replace"]
          /\ task' = [task EXCEPT ![c] = [run |-> r, retries |-> 0, complete |-> FALSE]]
          /\ loaded' = [loaded EXCEPT ![c] = table[r]]
  /\ target' = [target EXCEPT ![c] = s]
  /\ UNCHANGED <<dbVars, queue, lockVars, result, faults, historyVars>>

\* The stale run is closed in a commit of its own.
AdminReplace(c) ==
  /\ Goto(c, "replace", "insert")
  /\ CommitClosing(c, ClosedByApi(loaded[c], "StaleCollectionRunReplaced"))
  /\ task' = [task EXCEPT ![c] = None]
  /\ UNCHANGED <<stale, queue, lockVars, target, result, faults, imported>>

\* The schedule never replaces a run, stale or not.
SchedulerRead(c) ==
  /\ pc[c] = "idle"
  /\ Fresh # {}
  /\ ActiveRuns(table, ScheduleSource) = {}
  /\ pc' = [pc EXCEPT ![c] = "insert"]
  /\ target' = [target EXCEPT ![c] = ScheduleSource]
  /\ UNCHANGED <<dbVars, queue, lockVars, task, loaded, result, faults, historyVars>>

\* The release script and the runtime import insert without looking first.
InsertUnseen(c, s) ==
  /\ pc[c] = "idle"
  /\ Fresh # {}
  /\ pc' = [pc EXCEPT ![c] = "insert"]
  /\ target' = [target EXCEPT ![c] = s]
  /\ UNCHANGED <<dbVars, queue, lockVars, task, loaded, result, faults, historyVars>>

MessageOf(c, r) ==
  [run |-> r, retries |-> 0,
   complete |-> \/ c \in Releasers
                \/ c \in Schedulers /\ ScheduleComplete]

\* The partial unique index decides.  After an IntegrityError the session is
\* rolled back; whether the answer is "active" or the error, nothing changed.
InsertRun(c) ==
  /\ pc[c] = "insert"
  /\ \E r \in Fresh :
       LET status == IF c \in Importers THEN "running" ELSE "queued"
           new    == Insert(table, r, NewRow(target[c], status))
       IN IF Accepts(new)
          THEN /\ table' = new
               /\ task' = [task EXCEPT ![c] = MessageOf(c, r)]
               /\ pc' = [pc EXCEPT ![c] =
                           IF c \in Importers THEN "import" ELSE "publish"]
          ELSE /\ pc' = [pc EXCEPT ![c] = "idle"]
               /\ UNCHANGED <<table, task>>
  /\ UNCHANGED <<stale, queue, lockVars, target, loaded, result, faults, historyVars>>

\* send_task may fail before or after the broker took the message, and its
\* own retries may leave two copies.
Publish(c) ==
  /\ pc[c] = "publish"
  /\ \/ /\ Put(task[c])
        /\ pc' = [pc EXCEPT ![c] = "idle"]
        /\ task' = [task EXCEPT ![c] = None]
        /\ UNCHANGED faults
     \/ /\ queue' = [queue EXCEPT ![task[c]] = @ + 2]
        /\ Fault("duplicate_publish")
        /\ pc' = [pc EXCEPT ![c] = "idle"]
        /\ task' = [task EXCEPT ![c] = None]
     \/ /\ Put(task[c]) \/ UNCHANGED queue
        /\ pc' = [pc EXCEPT ![c] = "close_read"]
        /\ UNCHANGED <<task, faults>>
  /\ UNCHANGED <<dbVars, lockVars, target, loaded, result, historyVars>>

\* The endpoint closes only a run that is still queued; the writer used by
\* the schedule and the release script closes any active run.
ClosableRunning(c) == {"running"}    \* mutant: the wrong status is tested
Closable(c) == IF c \in Admins THEN {"queued"} ELSE Active

CloseRead(c) ==
  /\ pc[c] = "close_read"
  /\ IF table[task[c].run].status \in Closable(c)
     THEN /\ pc' = [pc EXCEPT ![c] = "close_write"]
          /\ Load(c)
          /\ UNCHANGED task
     ELSE /\ pc' = [pc EXCEPT ![c] = "idle"]
          /\ task' = [task EXCEPT ![c] = None]
          /\ UNCHANGED loaded
  /\ UNCHANGED <<dbVars, queue, lockVars, target, result, faults, historyVars>>

CloseWrite(c) ==
  LET error == "CollectionQueuePublishError"
  IN /\ Goto(c, "close_write", "idle")
     /\ CommitClosing(c, IF c \in Admins
                         THEN ClosedByApi(loaded[c], error)
                         ELSE Finished(loaded[c], "failed", 1, error, FALSE))
     /\ task' = [task EXCEPT ![c] = None]
     /\ UNCHANGED <<stale, queue, lockVars, target, result, faults, imported>>

-----------------------------------------------------------------------------
(***************************************************************************)
(* Workers: deliver, claim, collect, acknowledge.                          *)
(***************************************************************************)

DeliverUnlocked(w, m) ==  \* mutant: what the lock says is not looked at
  LET s == table[m.run].source
  IN /\ pc[w] = "idle"
     /\ queue[m] > 0
     /\ queue' = [queue EXCEPT ![m] = @ - 1]
     /\ task' = [task EXCEPT ![w] = m]
     /\ holder' = [holder EXCEPT ![s] = w]
     /\ connected' = [connected EXCEPT ![w] = TRUE]
     /\ pc' = [pc EXCEPT ![w] = "claim_read"]
     /\ UNCHANGED <<dbVars, target, loaded, result, faults, historyVars>>

\* A delivery tries the lock of its source first.  A busy source is retried,
\* and after the last retry the run is closed.
Deliver(w, m) ==
  LET s == table[m.run].source
  IN /\ pc[w] = "idle"
     /\ queue[m] > 0
     /\ queue' = [queue EXCEPT ![m] = @ - 1]
     /\ task' = [task EXCEPT ![w] = m]
     /\ IF holder[s] = None
        THEN /\ holder' = [holder EXCEPT ![s] = w]
             /\ connected' = [connected EXCEPT ![w] = TRUE]
             /\ pc' = [pc EXCEPT ![w] = "claim_read"]
        ELSE /\ pc' = [pc EXCEPT ![w] = IF m.retries >= MaxRetries
                                        THEN "exhaust_read" ELSE "retry"]
             /\ UNCHANGED lockVars
     /\ UNCHANGED <<dbVars, target, loaded, result, faults, historyVars>>

ClaimReadQueued(w) ==     \* mutant: a running run belongs to somebody else
  LET row == table[task[w].run]
  IN /\ pc[w] = "claim_read"
     /\ \/ /\ row.status # "queued"
           /\ pc' = [pc EXCEPT ![w] = "unlock"]
           /\ UNCHANGED loaded
        \/ /\ row.status = "queued"
           /\ pc' = [pc EXCEPT ![w] = "claim_write"]
           /\ Load(w)
     /\ UNCHANGED <<dbVars, queue, lockVars, task, target, result, faults, historyVars>>

\* mark_running: a terminal run is acknowledged, a running one is taken over
\* (assigning "running" to it writes nothing), a queued one is to be written.
ClaimRead(w) ==
  LET row == table[task[w].run]
  IN /\ pc[w] = "claim_read"
     /\ \/ /\ row.status \in Terminal
           /\ pc' = [pc EXCEPT ![w] = "unlock"]
           /\ UNCHANGED loaded
        \/ /\ row.status = "running"
           /\ pc' = [pc EXCEPT ![w] = "collect"]
           /\ UNCHANGED loaded
        \/ /\ row.status = "queued"
           /\ pc' = [pc EXCEPT ![w] = "claim_write"]
           /\ Load(w)
     /\ UNCHANGED <<dbVars, queue, lockVars, task, target, result, faults, historyVars>>

\* The commit of the claim is refused when it would break a constraint.
ClaimWrite(w) ==
  LET new == Flushed(w, Claimed(loaded[w]))
  IN /\ pc[w] = "claim_write"
     /\ Forget(w)
     /\ IF Accepts(new)
        THEN /\ table' = new
             /\ pc' = [pc EXCEPT ![w] = "collect"]
        ELSE /\ pc' = [pc EXCEPT ![w] = "unlock"]
             /\ UNCHANGED table
     /\ UNCHANGED <<stale, queue, lockVars, task, target, result, faults, historyVars>>

\* The collector returns or raises.
Collect(w) ==
  /\ pc[w] = "collect"
  /\ \E next \in {"import", "fail_read"} : pc' = [pc EXCEPT ![w] = next]
  /\ UNCHANGED <<dbVars, queue, lockVars, task, target, loaded, result, faults, historyVars>>

\* The importer commits the policies or not, and returns or raises.  A
\* result that is failed committed nothing; a complete snapshot counts only
\* when it succeeded and its evidence was preserved.
BatchCommittedWhole(status) == status = "succeeded"   \* mutant: a partial batch is rolled back
BatchCommitted(status) == status # "failed"

ImportPolicies(p) ==
  LET r == task[p].run
  IN /\ pc[p] = "import"
     /\ \/ /\ imported' \in {imported, imported \cup {r}}
           /\ pc' = [pc EXCEPT ![p] = "fail_read"]
           /\ UNCHANGED result
        \/ \E res \in Results :
             /\ res.status # "failed" => res.failed = 0
             /\ res.complete = task[p].complete
             /\ res.complete => res.status = "succeeded"
             /\ imported' = IF BatchCommitted(res.status) THEN imported \cup {r}
                                                          ELSE imported
             /\ result' = [result EXCEPT ![p] = res]
             /\ pc' = [pc EXCEPT ![p] = "finish_read"]
     /\ UNCHANGED <<dbVars, queue, lockVars, task, target, loaded, faults, closings>>

\* CollectionRunWriter.finish: the ValueError on a terminal run is caught by
\* the same handler as a failed execution.
FinishRead(p) ==
  /\ pc[p] = "finish_read"
  /\ IF table[task[p].run].status \in Active
     THEN pc' = [pc EXCEPT ![p] = "finish_write"] /\ Load(p)
     ELSE pc' = [pc EXCEPT ![p] = "fail_read"] /\ UNCHANGED loaded
  /\ UNCHANGED <<dbVars, queue, lockVars, task, target, result, faults, historyVars>>

FinishWrite(p) ==
  LET res == result[p]
  IN /\ Goto(p, "finish_write", Leave(p))
     /\ CommitClosing(p, Finished(loaded[p], res.status, res.failed, "none", res.complete))
     /\ result' = [result EXCEPT ![p] = NoResult]
     /\ task' = [task EXCEPT ![p] = IF p \in Workers THEN @ ELSE None]
     /\ UNCHANGED <<stale, queue, lockVars, target, faults, imported>>

\* _finish_failed and _finish_failed_run swallow the ValueError.
FailReadUnguarded(p) ==    \* mutant: the terminal test is missing
  /\ Goto(p, "fail_read", "fail_write")
  /\ Load(p)
  /\ result' = [result EXCEPT ![p] = NoResult]
  /\ UNCHANGED <<dbVars, queue, lockVars, task, target, faults, historyVars>>

FailRead(p) ==
  /\ pc[p] = "fail_read"
  /\ IF table[task[p].run].status \in Active
     THEN /\ pc' = [pc EXCEPT ![p] = "fail_write"]
          /\ Load(p)
          /\ UNCHANGED task
     ELSE /\ pc' = [pc EXCEPT ![p] = Leave(p)]
          /\ task' = [task EXCEPT ![p] = IF p \in Workers THEN @ ELSE None]
          /\ UNCHANGED loaded
  /\ result' = [result EXCEPT ![p] = NoResult]
  /\ UNCHANGED <<dbVars, queue, lockVars, target, faults, historyVars>>

FailWrite(p) ==
  /\ Goto(p, "fail_write", Leave(p))
  /\ CommitClosing(p, Finished(loaded[p], "failed", 1, "ExecutionError", FALSE))
  /\ task' = [task EXCEPT ![p] = IF p \in Workers THEN @ ELSE None]
  /\ UNCHANGED <<stale, queue, lockVars, target, result, faults, imported>>

\* Leaving the with block.  When the session of the lock is gone the unlock
\* raises, which also ends the task.
UnlockNothing(w) ==  \* mutant: the session goes back to the pool with the lock
  /\ Goto(w, "unlock", "ack")
  /\ UNCHANGED <<dbVars, queue, lockVars, task, target, loaded, result, faults, historyVars>>

Unlock(w) ==
  /\ Goto(w, "unlock", "ack")
  /\ holder' = IF connected[w] THEN [holder EXCEPT ![SourceOf(w)] = None] ELSE holder
  /\ connected' = [connected EXCEPT ![w] = TRUE]
  /\ UNCHANGED <<dbVars, queue, task, target, loaded, result, faults, historyVars>>

\* self.retry publishes a new message and then gives up this delivery.
Retry(w) ==
  /\ Goto(w, "retry", "ack")
  /\ Put([task[w] EXCEPT !.retries = @ + 1])
  /\ UNCHANGED <<dbVars, lockVars, task, target, loaded, result, faults, historyVars>>

\* _mark_lock_exhausted: the ValueError on a terminal run fails the task.
ExhaustRead(w) ==
  /\ pc[w] = "exhaust_read"
  /\ IF table[task[w].run].status \in Active
     THEN pc' = [pc EXCEPT ![w] = "exhaust_write"] /\ Load(w)
     ELSE pc' = [pc EXCEPT ![w] = "ack"] /\ UNCHANGED loaded
  /\ UNCHANGED <<dbVars, queue, lockVars, task, target, result, faults, historyVars>>

ExhaustWrite(w) ==
  /\ Goto(w, "exhaust_write", "ack")
  /\ CommitClosing(w, Finished(loaded[w], "failed", 1, "SourceCollectionLockTimeout", FALSE))
  /\ UNCHANGED <<stale, queue, lockVars, task, target, result, faults, imported>>

\* acks_late: the message leaves the broker when the task has ended.
Ack(w) ==
  /\ Goto(w, "ack", "idle")
  /\ task' = [task EXCEPT ![w] = None]
  /\ UNCHANGED <<dbVars, queue, lockVars, target, loaded, result, faults, historyVars>>

-----------------------------------------------------------------------------
(***************************************************************************)
(* Time and faults.                                                        *)
(***************************************************************************)

\* Two hours pass since the run was requested.
GrowStaleRunning(r) ==   \* mutant: a queued run never counts as stale
  /\ r \in DOMAIN table \ stale
  /\ table[r].status = "running"
  /\ stale' = stale \cup {r}
  /\ UNCHANGED <<table, queue, lockVars, procVars, faults, historyVars>>

GrowStale(r) ==
  /\ r \in DOMAIN table \ stale
  /\ table[r].status \in Active
  /\ stale' = stale \cup {r}
  /\ UNCHANGED <<table, queue, lockVars, procVars, faults, historyVars>>

\* The death of worker w closes its database connections.
Die(w) ==
  /\ pc[w] # "idle"
  /\ pc' = [pc EXCEPT ![w] = "idle"]
  /\ task' = [task EXCEPT ![w] = None]
  /\ loaded' = [loaded EXCEPT ![w] = None]
  /\ result' = [result EXCEPT ![w] = NoResult]
  /\ holder' = [s \in Sources |-> IF holder[s] = w THEN None ELSE holder[s]]
  /\ connected' = [connected EXCEPT ![w] = TRUE]
  /\ UNCHANGED <<dbVars, target, historyVars>>

\* reject_on_worker_lost, or the visibility timeout of the broker: the
\* message is delivered again.
WorkerLost(w) == Die(w) /\ Fault("worker_lost") /\ Put(task[w])

\* time_limit: the pool kills the process and acknowledges the message.
HardTimeLimit(w) == Die(w) /\ Fault("hard_limit") /\ UNCHANGED queue

\* SoftTimeLimitExceeded or a database or broker error at a step that is not
\* expected to raise: where the handlers of the code take the worker.
Handler(at) ==
  CASE at \in {"claim_read", "claim_write", "fail_read", "fail_write"} -> "unlock"
    [] at \in {"finish_read", "finish_write"} -> "fail_read"
    [] at \in {"exhaust_read", "exhaust_write", "retry"} -> "ack"

Raise(w) ==
  /\ Fault("exception")
  /\ pc[w] \in WorkerPcs \ {"idle", "collect", "import", "unlock", "ack"}
  /\ pc' = [pc EXCEPT ![w] = Handler(@)]
  /\ loaded' = [loaded EXCEPT ![w] = None]
  /\ result' = [result EXCEPT ![w] = NoResult]
  /\ UNCHANGED <<dbVars, queue, lockVars, task, target, historyVars>>

\* The connection that took the advisory lock breaks while the worker works.
LockLost(w) ==
  /\ Fault("lock_lost")
  /\ pc[w] \in LockedPcs
  /\ connected[w]
  /\ holder' = [holder EXCEPT ![SourceOf(w)] = None]
  /\ connected' = [connected EXCEPT ![w] = FALSE]
  /\ UNCHANGED <<dbVars, queue, procVars, historyVars>>

\* The process of a client ends anywhere, between two commits in particular.
ClientLost(c) ==
  /\ Fault("client_lost")
  /\ pc[c] # "idle"
  /\ pc' = [pc EXCEPT ![c] = "idle"]
  /\ task' = [task EXCEPT ![c] = None]
  /\ loaded' = [loaded EXCEPT ![c] = None]
  /\ result' = [result EXCEPT ![c] = NoResult]
  /\ UNCHANGED <<dbVars, queue, lockVars, target, historyVars>>

-----------------------------------------------------------------------------

Request ==
  \/ \E c \in Admins, s \in Sources : AdminRead(c, s)
  \/ \E c \in Schedulers : SchedulerRead(c)
  \/ \E c \in Releasers \cup Importers, s \in Sources : InsertUnseen(c, s)

ClientStep(c) == AdminReplace(c) \/ InsertRun(c) \/ Publish(c) \/ CloseRead(c) \/ CloseWrite(c)

Execution(p) == \/ ImportPolicies(p) \/ FinishRead(p) \/ FinishWrite(p)
                \/ FailRead(p) \/ FailWrite(p)

WorkerStep(w) == \/ ClaimRead(w) \/ ClaimWrite(w) \/ Collect(w) \/ Unlock(w)
                 \/ Retry(w) \/ ExhaustRead(w) \/ ExhaustWrite(w) \/ Ack(w)

Failure == \/ \E w \in Workers : \/ WorkerLost(w) \/ HardTimeLimit(w)
                                 \/ Raise(w) \/ LockLost(w)
           \/ \E c \in Clients : ClientLost(c)

Next ==
  \/ Request
  \/ \E c \in Clients : ClientStep(c)
  \/ \E p \in Procs : Execution(p)
  \/ \E w \in Workers : WorkerStep(w)
  \/ \E w \in Workers, m \in Messages : Deliver(w, m)
  \/ \E r \in Runs : GrowStale(r)
  \/ Failure

Spec == Init /\ [][Next]_vars

\* A process that is scheduled goes on, and an idle worker takes messages.
\* Nothing forces a request, the passing of two hours, or a fault.
Fairness ==
  /\ \A c \in Clients : WF_vars(ClientStep(c) \/ Execution(c))
  /\ \A w \in Workers : /\ WF_vars(WorkerStep(w) \/ Execution(w))
                        /\ WF_vars(\E m \in Messages : Deliver(w, m))

FairSpec == Spec /\ Fairness

\* An administrator who keeps asking, and the clock: the assumption under
\* which runs that nobody works on any more are replaced.
Recovery == /\ \A r \in Runs : WF_vars(GrowStale(r))
            /\ \A c \in Admins, s \in Sources : SF_vars(AdminRead(c, s))

-----------------------------------------------------------------------------
(***************************************************************************)
(* Properties.                                                             *)
(***************************************************************************)

TableOK ==
  /\ DOMAIN table \subseteq Runs
  /\ table \in [DOMAIN table -> Rows]
  /\ Accepts(table)
  /\ stale \subseteq DOMAIN table

BrokerOK ==
  /\ queue \in [Messages -> Nat]
  /\ \A m \in Messages : queue[m] > 0 => m.run \in DOMAIN table

LockOK ==
  /\ holder \in [Sources -> Workers \cup {None}]
  /\ connected \in [Workers -> BOOLEAN]

ProcOK ==
  /\ pc \in [Procs -> WorkerPcs \cup ClientPcs]
  /\ target \in [Clients -> Sources]
  /\ result \in [Procs -> Results]

TaskOK ==
  /\ task \in [Procs -> Messages \cup {None}]
  /\ \A p \in Procs : task[p] # None => task[p].run \in DOMAIN table
  /\ \A w \in Workers : task[w] = None <=> pc[w] = "idle"
  /\ \A c \in Clients : task[c] = None <=> pc[c] \in {"idle", "insert"}

SessionOK ==
  /\ loaded \in [Procs -> Rows \cup {None}]
  /\ \A p \in Procs : pc[p] \in WritePcs => /\ loaded[p] \in Rows
                                           /\ loaded[p].status \in Active
                                           /\ ~loaded[p].finished_at

HistoryOK ==
  /\ faults \in Nat
  /\ imported \subseteq DOMAIN table
  /\ closings \in [Runs -> SUBSET Terminal]

\* Every variable keeps its type; the table meets its constraints, also after
\* the closes, which the model commits without asking; a message, and a process that works on a
\* run, refer to a row that exists; a worker holds a message exactly while it
\* is not idle; and a session about to write has loaded a row that was open.
\* (the sessions of tasks.py, collection_runs.py and the admin API)
TypeOK == TableOK /\ BrokerOK /\ LockOK /\ ProcOK /\ TaskOK /\ SessionOK /\ HistoryOK

\* Two workers whose lock sessions are alive are never inside the lock of the
\* same source: collections of a source do not overlap, whatever happens to
\* their rows meanwhile.  (source_collection_lock around mark_running,
\* collection, import and finish)
OneCollectorPerSource ==
  \A v, w \in Workers :
    /\ pc[v] \in LockedPcs /\ connected[v]
    /\ pc[w] \in LockedPcs /\ connected[w]
    /\ SourceOf(v) = SourceOf(w)
    => v = w

\* A row that passes the promotion gate (a complete snapshot that succeeded
\* with no failure) belongs to a run that imported its policies and that
\* nobody ever closed as anything else, even when closers raced: a loser
\* leaves its failure count in the row.  (scripts/run_complete_collection.py
\* and promote_public_dataset.py trust these columns)
PromotableIsUndisputed ==
  \A r \in DOMAIN table :
    Promotable(table[r]) => r \in imported /\ closings[r] = {"succeeded"}

\* A row that says the import went through is right about it, whichever of
\* several closers wrote it last.
SuccessWasImported ==
  \A r \in DOMAIN table :
    table[r].status \in {"succeeded", "partial_failure"} => r \in imported

\* Somebody still has to act on an open run: a message is in the broker, a
\* worker works on it, or a client is on its way to publish or close it.
\* Checked with the faults the queue is built to survive: lost workers and
\* duplicated messages.  (late acknowledgement, and the closing of runs that
\* could not be published)
InCharge(r) ==
  \/ \E m \in Messages : m.run = r /\ queue[m] > 0
  \/ \E p \in Procs : task[p] # None /\ task[p].run = r
OpenRunIsAttended ==
  \A r \in DOMAIN table : table[r].status \in Active => InCharge(r)

\* No step moves a closed run back to queued or running, also when a worker
\* claims a run that was closed after the worker read it.  (mark_running and
\* ck_collection_runs_terminal_finished_at)
ClosedStaysClosed ==
  [][\A r \in DOMAIN table :
       table[r].status \in Terminal => table'[r].status \in Terminal]_vars

\* The rows behave as the abstract life cycle: requested once, forward only,
\* one open run per source.
Lifecycle ==
  INSTANCE RunLifecycle WITH
    phase  <- [r \in Runs |->
                 IF r \notin DOMAIN table THEN "absent"
                 ELSE IF table[r].status \in Terminal THEN "closed"
                 ELSE table[r].status],
    source <- [r \in DOMAIN table |-> table[r].source]
LifecycleSpec == Lifecycle!Spec

\* Every requested run is closed in the end when workers may be lost but
\* clients are not.  (late acknowledgement, reject_on_worker_lost, bounded
\* retries and _mark_lock_exhausted)
IsClosed(r) == r \in DOMAIN table /\ table[r].status \in Terminal
EveryRunCloses == \A r \in Runs : r \in DOMAIN table ~> IsClosed(r)

\* Workers give the lock of a source back.
LockIsReleased == \A s \in Sources : holder[s] # None ~> holder[s] = None

\* A run whose worker was killed at the hard time limit, or whose client died
\* before it published, is closed in the end by the stale replacement, as
\* long as an administrator asks for a new run (and an identifier is left).
LostRunIsReplaced ==
  \A r \in Runs : r \in DOMAIN table ~> IsClosed(r) \/ Fresh = {}

\* docs/architecture/collection_run_database.md:66 says a terminal state can
\* not be completed again.  Two closers that both loaded the open row make it
\* so: the second overwrites what the first committed.
TerminalIsFinal ==
  [][\A r \in DOMAIN table :
       table[r].status \in Terminal => table'[r] = table[r]]_vars

=============================================================================

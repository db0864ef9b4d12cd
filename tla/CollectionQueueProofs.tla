----------------------- MODULE CollectionQueueProofs -----------------------
(***************************************************************************)
(* Proofs about CollectionQueue, for every value of its constants: the     *)
(* rows and the processes, then what the rows say and who still has to act *)
(* on an open one.                                                         *)
(***************************************************************************)
EXTENDS CollectionQueue, TLAPS

-----------------------------------------------------------------------------
(***************************************************************************)
(* Rows and statements.                                                    *)
(***************************************************************************)

\* What the statements of the services assign is a row again.
LEMMA ClaimedRow ==
  ASSUME NEW ld \in Rows
  PROVE  Claimed(ld) \in Rows /\ Claimed(ld).status = "running"
  BY DEF Rows, Claimed, Active, Terminal

\* What finish assigns is a terminal row.
LEMMA FinishedRow ==
  ASSUME NEW ld \in Rows, NEW st \in Terminal, NEW f \in {0, 1},
         NEW e \in ErrorTypes, NEW c \in BOOLEAN
  PROVE  /\ Finished(ld, st, f, e, c) \in Rows
         /\ Finished(ld, st, f, e, c).status = st
         /\ Finished(ld, st, f, e, c).finished_at
  BY DEF Rows, Finished, Active, Terminal

\* What the trigger service and the endpoint assign is a failed row.
LEMMA ClosedByApiRow ==
  ASSUME NEW ld \in Rows, NEW e \in ErrorTypes
  PROVE  /\ ClosedByApi(ld, e) \in Rows
         /\ ClosedByApi(ld, e).status = "failed"
         /\ ClosedByApi(ld, e).finished_at
  BY DEF Rows, ClosedByApi, Active, Terminal

\* A flush leaves a row, of the same source, and each column shows what the
\* row had or what the session assigned.
LEMMA FlushedRow ==
  ASSUME NEW cur \in Rows, NEW ld \in Rows, NEW new \in Rows
  PROVE  /\ Flush(cur, ld, new) \in Rows
         /\ Flush(cur, ld, new).source = cur.source
  BY DEF Rows, Flush, Dirty

\* A close that started from an open row leaves a closed one, whatever the
\* row holds when it is flushed.
LEMMA ClosingRow ==
  ASSUME NEW cur \in Rows, NEW ld \in Rows, NEW new \in Rows,
         ld.status \in Active, ~ld.finished_at,
         new.status \in Terminal, new.finished_at
  PROVE  /\ Flush(cur, ld, new).status = new.status
         /\ Flush(cur, ld, new).finished_at
  BY DEF Rows, Flush, Dirty, Active, Terminal

\* A row that is inserted is a row, of the source asked for.
LEMMA NewRowType ==
  ASSUME NEW s \in Sources, NEW st \in Active
  PROVE  NewRow(s, st) \in Rows /\ NewRow(s, st).source = s
  BY DEF NewRow, Rows, ErrorTypes

-----------------------------------------------------------------------------
(***************************************************************************)
(* Type correctness, one lemma per action.                                 *)
(***************************************************************************)

\* The process p goes to `to' with t in hand and ld loaded.
MoveTo(p, to, t, ld) ==
  /\ pc' = [pc EXCEPT ![p] = to]
  /\ task' = [task EXCEPT ![p] = t]
  /\ loaded' = [loaded EXCEPT ![p] = ld]

\* A process that moves keeps tasks and sessions typed, if what it takes along
\* fits the place it goes to.
LEMMA Moved ==
  ASSUME TypeOK, NEW p \in Procs, NEW to, NEW t \in Messages \cup {None},
         NEW ld \in Rows \cup {None}, MoveTo(p, to, t, ld),
         DOMAIN table \subseteq DOMAIN table',
         t # None => t.run \in DOMAIN table',
         p \in Workers => (t = None <=> to = "idle"),
         p \in Clients => (t = None <=> to \in {"idle", "insert"}),
         to \in WritePcs => ld \in Rows /\ ld.status \in Active /\ ~ld.finished_at
  PROVE  TaskOK' /\ SessionOK'
<1>1. TaskOK'
  <2>1. task' \in [Procs -> Messages \cup {None}]
    BY DEF TypeOK, TaskOK, MoveTo
  <2>2. ASSUME NEW q \in Procs, task'[q] # None PROVE task'[q].run \in DOMAIN table'
    BY <2>2 DEF TypeOK, TaskOK, MoveTo
  <2>3. ASSUME NEW w \in Workers PROVE task'[w] = None <=> pc'[w] = "idle"
    BY RolesAssumption DEF TypeOK, TaskOK, ProcOK, MoveTo, Procs
  <2>4. ASSUME NEW c \in Clients
        PROVE  task'[c] = None <=> pc'[c] \in {"idle", "insert"}
    BY RolesAssumption DEF TypeOK, TaskOK, ProcOK, MoveTo, Procs
  <2>. QED BY <2>1, <2>2, <2>3, <2>4 DEF TaskOK
<1>2. SessionOK'
  <2>1. loaded' \in [Procs -> Rows \cup {None}]
    BY DEF TypeOK, SessionOK, MoveTo
  <2>2. ASSUME NEW q \in Procs, pc'[q] \in WritePcs
        PROVE  /\ loaded'[q] \in Rows
               /\ loaded'[q].status \in Active
               /\ ~loaded'[q].finished_at
    <3>1. CASE q = p
      BY <2>2, <3>1 DEF TypeOK, SessionOK, ProcOK, MoveTo
    <3>2. CASE q # p
      BY <2>2, <3>2 DEF TypeOK, SessionOK, ProcOK, MoveTo
    <3>. QED BY <3>1, <3>2
  <2>. QED BY <2>1, <2>2 DEF SessionOK
<1>. QED BY <1>1, <1>2

\* A row that is loaded while it is open is one a session may close.
LEMMA OpenRow ==
  ASSUME TypeOK, NEW r \in DOMAIN table, table[r].status \in Active
  PROVE  table[r] \in Rows /\ ~table[r].finished_at
BY DEF TypeOK, TableOK, Accepts, TerminalFinishedAt, Rows

\* The check of the trigger service writes nothing, and loads an open row.
LEMMA AdminReadType ==
  ASSUME TypeOK, NEW c \in Admins, NEW s \in Sources, AdminRead(c, s)
  PROVE  TypeOK'
<1>. c \in Clients /\ c \in Procs /\ c \notin Workers
  BY RolesAssumption DEF Procs, Clients
<1>1. TableOK'
  BY DEF TypeOK, AdminRead, TableOK, dbVars
<1>2. BrokerOK'
  BY DEF TypeOK, AdminRead, BrokerOK, dbVars
<1>3. LockOK'
  BY DEF TypeOK, AdminRead, LockOK, lockVars
<1>4. ProcOK'
  BY DEF TypeOK, AdminRead, ProcOK, procVars, WorkerPcs, ClientPcs
<1>7. HistoryOK'
  BY DEF TypeOK, AdminRead, HistoryOK, historyVars, dbVars
<1>5. TaskOK' /\ SessionOK'
  <2>1. CASE pc'[c] = "insert"
    <3>1. MoveTo(c, "insert", task[c], loaded[c])
      BY <2>1 DEF TypeOK, ProcOK, TaskOK, SessionOK, MoveTo, AdminRead
    <3>. QED
      BY <3>1, Moved, RolesAssumption DEF TypeOK, TaskOK, SessionOK, WritePcs,
          AdminRead, dbVars
  <2>2. CASE pc'[c] # "insert"
    <3>1. PICK r \in ActiveRuns(table, s) :
            MoveTo(c, "replace", [run |-> r, retries |-> 0, complete |-> FALSE], table[r])
      BY <2>2 DEF TypeOK, ProcOK, MoveTo, AdminRead
    <3>2. [run |-> r, retries |-> 0, complete |-> FALSE] \in Messages
      BY BoundsAssumption DEF TypeOK, TableOK, Messages, ActiveRuns
    <3>. QED
      BY <3>1, <3>2, Moved, OpenRow, NoneAssumption
      DEF AdminRead, ActiveRuns, dbVars
  <2>. QED BY <2>1, <2>2
<1>. QED
  BY <1>1, <1>2, <1>3, <1>4, <1>5, <1>7 DEF TypeOK

\* The check of the schedule writes nothing.
LEMMA SchedulerReadType ==
  ASSUME TypeOK, NEW c \in Schedulers, SchedulerRead(c)
  PROVE  TypeOK'
<1>. c \in Clients /\ c \in Procs /\ c \notin Workers
  BY RolesAssumption DEF Procs, Clients
<1>1. TableOK'
  BY DEF TypeOK, SchedulerRead, TableOK, dbVars
<1>2. BrokerOK'
  BY DEF TypeOK, SchedulerRead, BrokerOK, dbVars
<1>3. LockOK'
  BY DEF TypeOK, SchedulerRead, LockOK, lockVars
<1>4. ProcOK'
  BY ScheduleAssumption DEF TypeOK, SchedulerRead, ProcOK, procVars,
      WorkerPcs, ClientPcs
<1>7. HistoryOK'
  BY DEF TypeOK, SchedulerRead, HistoryOK, historyVars, dbVars
<1>5. TaskOK' /\ SessionOK'
  <2>1. MoveTo(c, "insert", task[c], loaded[c])
    BY DEF TypeOK, TaskOK, SessionOK, MoveTo, SchedulerRead
  <2>. QED
    BY <2>1, Moved, RolesAssumption DEF TypeOK, TaskOK, SessionOK, WritePcs,
        SchedulerRead, dbVars
<1>. QED
  BY <1>1, <1>2, <1>3, <1>4, <1>5, <1>7 DEF TypeOK

\* The scripts go to their insert without a task.
LEMMA InsertUnseenType ==
  ASSUME TypeOK, NEW c \in Releasers \cup Importers, NEW s \in Sources, InsertUnseen(c, s)
  PROVE  TypeOK'
<1>. c \in Clients /\ c \in Procs /\ c \notin Workers
  BY RolesAssumption DEF Procs, Clients
<1>1. TableOK'
  BY DEF TypeOK, InsertUnseen, TableOK, dbVars
<1>2. BrokerOK'
  BY DEF TypeOK, InsertUnseen, BrokerOK, dbVars
<1>3. LockOK'
  BY DEF TypeOK, InsertUnseen, LockOK, lockVars
<1>4. ProcOK'
  BY DEF TypeOK, InsertUnseen, ProcOK, procVars, WorkerPcs, ClientPcs
<1>7. HistoryOK'
  BY DEF TypeOK, InsertUnseen, HistoryOK, historyVars, dbVars
<1>5. TaskOK' /\ SessionOK'
  <2>1. MoveTo(c, "insert", task[c], loaded[c])
    BY DEF TypeOK, TaskOK, SessionOK, MoveTo, InsertUnseen
  <2>. QED
    BY <2>1, Moved, RolesAssumption DEF TypeOK, TaskOK, SessionOK, WritePcs,
        InsertUnseen, dbVars
<1>. QED
  BY <1>1, <1>2, <1>3, <1>4, <1>5, <1>7 DEF TypeOK

\* A delivered message names a run that exists.
LEMMA DeliverType ==
  ASSUME TypeOK, NEW w \in Workers, NEW m \in Messages, Deliver(w, m)
  PROVE  TypeOK'
<1>. w \in Procs /\ w \notin Clients
  BY RolesAssumption DEF Procs
<1>1. TableOK'
  BY DEF TypeOK, Deliver, TableOK, dbVars
<1>2. BrokerOK'
  BY DEF TypeOK, Deliver, BrokerOK, dbVars
<1>3. LockOK'
  BY DEF TypeOK, Deliver, LockOK, lockVars
<1>4. ProcOK'
  BY DEF TypeOK, Deliver, ProcOK, procVars, WorkerPcs, ClientPcs
<1>7. HistoryOK'
  BY DEF TypeOK, Deliver, HistoryOK, historyVars, dbVars
<1>5. TaskOK' /\ SessionOK'
  <2>1. CASE holder[table[m.run].source] = None
    <3>1. MoveTo(w, "claim_read", m, loaded[w])
      BY <2>1 DEF TypeOK, SessionOK, MoveTo, Deliver
    <3>. QED
      BY <3>1, Moved, RolesAssumption, NoneAssumption
      DEF TypeOK, BrokerOK, SessionOK, WritePcs, Deliver, dbVars
  <2>2. CASE holder[table[m.run].source] # None
    <3>1. PICK to \in {"exhaust_read", "retry"} : MoveTo(w, to, m, loaded[w])
      BY <2>2 DEF TypeOK, SessionOK, MoveTo, Deliver
    <3>. QED
      BY <3>1, Moved, RolesAssumption, NoneAssumption
      DEF TypeOK, BrokerOK, SessionOK, WritePcs, Deliver, dbVars
  <2>. QED BY <2>1, <2>2
<1>. QED
  BY <1>1, <1>2, <1>3, <1>4, <1>5, <1>7 DEF TypeOK

\* mark_running loads a row it found queued.
LEMMA ClaimReadType ==
  ASSUME TypeOK, NEW w \in Workers, ClaimRead(w)
  PROVE  TypeOK'
<1>. w \in Procs /\ w \notin Clients
  BY RolesAssumption DEF Procs
<1>1. TableOK'
  BY DEF TypeOK, ClaimRead, TableOK, Load, dbVars
<1>2. BrokerOK'
  BY DEF TypeOK, ClaimRead, BrokerOK, Load, dbVars
<1>3. LockOK'
  BY DEF TypeOK, ClaimRead, LockOK, Load, lockVars
<1>4. ProcOK'
  BY DEF TypeOK, ClaimRead, ProcOK, Load, procVars, WorkerPcs, ClientPcs
<1>7. HistoryOK'
  BY DEF TypeOK, ClaimRead, HistoryOK, Load, historyVars, dbVars
<1>5. TaskOK' /\ SessionOK'
  <2>1. CASE table[task[w].run].status \in Terminal
    <3>1. MoveTo(w, "unlock", task[w], loaded[w])
      BY <2>1 DEF TypeOK, TaskOK, SessionOK, MoveTo, ClaimRead, Terminal
    <3>. QED
      BY <2>1, <3>1, Moved, RolesAssumption DEF TypeOK, TaskOK, SessionOK,
          WritePcs, ClaimRead, dbVars
  <2>2. CASE table[task[w].run].status = "running"
    <3>1. MoveTo(w, "collect", task[w], loaded[w])
      BY <2>2 DEF TypeOK, TaskOK, SessionOK, MoveTo, ClaimRead, Terminal
    <3>. QED
      BY <2>2, <3>1, Moved, RolesAssumption DEF TypeOK, TaskOK, SessionOK,
          WritePcs, ClaimRead, dbVars
  <2>3. CASE table[task[w].run].status = "queued"
    <3>1. MoveTo(w, "claim_write", task[w], table[task[w].run])
      BY <2>3 DEF TypeOK, TaskOK, SessionOK, MoveTo, ClaimRead, Load, Terminal
    <3>. QED
      BY <2>3, <3>1, Moved, RolesAssumption, OpenRow DEF TypeOK, TaskOK,
          SessionOK, WritePcs, ClaimRead, dbVars, Active
  <2>. QED
    BY <2>1, <2>2, <2>3 DEF ClaimRead
<1>. QED
  BY <1>1, <1>2, <1>3, <1>4, <1>5, <1>7 DEF TypeOK

\* Collecting moves only the worker.
LEMMA CollectType ==
  ASSUME TypeOK, NEW w \in Workers, Collect(w)
  PROVE  TypeOK'
<1>. w \in Procs /\ w \notin Clients
  BY RolesAssumption DEF Procs
<1>1. TableOK'
  BY DEF TypeOK, Collect, TableOK, dbVars
<1>2. BrokerOK'
  BY DEF TypeOK, Collect, BrokerOK, dbVars
<1>3. LockOK'
  BY DEF TypeOK, Collect, LockOK, lockVars
<1>4. ProcOK'
  BY DEF TypeOK, Collect, ProcOK, procVars, WorkerPcs, ClientPcs
<1>7. HistoryOK'
  BY DEF TypeOK, Collect, HistoryOK, historyVars, dbVars
<1>5. TaskOK' /\ SessionOK'
  <2>1. PICK to \in {"import", "fail_read"} : MoveTo(w, to, task[w], loaded[w])
    BY DEF TypeOK, TaskOK, SessionOK, MoveTo, Collect
  <2>. QED
    BY <2>1, Moved, RolesAssumption DEF TypeOK, TaskOK, SessionOK, WritePcs,
        Collect, dbVars
<1>. QED
  BY <1>1, <1>2, <1>3, <1>4, <1>5, <1>7 DEF TypeOK

\* Giving the lock back keeps lock and session typed.
LEMMA UnlockType ==
  ASSUME TypeOK, NEW w \in Workers, Unlock(w)
  PROVE  TypeOK'
<1>. w \in Procs /\ w \notin Clients
  BY RolesAssumption DEF Procs
<1>1. TableOK'
  BY DEF TypeOK, Unlock, TableOK, Goto, dbVars
<1>2. BrokerOK'
  BY DEF TypeOK, Unlock, BrokerOK, Goto, dbVars
<1>3. LockOK'
  BY DEF TypeOK, Unlock, LockOK, Goto, lockVars
<1>4. ProcOK'
  BY DEF TypeOK, Unlock, ProcOK, Goto, procVars, WorkerPcs, ClientPcs
<1>7. HistoryOK'
  BY DEF TypeOK, Unlock, HistoryOK, Goto, historyVars, dbVars
<1>5. TaskOK' /\ SessionOK'
  <2>1. MoveTo(w, "ack", task[w], loaded[w])
    BY DEF TypeOK, TaskOK, SessionOK, MoveTo, Unlock, Goto
  <2>. QED
    BY <2>1, Moved, RolesAssumption DEF TypeOK, TaskOK, SessionOK, WritePcs,
        Unlock, Goto, dbVars
<1>. QED
  BY <1>1, <1>2, <1>3, <1>4, <1>5, <1>7 DEF TypeOK

\* A retry is published only below the limit, so its count stays in range.
LEMMA RetryType ==
  ASSUME TypeOK, NEW w \in Workers, Retry(w)
  PROVE  TypeOK'
<1>. w \in Procs /\ w \notin Clients
  BY RolesAssumption DEF Procs
<1>1. TableOK'
  BY DEF TypeOK, Retry, TableOK, Goto, Put, dbVars
<1>2. BrokerOK'
  <2>. DEFINE again == [task[w] EXCEPT !.retries = @ + 1]
  <2>1. task[w] \in Messages /\ task[w].run \in DOMAIN table
    BY DEF TypeOK, TaskOK, Retry, Goto
  <2>2. again.run = task[w].run
    BY <2>1 DEF Messages
  <2>3. queue' = [queue EXCEPT ![again] = @ + 1] /\ table' = table
    BY DEF Retry, Put, dbVars
  <2>. HIDE DEF again
  <2>4. CASE again \in Messages
    BY <2>1, <2>2, <2>3, <2>4 DEF TypeOK, BrokerOK
  <2>5. CASE again \notin Messages
    BY <2>3, <2>5 DEF TypeOK, BrokerOK
  <2>. QED BY <2>4, <2>5
<1>3. LockOK'
  BY DEF TypeOK, Retry, LockOK, Goto, Put, lockVars
<1>4. ProcOK'
  BY DEF TypeOK, Retry, ProcOK, Goto, Put, procVars, WorkerPcs, ClientPcs
<1>7. HistoryOK'
  BY DEF TypeOK, Retry, HistoryOK, Goto, Put, historyVars, dbVars
<1>5. TaskOK' /\ SessionOK'
  <2>1. MoveTo(w, "ack", task[w], loaded[w])
    BY DEF TypeOK, TaskOK, SessionOK, MoveTo, Retry, Goto
  <2>. QED
    BY <2>1, Moved, RolesAssumption DEF TypeOK, TaskOK, SessionOK, WritePcs,
        Retry, Goto, dbVars
<1>. QED
  BY <1>1, <1>2, <1>3, <1>4, <1>5, <1>7 DEF TypeOK

\* _mark_lock_exhausted loads only an open row.
LEMMA ExhaustReadType ==
  ASSUME TypeOK, NEW w \in Workers, ExhaustRead(w)
  PROVE  TypeOK'
<1>. w \in Procs /\ w \notin Clients
  BY RolesAssumption DEF Procs
<1>1. TableOK'
  BY DEF TypeOK, ExhaustRead, TableOK, Load, dbVars
<1>2. BrokerOK'
  BY DEF TypeOK, ExhaustRead, BrokerOK, Load, dbVars
<1>3. LockOK'
  BY DEF TypeOK, ExhaustRead, LockOK, Load, lockVars
<1>4. ProcOK'
  BY DEF TypeOK, ExhaustRead, ProcOK, Load, procVars, WorkerPcs, ClientPcs
<1>7. HistoryOK'
  BY DEF TypeOK, ExhaustRead, HistoryOK, Load, historyVars, dbVars
<1>5. TaskOK' /\ SessionOK'
  <2>1. CASE table[task[w].run].status \in Active
    <3>1. MoveTo(w, "exhaust_write", task[w], table[task[w].run])
      BY <2>1 DEF TypeOK, TaskOK, SessionOK, MoveTo, ExhaustRead, Load
    <3>. QED
      BY <2>1, <3>1, Moved, RolesAssumption, OpenRow DEF TypeOK, TaskOK,
          SessionOK, WritePcs, ExhaustRead, dbVars
  <2>2. CASE table[task[w].run].status \notin Active
    <3>1. MoveTo(w, "ack", task[w], loaded[w])
      BY <2>2 DEF TypeOK, TaskOK, SessionOK, MoveTo, ExhaustRead
    <3>. QED
      BY <2>2, <3>1, Moved, RolesAssumption DEF TypeOK, TaskOK, SessionOK,
          WritePcs, ExhaustRead, dbVars
  <2>. QED
    BY <2>1, <2>2
<1>. QED
  BY <1>1, <1>2, <1>3, <1>4, <1>5, <1>7 DEF TypeOK

\* An acknowledged task leaves the worker idle and empty-handed.
LEMMA AckType ==
  ASSUME TypeOK, NEW w \in Workers, Ack(w)
  PROVE  TypeOK'
<1>. w \in Procs /\ w \notin Clients
  BY RolesAssumption DEF Procs
<1>1. TableOK'
  BY DEF TypeOK, Ack, TableOK, Goto, dbVars
<1>2. BrokerOK'
  BY DEF TypeOK, Ack, BrokerOK, Goto, dbVars
<1>3. LockOK'
  BY DEF TypeOK, Ack, LockOK, Goto, lockVars
<1>4. ProcOK'
  BY DEF TypeOK, Ack, ProcOK, Goto, procVars, WorkerPcs, ClientPcs
<1>7. HistoryOK'
  BY DEF TypeOK, Ack, HistoryOK, Goto, historyVars, dbVars
<1>5. TaskOK' /\ SessionOK'
  <2>1. MoveTo(w, "idle", None, loaded[w])
    BY DEF TypeOK, TaskOK, SessionOK, MoveTo, Ack, Goto
  <2>. QED
    BY <2>1, Moved, RolesAssumption DEF TypeOK, TaskOK, SessionOK, WritePcs,
        Ack, Goto, dbVars
<1>. QED
  BY <1>1, <1>2, <1>3, <1>4, <1>5, <1>7 DEF TypeOK

\* Closing a row keeps the table typed and within its constraints.
LEMMA Closing ==
  ASSUME TypeOK, NEW p \in Procs, pc[p] \in WritePcs, task[p] # None,
         NEW new \in Rows, new.status \in Terminal, new.finished_at,
         CommitClosing(p, new), stale' = stale
  PROVE  /\ TableOK'
         /\ DOMAIN table' = DOMAIN table
         /\ \A r \in DOMAIN table : table'[r].source = table[r].source
         /\ closings' \in [Runs -> SUBSET Terminal]
         /\ loaded' = [loaded EXCEPT ![p] = None]
<1>. DEFINE r == task[p].run
            row == Flush(table[r], loaded[p], new)
<1>1. r \in DOMAIN table /\ table[r] \in Rows /\ table \in [DOMAIN table -> Rows]
  BY DEF TypeOK, TaskOK, TableOK
<1>2. loaded[p] \in Rows /\ loaded[p].status \in Active /\ ~loaded[p].finished_at
  BY DEF TypeOK, SessionOK
<1>3. row \in Rows /\ row.source = table[r].source
  BY <1>1, <1>2, FlushedRow
<1>4. row.status \in Terminal /\ row.finished_at
  BY <1>1, <1>2, ClosingRow
<1>5. table' = [table EXCEPT ![r] = row]
  BY DEF CommitClosing, Flushed
<1>. HIDE DEF r, row
<1>6. DOMAIN table' = DOMAIN table /\ table' \in [DOMAIN table -> Rows]
  BY <1>1, <1>3, <1>5
<1>7. \A q \in DOMAIN table : table'[q].source = table[q].source
  BY <1>1, <1>3, <1>5
<1>8. Accepts(table')
  <2>1. \A q \in DOMAIN table' : TerminalFinishedAt(table'[q])
    BY <1>1, <1>4, <1>5, <1>6
    DEF TypeOK, TableOK, Accepts, TerminalFinishedAt, Active, Terminal
  <2>2. \A q \in DOMAIN table' :
          table'[q].status \in Active => table[q].status \in Active
    BY <1>1, <1>4, <1>5, <1>6 DEF Active, Terminal
  <2>3. UniqueActiveSource(table')
    BY <1>6, <1>7, <2>2 DEF TypeOK, TableOK, Accepts, UniqueActiveSource
  <2>. QED BY <2>1, <2>3 DEF Accepts
<1>9. closings' \in [Runs -> SUBSET Terminal]
  BY DEF TypeOK, HistoryOK, CommitClosing
<1>. QED
  BY <1>6, <1>7, <1>8, <1>9 DEF TypeOK, TableOK, CommitClosing, Forget

\* The stale run is closed within the constraints of the table.
LEMMA AdminReplaceType ==
  ASSUME TypeOK, NEW c \in Clients, AdminReplace(c)
  PROVE  TypeOK'
<1>. c \in Procs /\ c \notin Workers
  BY RolesAssumption DEF Procs
<1>. DEFINE new == ClosedByApi(loaded[c], "StaleCollectionRunReplaced")
<1>1. pc[c] \in WritePcs /\ task[c] # None
  BY RolesAssumption DEF TypeOK, TaskOK, AdminReplace, Goto, WritePcs, Procs
<1>2. new \in Rows /\ new.status \in Terminal /\ new.finished_at
  BY <1>1, FinishedRow, ClosedByApiRow DEF TypeOK, SessionOK, ErrorTypes,
      Terminal
<1>3. CommitClosing(c, new)
  BY DEF AdminReplace
<1>. HIDE DEF new
<1>4. TableOK' /\ DOMAIN table' = DOMAIN table
  BY <1>1, <1>2, <1>3, Closing DEF AdminReplace
<1>5. loaded' = [loaded EXCEPT ![c] = None]
  BY <1>1, <1>2, <1>3, Closing DEF AdminReplace
<1>6. BrokerOK'
  BY <1>4 DEF TypeOK, BrokerOK, AdminReplace
<1>7. LockOK'
  BY DEF TypeOK, LockOK, AdminReplace, lockVars
<1>8. ProcOK'
  BY DEF TypeOK, ProcOK, AdminReplace, Goto, WorkerPcs, ClientPcs, Leave,
      Results, NoResult, Terminal
<1>9. TaskOK' /\ SessionOK'
  <2>1. MoveTo(c, "insert", None, None)
    BY <1>5 DEF TypeOK, TaskOK, MoveTo, AdminReplace, Goto
  <2>. QED
    BY <1>1, <1>4, <2>1, Moved, RolesAssumption DEF TypeOK, TaskOK, WritePcs,
        Leave, AdminReplace, Goto
<1>10. HistoryOK'
  BY <1>1, <1>2, <1>3, <1>4, Closing DEF TypeOK, HistoryOK, AdminReplace
<1>. QED
  BY <1>4, <1>6, <1>7, <1>8, <1>9, <1>10 DEF TypeOK

\* A run that could not be published is closed within the constraints.
LEMMA CloseWriteType ==
  ASSUME TypeOK, NEW c \in Clients, CloseWrite(c)
  PROVE  TypeOK'
<1>. c \in Procs /\ c \notin Workers
  BY RolesAssumption DEF Procs
<1>. DEFINE new == IF c \in Admins
              THEN ClosedByApi(loaded[c], "CollectionQueuePublishError")
              ELSE Finished(loaded[c], "failed", 1, "CollectionQueuePublishError", FALSE)
<1>1. pc[c] \in WritePcs /\ task[c] # None
  BY RolesAssumption DEF TypeOK, TaskOK, CloseWrite, Goto, WritePcs, Procs
<1>2. new \in Rows /\ new.status \in Terminal /\ new.finished_at
  <2>1. loaded[c] \in Rows /\ "CollectionQueuePublishError" \in ErrorTypes
    BY <1>1 DEF TypeOK, SessionOK, ErrorTypes
  <2>2. CASE c \in Admins
    BY <2>1, <2>2, FinishedRow, ClosedByApiRow DEF Terminal
  <2>3. CASE c \notin Admins
    BY <2>1, <2>3, FinishedRow, ClosedByApiRow DEF Terminal
  <2>. QED BY <2>2, <2>3
<1>3. CommitClosing(c, new)
  BY DEF CloseWrite
<1>. HIDE DEF new
<1>4. TableOK' /\ DOMAIN table' = DOMAIN table
  BY <1>1, <1>2, <1>3, Closing DEF CloseWrite
<1>5. loaded' = [loaded EXCEPT ![c] = None]
  BY <1>1, <1>2, <1>3, Closing DEF CloseWrite
<1>6. BrokerOK'
  BY <1>4 DEF TypeOK, BrokerOK, CloseWrite
<1>7. LockOK'
  BY DEF TypeOK, LockOK, CloseWrite, lockVars
<1>8. ProcOK'
  BY DEF TypeOK, ProcOK, CloseWrite, Goto, WorkerPcs, ClientPcs, Leave,
      Results, NoResult, Terminal
<1>9. TaskOK' /\ SessionOK'
  <2>1. MoveTo(c, "idle", None, None)
    BY <1>5 DEF TypeOK, TaskOK, MoveTo, CloseWrite, Goto
  <2>. QED
    BY <1>1, <1>4, <2>1, Moved, RolesAssumption DEF TypeOK, TaskOK, WritePcs,
        Leave, CloseWrite, Goto
<1>10. HistoryOK'
  BY <1>1, <1>2, <1>3, <1>4, Closing DEF TypeOK, HistoryOK, CloseWrite
<1>. QED
  BY <1>4, <1>6, <1>7, <1>8, <1>9, <1>10 DEF TypeOK

\* A run whose lock stayed busy is closed within the constraints.
LEMMA ExhaustWriteType ==
  ASSUME TypeOK, NEW w \in Workers, ExhaustWrite(w)
  PROVE  TypeOK'
<1>. w \in Procs /\ w \notin Clients
  BY RolesAssumption DEF Procs
<1>. DEFINE new == Finished(loaded[w], "failed", 1, "SourceCollectionLockTimeout", FALSE)
<1>1. pc[w] \in WritePcs /\ task[w] # None
  BY RolesAssumption DEF TypeOK, TaskOK, ExhaustWrite, Goto, WritePcs, Procs
<1>2. new \in Rows /\ new.status \in Terminal /\ new.finished_at
  BY <1>1, FinishedRow, ClosedByApiRow DEF TypeOK, SessionOK, ErrorTypes,
      Terminal
<1>3. CommitClosing(w, new)
  BY DEF ExhaustWrite
<1>. HIDE DEF new
<1>4. TableOK' /\ DOMAIN table' = DOMAIN table
  BY <1>1, <1>2, <1>3, Closing DEF ExhaustWrite
<1>5. loaded' = [loaded EXCEPT ![w] = None]
  BY <1>1, <1>2, <1>3, Closing DEF ExhaustWrite
<1>6. BrokerOK'
  BY <1>4 DEF TypeOK, BrokerOK, ExhaustWrite
<1>7. LockOK'
  BY DEF TypeOK, LockOK, ExhaustWrite, lockVars
<1>8. ProcOK'
  BY DEF TypeOK, ProcOK, ExhaustWrite, Goto, WorkerPcs, ClientPcs, Leave,
      Results, NoResult, Terminal
<1>9. TaskOK' /\ SessionOK'
  <2>1. MoveTo(w, "ack", task[w], None)
    BY <1>5 DEF TypeOK, TaskOK, MoveTo, ExhaustWrite, Goto
  <2>. QED
    BY <1>1, <1>4, <2>1, Moved, RolesAssumption DEF TypeOK, TaskOK, WritePcs,
        Leave, ExhaustWrite, Goto
<1>10. HistoryOK'
  BY <1>1, <1>2, <1>3, <1>4, Closing DEF TypeOK, HistoryOK, ExhaustWrite
<1>. QED
  BY <1>4, <1>6, <1>7, <1>8, <1>9, <1>10 DEF TypeOK

\* A finished run is closed within the constraints of the table.
LEMMA FinishWriteType ==
  ASSUME TypeOK, NEW p \in Procs, FinishWrite(p)
  PROVE  TypeOK'
<1>. DEFINE new == Finished(loaded[p], result[p].status, result[p].failed, "none",
                            result[p].complete)
<1>1. pc[p] \in WritePcs /\ task[p] # None
  BY RolesAssumption DEF TypeOK, TaskOK, FinishWrite, Goto, WritePcs, Procs
<1>2. new \in Rows /\ new.status \in Terminal /\ new.finished_at
  <2>1. /\ loaded[p] \in Rows
        /\ "none" \in ErrorTypes
        /\ result[p].status \in Terminal
        /\ result[p].failed \in {0, 1}
        /\ result[p].complete \in BOOLEAN
    BY <1>1 DEF TypeOK, SessionOK, ProcOK, Results, ErrorTypes
  <2>. QED BY <2>1, FinishedRow, ClosedByApiRow
<1>3. CommitClosing(p, new)
  BY DEF FinishWrite
<1>. HIDE DEF new
<1>4. TableOK' /\ DOMAIN table' = DOMAIN table
  BY <1>1, <1>2, <1>3, Closing DEF FinishWrite
<1>5. loaded' = [loaded EXCEPT ![p] = None]
  BY <1>1, <1>2, <1>3, Closing DEF FinishWrite
<1>6. BrokerOK'
  BY <1>4 DEF TypeOK, BrokerOK, FinishWrite
<1>7. LockOK'
  BY DEF TypeOK, LockOK, FinishWrite, lockVars
<1>8. ProcOK'
  BY DEF TypeOK, ProcOK, FinishWrite, Goto, WorkerPcs, ClientPcs, Leave,
      Results, NoResult, Terminal
<1>9. TaskOK' /\ SessionOK'
  <2>1. MoveTo(p, Leave(p), IF p \in Workers THEN task[p] ELSE None, None)
    BY <1>5 DEF TypeOK, TaskOK, MoveTo, FinishWrite, Goto
  <2>. QED
    BY <1>1, <1>4, <2>1, Moved, RolesAssumption DEF TypeOK, TaskOK, WritePcs,
        Leave, FinishWrite, Goto
<1>10. HistoryOK'
  BY <1>1, <1>2, <1>3, <1>4, Closing DEF TypeOK, HistoryOK, FinishWrite
<1>. QED
  BY <1>4, <1>6, <1>7, <1>8, <1>9, <1>10 DEF TypeOK

\* A failed run is closed within the constraints of the table.
LEMMA FailWriteType ==
  ASSUME TypeOK, NEW p \in Procs, FailWrite(p)
  PROVE  TypeOK'
<1>. DEFINE new == Finished(loaded[p], "failed", 1, "ExecutionError", FALSE)
<1>1. pc[p] \in WritePcs /\ task[p] # None
  BY RolesAssumption DEF TypeOK, TaskOK, FailWrite, Goto, WritePcs, Procs
<1>2. new \in Rows /\ new.status \in Terminal /\ new.finished_at
  BY <1>1, FinishedRow, ClosedByApiRow DEF TypeOK, SessionOK, ErrorTypes,
      Terminal
<1>3. CommitClosing(p, new)
  BY DEF FailWrite
<1>. HIDE DEF new
<1>4. TableOK' /\ DOMAIN table' = DOMAIN table
  BY <1>1, <1>2, <1>3, Closing DEF FailWrite
<1>5. loaded' = [loaded EXCEPT ![p] = None]
  BY <1>1, <1>2, <1>3, Closing DEF FailWrite
<1>6. BrokerOK'
  BY <1>4 DEF TypeOK, BrokerOK, FailWrite
<1>7. LockOK'
  BY DEF TypeOK, LockOK, FailWrite, lockVars
<1>8. ProcOK'
  BY DEF TypeOK, ProcOK, FailWrite, Goto, WorkerPcs, ClientPcs, Leave,
      Results, NoResult, Terminal
<1>9. TaskOK' /\ SessionOK'
  <2>1. MoveTo(p, Leave(p), IF p \in Workers THEN task[p] ELSE None, None)
    BY <1>5 DEF TypeOK, TaskOK, MoveTo, FailWrite, Goto
  <2>. QED
    BY <1>1, <1>4, <2>1, Moved, RolesAssumption DEF TypeOK, TaskOK, WritePcs,
        Leave, FailWrite, Goto
<1>10. HistoryOK'
  BY <1>1, <1>2, <1>3, <1>4, Closing DEF TypeOK, HistoryOK, FailWrite
<1>. QED
  BY <1>4, <1>6, <1>7, <1>8, <1>9, <1>10 DEF TypeOK

\* A published message names the run that was just inserted.
LEMMA PublishType ==
  ASSUME TypeOK, NEW c \in Clients, Publish(c)
  PROVE  TypeOK'
<1>. c \in Procs /\ c \notin Workers
  BY RolesAssumption DEF Procs
<1>1. TableOK'
  BY DEF TypeOK, Publish, TableOK, Put, dbVars
<1>2. BrokerOK'
  <2>1. task[c] \in Messages /\ task[c].run \in DOMAIN table
    BY DEF TypeOK, TaskOK, Publish
  <2>2. PICK n \in 0..2 : queue' = [queue EXCEPT ![task[c]] = @ + n]
    <3>1. queue = [queue EXCEPT ![task[c]] = @ + 0]
      BY <2>1 DEF TypeOK, BrokerOK
    <3>. QED BY <3>1 DEF Publish, Put
  <2>. QED
    BY <2>1, <2>2 DEF TypeOK, BrokerOK, Publish, dbVars
<1>3. LockOK'
  BY DEF TypeOK, Publish, LockOK, Put, lockVars
<1>4. ProcOK'
  BY DEF TypeOK, Publish, ProcOK, Put, procVars, WorkerPcs, ClientPcs
<1>7. HistoryOK'
  BY DEF TypeOK, Publish, HistoryOK, Put, historyVars, dbVars, Fault
<1>5. TaskOK' /\ SessionOK'
  <2>1. CASE pc'[c] = "idle"
    <3>1. MoveTo(c, "idle", None, loaded[c])
      BY <2>1 DEF TypeOK, ProcOK, SessionOK, MoveTo, Publish, Put
    <3>. QED
      BY <3>1, Moved DEF TypeOK, SessionOK, WritePcs, Publish, dbVars
  <2>2. CASE pc'[c] # "idle"
    <3>1. MoveTo(c, "close_read", task[c], loaded[c])
      BY <2>2 DEF TypeOK, ProcOK, TaskOK, SessionOK, MoveTo, Publish, Put
    <3>. QED
      BY <3>1, Moved DEF TypeOK, TaskOK, SessionOK, WritePcs, Publish, dbVars
  <2>. QED BY <2>1, <2>2
<1>. QED
  BY <1>1, <1>2, <1>3, <1>4, <1>5, <1>7 DEF TypeOK

\* The handlers of a failed publish load only an open row.
LEMMA CloseReadType ==
  ASSUME TypeOK, NEW c \in Clients, CloseRead(c)
  PROVE  TypeOK'
<1>. c \in Procs /\ c \notin Workers
  BY RolesAssumption DEF Procs
<1>1. TableOK'
  BY DEF TypeOK, CloseRead, TableOK, Load, dbVars
<1>2. BrokerOK'
  BY DEF TypeOK, CloseRead, BrokerOK, Load, dbVars
<1>3. LockOK'
  BY DEF TypeOK, CloseRead, LockOK, Load, lockVars
<1>4. ProcOK'
  BY DEF TypeOK, CloseRead, ProcOK, Load, procVars, WorkerPcs, ClientPcs
<1>7. HistoryOK'
  BY DEF TypeOK, CloseRead, HistoryOK, Load, historyVars, dbVars
<1>5. TaskOK' /\ SessionOK'
  <2>1. CASE table[task[c].run].status \in Closable(c)
    <3>1. MoveTo(c, "close_write", task[c], table[task[c].run])
      BY <2>1 DEF TypeOK, TaskOK, SessionOK, MoveTo, CloseRead, Load
    <3>. QED
      BY <2>1, <3>1, Moved, RolesAssumption, OpenRow DEF TypeOK, TaskOK,
          SessionOK, WritePcs, CloseRead, Closable, Active, dbVars
  <2>2. CASE table[task[c].run].status \notin Closable(c)
    <3>1. MoveTo(c, "idle", None, loaded[c])
      BY <2>2 DEF TypeOK, TaskOK, SessionOK, MoveTo, CloseRead
    <3>. QED
      BY <2>2, <3>1, Moved, RolesAssumption DEF TypeOK, TaskOK, SessionOK,
          WritePcs, CloseRead, dbVars
  <2>. QED
    BY <2>1, <2>2
<1>. QED
  BY <1>1, <1>2, <1>3, <1>4, <1>5, <1>7 DEF TypeOK

\* The importer leaves a result that finish can write.
LEMMA ImportPoliciesType ==
  ASSUME TypeOK, NEW p \in Procs, ImportPolicies(p)
  PROVE  TypeOK'
<1>. task[p] # None /\ task[p].run \in DOMAIN table
  BY RolesAssumption DEF TypeOK, TaskOK, Procs, ImportPolicies
<1>1. TableOK'
  BY DEF TypeOK, ImportPolicies, TableOK, dbVars
<1>2. BrokerOK'
  BY DEF TypeOK, ImportPolicies, BrokerOK, dbVars
<1>3. LockOK'
  BY DEF TypeOK, ImportPolicies, LockOK, lockVars
<1>4. ProcOK'
  BY DEF TypeOK, ImportPolicies, ProcOK, procVars, WorkerPcs, ClientPcs
<1>7. HistoryOK'
  BY DEF TypeOK, ImportPolicies, HistoryOK, historyVars, dbVars,
      BatchCommitted
<1>5. TaskOK' /\ SessionOK'
  <2>1. PICK to \in {"fail_read", "finish_read"} : MoveTo(p, to, task[p], loaded[p])
    BY DEF TypeOK, TaskOK, SessionOK, MoveTo, ImportPolicies
  <2>. QED
    BY <2>1, Moved, RolesAssumption DEF TypeOK, TaskOK, SessionOK, WritePcs,
        ImportPolicies, dbVars
<1>. QED
  BY <1>1, <1>2, <1>3, <1>4, <1>5, <1>7 DEF TypeOK

\* finish loads only an open row.
LEMMA FinishReadType ==
  ASSUME TypeOK, NEW p \in Procs, FinishRead(p)
  PROVE  TypeOK'
<1>. task[p] # None /\ task[p].run \in DOMAIN table
  BY RolesAssumption DEF TypeOK, TaskOK, Procs, FinishRead
<1>1. TableOK'
  BY DEF TypeOK, FinishRead, TableOK, Load, dbVars
<1>2. BrokerOK'
  BY DEF TypeOK, FinishRead, BrokerOK, Load, dbVars
<1>3. LockOK'
  BY DEF TypeOK, FinishRead, LockOK, Load, lockVars
<1>4. ProcOK'
  BY DEF TypeOK, FinishRead, ProcOK, Load, procVars, WorkerPcs, ClientPcs
<1>7. HistoryOK'
  BY DEF TypeOK, FinishRead, HistoryOK, Load, historyVars, dbVars
<1>5. TaskOK' /\ SessionOK'
  <2>1. CASE table[task[p].run].status \in Active
    <3>1. MoveTo(p, "finish_write", task[p], table[task[p].run])
      BY <2>1 DEF TypeOK, TaskOK, SessionOK, MoveTo, FinishRead, Load
    <3>. QED
      BY <2>1, <3>1, Moved, RolesAssumption, OpenRow DEF TypeOK, TaskOK,
          SessionOK, WritePcs, FinishRead, dbVars
  <2>2. CASE table[task[p].run].status \notin Active
    <3>1. MoveTo(p, "fail_read", task[p], loaded[p])
      BY <2>2 DEF TypeOK, TaskOK, SessionOK, MoveTo, FinishRead
    <3>. QED
      BY <2>2, <3>1, Moved, RolesAssumption DEF TypeOK, TaskOK, SessionOK,
          WritePcs, FinishRead, dbVars
  <2>. QED
    BY <2>1, <2>2
<1>. QED
  BY <1>1, <1>2, <1>3, <1>4, <1>5, <1>7 DEF TypeOK

\* The failure handlers load only an open row.
LEMMA FailReadType ==
  ASSUME TypeOK, NEW p \in Procs, FailRead(p)
  PROVE  TypeOK'
<1>. task[p] # None /\ task[p].run \in DOMAIN table
  BY RolesAssumption DEF TypeOK, TaskOK, Procs, FailRead
<1>1. TableOK'
  BY DEF TypeOK, FailRead, TableOK, Load, dbVars
<1>2. BrokerOK'
  BY DEF TypeOK, FailRead, BrokerOK, Load, dbVars
<1>3. LockOK'
  BY DEF TypeOK, FailRead, LockOK, Load, lockVars
<1>4. ProcOK'
  BY DEF TypeOK, FailRead, ProcOK, Load, procVars, WorkerPcs, ClientPcs,
      Leave, Results, NoResult, Terminal
<1>7. HistoryOK'
  BY DEF TypeOK, FailRead, HistoryOK, Load, historyVars, dbVars
<1>5. TaskOK' /\ SessionOK'
  <2>1. CASE table[task[p].run].status \in Active
    <3>1. MoveTo(p, "fail_write", task[p], table[task[p].run])
      BY <2>1 DEF TypeOK, TaskOK, SessionOK, MoveTo, FailRead, Load
    <3>. QED
      BY <2>1, <3>1, Moved, RolesAssumption, OpenRow DEF TypeOK, TaskOK,
          SessionOK, WritePcs, FailRead, dbVars
  <2>2. CASE table[task[p].run].status \notin Active
    <3>1. MoveTo(p, Leave(p), IF p \in Workers THEN task[p] ELSE None, loaded[p])
      BY <2>2 DEF TypeOK, TaskOK, SessionOK, MoveTo, FailRead, Leave
    <3>. QED
      BY <2>2, <3>1, Moved, RolesAssumption DEF TypeOK, TaskOK, SessionOK,
          WritePcs, FailRead, Leave, dbVars
  <2>. QED
    BY <2>1, <2>2
<1>. QED
  BY <1>1, <1>2, <1>3, <1>4, <1>5, <1>7 DEF TypeOK

\* A claim is committed only if the table accepts it.
LEMMA ClaimWriteType ==
  ASSUME TypeOK, NEW w \in Workers, ClaimWrite(w)
  PROVE  TypeOK'
<1>. DEFINE new == Flushed(w, Claimed(loaded[w]))
<1>1. w \in Procs /\ w \notin Clients
  BY RolesAssumption DEF Procs
<1>2. /\ task[w] # None /\ task[w].run \in DOMAIN table
      /\ table[task[w].run] \in Rows /\ loaded[w] \in Rows
  BY <1>1 DEF TypeOK, TableOK, TaskOK, SessionOK, ClaimWrite, WritePcs
<1>3. DOMAIN new = DOMAIN table /\ new \in [DOMAIN table -> Rows]
  <2>1. Flush(table[task[w].run], loaded[w], Claimed(loaded[w])) \in Rows
    BY <1>2, ClaimedRow, FlushedRow
  <2>. QED BY <1>2, <2>1 DEF TypeOK, TableOK, Flushed
<1>4. table' = table \/ (table' = new /\ Accepts(new))
  BY DEF ClaimWrite
<1>. HIDE DEF new
<1>5. TableOK' /\ DOMAIN table' = DOMAIN table
  BY <1>3, <1>4 DEF TypeOK, TableOK, ClaimWrite
<1>6. BrokerOK'
  BY <1>5 DEF TypeOK, BrokerOK, ClaimWrite
<1>7. LockOK'
  BY DEF TypeOK, LockOK, ClaimWrite, lockVars
<1>8. ProcOK'
  BY DEF TypeOK, ProcOK, ClaimWrite, WorkerPcs
<1>9. TaskOK' /\ SessionOK'
  <2>1. PICK to \in {"collect", "unlock"} : MoveTo(w, to, task[w], None)
    BY <1>1 DEF TypeOK, TaskOK, MoveTo, ClaimWrite, Forget
  <2>. QED
    BY <1>1, <1>2, <1>5, <2>1, Moved DEF TypeOK, TaskOK, WritePcs
<1>10. HistoryOK'
  BY <1>5 DEF TypeOK, HistoryOK, ClaimWrite, historyVars
<1>. QED
  BY <1>5, <1>6, <1>7, <1>8, <1>9, <1>10 DEF TypeOK

\* An insert is committed only if the table accepts it.
LEMMA InsertRunType ==
  ASSUME TypeOK, NEW c \in Clients, InsertRun(c)
  PROVE  TypeOK'
<1>1. c \in Procs /\ c \notin Workers
  BY RolesAssumption DEF Procs
<1>2. PICK r \in Fresh :
        LET status == IF c \in Importers THEN "running" ELSE "queued"
            new    == Insert(table, r, NewRow(target[c], status))
        IN IF Accepts(new)
           THEN /\ table' = new
                /\ task' = [task EXCEPT ![c] = MessageOf(c, r)]
                /\ pc' = [pc EXCEPT ![c] =
                            IF c \in Importers THEN "import" ELSE "publish"]
           ELSE /\ pc' = [pc EXCEPT ![c] = "idle"]
                /\ UNCHANGED <<table, task>>
  BY DEF InsertRun
<1>. DEFINE status == IF c \in Importers THEN "running" ELSE "queued"
            new    == Insert(table, r, NewRow(target[c], status))
<1>3. r \in Runs /\ r \notin DOMAIN table
  BY DEF Fresh
<1>4. DOMAIN new = DOMAIN table \cup {r} /\ new \in [DOMAIN new -> Rows]
  <2>1. target[c] \in Sources /\ status \in Active
    BY DEF TypeOK, ProcOK, Active
  <2>2. NewRow(target[c], status) \in Rows
    BY <2>1, NewRowType
  <2>. QED BY <2>2 DEF TypeOK, TableOK, Insert
<1>5. MessageOf(c, r) \in Messages /\ MessageOf(c, r).run = r
  BY <1>3, BoundsAssumption, ScheduleAssumption DEF MessageOf, Messages
<1>6. CASE Accepts(new)
  <2>1. /\ table' = new
        /\ task' = [task EXCEPT ![c] = MessageOf(c, r)]
        /\ pc' = [pc EXCEPT ![c] = IF c \in Importers THEN "import" ELSE "publish"]
    BY <1>2, <1>6
  <2>. HIDE DEF new
  <2>2. TableOK' /\ DOMAIN table \subseteq DOMAIN table'
    BY <1>3, <1>4, <1>6, <2>1 DEF TypeOK, TableOK, InsertRun
  <2>3. BrokerOK'
    BY <2>2 DEF TypeOK, BrokerOK, InsertRun
  <2>4. LockOK'
    BY DEF TypeOK, LockOK, InsertRun, lockVars
  <2>5. ProcOK'
    BY <2>1 DEF TypeOK, ProcOK, InsertRun, ClientPcs
  <2>6. TaskOK' /\ SessionOK'
    <3>1. PICK to \in {"import", "publish"} : MoveTo(c, to, MessageOf(c, r), loaded[c])
      BY <1>1, <2>1 DEF TypeOK, SessionOK, MoveTo, InsertRun
    <3>. QED
      BY <1>1, <1>4, <1>5, <2>1, <2>2, <3>1, Moved, NoneAssumption
      DEF TypeOK, SessionOK, WritePcs
  <2>7. HistoryOK'
    BY <2>2 DEF TypeOK, HistoryOK, InsertRun, historyVars
  <2>. QED BY <2>2, <2>3, <2>4, <2>5, <2>6, <2>7 DEF TypeOK
<1>7. CASE ~Accepts(new)
  <2>1. pc' = [pc EXCEPT ![c] = "idle"] /\ UNCHANGED <<table, task>>
    BY <1>2, <1>7
  <2>. HIDE DEF new
  <2>2. TableOK' /\ BrokerOK' /\ LockOK' /\ HistoryOK'
    BY <2>1 DEF TypeOK, TableOK, BrokerOK, LockOK, HistoryOK, InsertRun,
        lockVars, historyVars
  <2>3. ProcOK'
    BY <2>1 DEF TypeOK, ProcOK, InsertRun, ClientPcs
  <2>4. TaskOK' /\ SessionOK'
    <3>1. MoveTo(c, "idle", task[c], loaded[c]) /\ task[c] = None
      BY <1>1, <2>1 DEF TypeOK, TaskOK, SessionOK, MoveTo, InsertRun
    <3>. QED
      BY <1>1, <2>1, <3>1, Moved DEF TypeOK, SessionOK, WritePcs
  <2>. QED BY <2>2, <2>3, <2>4 DEF TypeOK
<1>. QED BY <1>6, <1>7

\* Only runs that exist grow stale.
LEMMA GrowStaleType ==
  ASSUME TypeOK, NEW r \in Runs, GrowStale(r)
  PROVE  TypeOK'
  BY DEF TypeOK, TableOK, BrokerOK, LockOK, ProcOK, TaskOK, SessionOK, HistoryOK,
      GrowStale, lockVars, procVars, historyVars

\* A worker that dies leaves its row and its lock entry typed.
LEMMA DieType ==
  ASSUME TypeOK, NEW w \in Workers, Die(w), faults' \in Nat,
         queue' = queue \/ Put(task[w])
  PROVE  TypeOK'
<1>1. w \in Procs /\ w \notin Clients
  BY RolesAssumption DEF Procs
<1>2. task[w] \in Messages /\ task[w].run \in DOMAIN table
  BY <1>1 DEF TypeOK, TaskOK, Die
<1>3. TableOK'
  BY DEF TypeOK, TableOK, Die, dbVars
<1>4. BrokerOK'
  BY <1>2 DEF TypeOK, BrokerOK, Die, Put, dbVars
<1>5. LockOK'
  BY DEF TypeOK, LockOK, Die
<1>6. ProcOK'
  BY DEF TypeOK, ProcOK, Die, WorkerPcs, Results, NoResult, Terminal
<1>7. TaskOK' /\ SessionOK'
  <2>1. MoveTo(w, "idle", None, None)
    BY DEF Die, MoveTo
  <2>. QED
    BY <1>1, <2>1, Moved DEF WritePcs, Die, dbVars
<1>8. HistoryOK'
  BY DEF TypeOK, HistoryOK, Die, historyVars, dbVars
<1>. QED
  BY <1>3, <1>4, <1>5, <1>6, <1>7, <1>8 DEF TypeOK

\* The handlers of a worker drop its session and go on to a known step.
LEMMA RaiseType ==
  ASSUME TypeOK, NEW w \in Workers, Raise(w)
  PROVE  TypeOK'
<1>. w \in Procs /\ w \notin Clients
  BY RolesAssumption DEF Procs
<1>1. TableOK'
  BY DEF TypeOK, Raise, TableOK, Fault, dbVars
<1>2. BrokerOK'
  BY DEF TypeOK, Raise, BrokerOK, Fault, dbVars
<1>3. LockOK'
  BY DEF TypeOK, Raise, LockOK, Fault, lockVars
<1>4. ProcOK'
  BY DEF TypeOK, Raise, ProcOK, Fault, procVars, WorkerPcs, ClientPcs,
      Handler, Results, NoResult, Terminal
<1>7. HistoryOK'
  BY DEF TypeOK, Raise, HistoryOK, Fault, historyVars, dbVars
<1>5. TaskOK' /\ SessionOK'
  <2>1. PICK to \in {"unlock", "fail_read", "ack"} : MoveTo(w, to, task[w], None)
    <3>1. Handler(pc[w]) \in {"unlock", "fail_read", "ack"}
      BY DEF Raise, Handler, WorkerPcs
    <3>. QED
      BY <3>1 DEF TypeOK, TaskOK, MoveTo, Raise
  <2>. QED
    BY <2>1, Moved, RolesAssumption DEF TypeOK, TaskOK, WritePcs, Raise, dbVars
<1>. QED
  BY <1>1, <1>2, <1>3, <1>4, <1>5, <1>7 DEF TypeOK

\* A broken lock session frees the lock and nothing else.
LEMMA LockLostType ==
  ASSUME TypeOK, NEW w \in Workers, LockLost(w)
  PROVE  TypeOK'
<1>1. TableOK'
  BY DEF TypeOK, LockLost, TableOK, Fault, dbVars
<1>2. BrokerOK'
  BY DEF TypeOK, LockLost, BrokerOK, Fault, dbVars
<1>3. LockOK'
  BY DEF TypeOK, LockLost, LockOK, Fault, lockVars
<1>4. ProcOK'
  BY DEF TypeOK, LockLost, ProcOK, Fault, procVars, WorkerPcs, ClientPcs
<1>5. TaskOK'
  BY DEF TypeOK, LockLost, TaskOK, Fault, ProcOK, procVars, dbVars
<1>6. SessionOK'
  BY DEF TypeOK, LockLost, SessionOK, Fault, ProcOK, procVars, WritePcs
<1>7. HistoryOK'
  BY DEF TypeOK, LockLost, HistoryOK, Fault, historyVars, dbVars
<1>. QED
  BY <1>1, <1>2, <1>3, <1>4, <1>5, <1>6, <1>7 DEF TypeOK

\* A client that ends leaves its row as it is.
LEMMA ClientLostType ==
  ASSUME TypeOK, NEW c \in Clients, ClientLost(c)
  PROVE  TypeOK'
<1>. c \in Procs /\ c \notin Workers
  BY RolesAssumption DEF Procs
<1>1. TableOK'
  BY DEF TypeOK, ClientLost, TableOK, Fault, dbVars
<1>2. BrokerOK'
  BY DEF TypeOK, ClientLost, BrokerOK, Fault, dbVars
<1>3. LockOK'
  BY DEF TypeOK, ClientLost, LockOK, Fault, lockVars
<1>4. ProcOK'
  BY DEF TypeOK, ClientLost, ProcOK, Fault, procVars, WorkerPcs, ClientPcs,
      Results, NoResult, Terminal
<1>7. HistoryOK'
  BY DEF TypeOK, ClientLost, HistoryOK, Fault, historyVars, dbVars
<1>5. TaskOK' /\ SessionOK'
  <2>1. MoveTo(c, "idle", None, None)
    BY DEF ClientLost, MoveTo
  <2>. QED
    BY <2>1, Moved DEF WritePcs, ClientLost, dbVars
<1>. QED
  BY <1>1, <1>2, <1>3, <1>4, <1>5, <1>7 DEF TypeOK

-----------------------------------------------------------------------------
\* The actions of Next, so that an invariant is proved action by action.
LEMMA StutterType ==
  ASSUME TypeOK, UNCHANGED vars
  PROVE  TypeOK'
  BY DEF TypeOK, TableOK, BrokerOK, LockOK, ProcOK, TaskOK, SessionOK, HistoryOK, vars

\* Every step keeps TypeOK.
LEMMA TypeStep == TypeOK /\ [Next]_vars => TypeOK'
<1>. SUFFICES ASSUME TypeOK, [Next]_vars PROVE TypeOK'
  OBVIOUS
<1>1. CASE Request
  BY <1>1, AdminReadType, SchedulerReadType, InsertUnseenType DEF Request
<1>2. ASSUME NEW c \in Clients, ClientStep(c) PROVE TypeOK'
  BY <1>2, AdminReplaceType, InsertRunType, PublishType, CloseReadType, CloseWriteType
  DEF ClientStep
<1>3. ASSUME NEW p \in Procs, Execution(p) PROVE TypeOK'
  BY <1>3, ImportPoliciesType, FinishReadType, FinishWriteType, FailReadType,
      FailWriteType DEF Execution
<1>4. ASSUME NEW w \in Workers, WorkerStep(w) PROVE TypeOK'
  BY <1>4, ClaimReadType, ClaimWriteType, CollectType, UnlockType, RetryType,
      ExhaustReadType, ExhaustWriteType, AckType DEF WorkerStep
<1>5. CASE Failure
  <2>1. ASSUME NEW w \in Workers, WorkerLost(w) \/ HardTimeLimit(w) PROVE TypeOK'
    <3>1. faults' \in Nat
      BY <2>1 DEF TypeOK, HistoryOK, WorkerLost, HardTimeLimit, Fault
    <3>. QED
      BY <2>1, <3>1, DieType DEF WorkerLost, HardTimeLimit
  <2>. QED
    BY <1>5, <2>1, RaiseType, LockLostType, ClientLostType DEF Failure
<1>. QED
  BY <1>1, <1>2, <1>3, <1>4, <1>5, DeliverType, GrowStaleType, StutterType DEF Next

\* Type correctness of the collection queue, including that the closes of
\* tasks.py, collection_runs.py and the admin API, which race without row
\* locks, never leave the table outside its constraints.
THEOREM TypeCorrect == Spec => []TypeOK
<1>1. Init => TypeOK
  BY RolesAssumption, ScheduleAssumption, NoneAssumption
  DEF Init, TypeOK, TableOK, BrokerOK, LockOK, ProcOK, TaskOK, SessionOK, HistoryOK,
      Accepts, UniqueActiveSource, WritePcs, WorkerPcs, ClientPcs, Results, NoResult,
      Terminal, Procs, Clients
<1>. QED
  BY <1>1, TypeStep, PTL DEF Spec

-----------------------------------------------------------------------------
(***************************************************************************)
(* How the table moves.                                                    *)
(***************************************************************************)

\* A row moves to a terminal status from anywhere, and to running only while
\* it is open.
Forward(old, new) == \/ new \in Terminal
                     \/ old \in Active /\ new = "running"

Inserts == \E r \in Fresh, s \in Sources, st \in {"queued", "running"} :
             /\ table' = Insert(table, r, NewRow(s, st))
             /\ Accepts(table')

Writes == \E r \in DOMAIN table, row \in Rows :
            /\ row.source = table[r].source
            /\ Forward(table[r].status, row.status)
            /\ table' = [table EXCEPT ![r] = row]

\* InsertRun inserts one row or none.
LEMMA InsertRunMoves ==
  ASSUME TypeOK, NEW c \in Clients, InsertRun(c)
  PROVE  table' = table \/ Inserts
<1>1. PICK r \in Fresh :
        LET status == IF c \in Importers THEN "running" ELSE "queued"
            new    == Insert(table, r, NewRow(target[c], status))
        IN IF Accepts(new)
           THEN /\ table' = new
                /\ task' = [task EXCEPT ![c] = MessageOf(c, r)]
                /\ pc' = [pc EXCEPT ![c] =
                            IF c \in Importers THEN "import" ELSE "publish"]
           ELSE /\ pc' = [pc EXCEPT ![c] = "idle"]
                /\ UNCHANGED <<table, task>>
  BY DEF InsertRun
<1>2. target[c] \in Sources
  BY DEF TypeOK, ProcOK
<1>. QED BY <1>1, <1>2 DEF Inserts

\* A close writes one terminal row.
LEMMA ClosingMoves ==
  ASSUME TypeOK, NEW p \in Procs, pc[p] \in WritePcs, task[p] # None,
         NEW new \in Rows, new.status \in Terminal, new.finished_at,
         CommitClosing(p, new)
  PROVE  Writes
<1>. DEFINE r == task[p].run
            row == Flush(table[r], loaded[p], new)
<1>1. r \in DOMAIN table /\ table[r] \in Rows
  BY DEF TypeOK, TaskOK, TableOK
<1>2. loaded[p] \in Rows /\ loaded[p].status \in Active /\ ~loaded[p].finished_at
  BY DEF TypeOK, SessionOK
<1>3. row \in Rows /\ row.source = table[r].source
  BY <1>1, <1>2, FlushedRow
<1>4. row.status \in Terminal
  BY <1>1, <1>2, ClosingRow
<1>5. table' = [table EXCEPT ![r] = row]
  BY DEF CommitClosing, Flushed
<1>. HIDE DEF r, row
<1>. QED BY <1>1, <1>3, <1>4, <1>5 DEF Writes, Forward

\* A claim is refused on a row that was closed since it was loaded.
LEMMA ClaimWriteMoves ==
  ASSUME TypeOK, NEW w \in Workers, ClaimWrite(w)
  PROVE  table' = table \/ Writes
<1>. DEFINE r   == task[w].run
            row == Flush(table[r], loaded[w], Claimed(loaded[w]))
            new == [table EXCEPT ![r] = row]
<1>1. w \in Procs
  BY DEF Procs
<1>2. /\ r \in DOMAIN table /\ table[r] \in Rows
      /\ loaded[w] \in Rows /\ loaded[w].status \in Active
  BY <1>1 DEF TypeOK, TableOK, TaskOK, SessionOK, ClaimWrite, WritePcs
<1>3. row \in Rows /\ row.source = table[r].source
  BY <1>2, ClaimedRow, FlushedRow
<1>4. /\ row.finished_at = table[r].finished_at
      /\ row.status = "running" \/ row = table[r]
  BY <1>2 DEF Flush, Claimed, Dirty, Rows
<1>5. table' = table \/ (table' = new /\ Accepts(new))
  BY DEF ClaimWrite, Flushed
<1>6. TerminalFinishedAt(table[r])
  BY <1>2 DEF TypeOK, TableOK, Accepts
<1>. HIDE DEF row, r
<1>7. CASE table' = new /\ Accepts(new) /\ row.status = "running"
  <2>1. TerminalFinishedAt(row)
    BY <1>2, <1>7 DEF Accepts
  <2>2. table[r].status \in Active
    BY <1>2, <1>4, <1>6, <1>7, <2>1 DEF TerminalFinishedAt, Active
  <2>. QED
    BY <1>2, <1>3, <1>7, <2>2 DEF Writes, Forward
<1>8. CASE table' = new /\ row = table[r]
  BY <1>2, <1>8 DEF TypeOK, TableOK
<1>. QED BY <1>4, <1>5, <1>7, <1>8

\* A step leaves the table alone, inserts one row, or moves one row forward.
LEMMA TableMoves ==
  ASSUME TypeOK, [Next]_vars
  PROVE  table' = table \/ Inserts \/ Writes
<1>1. CASE Request
  BY <1>1 DEF Request, AdminRead, SchedulerRead, InsertUnseen, dbVars
<1>2. ASSUME NEW c \in Clients, ClientStep(c)
      PROVE  table' = table \/ Inserts \/ Writes
  <2>1. c \in Procs /\ (AdminReplace(c) \/ CloseWrite(c) => task[c] # None)
    BY DEF Procs, TypeOK, TaskOK, AdminReplace, CloseWrite, Goto
  <2>2. CASE AdminReplace(c)
    <3>. DEFINE new == ClosedByApi(loaded[c], "StaleCollectionRunReplaced")
    <3>1. new \in Rows /\ new.status \in Terminal /\ new.finished_at
      BY <2>1, <2>2, FinishedRow, ClosedByApiRow
      DEF TypeOK, SessionOK, AdminReplace, Goto, WritePcs, ErrorTypes, Terminal
    <3>2. CommitClosing(c, new) /\ pc[c] \in WritePcs
      BY <2>2 DEF AdminReplace, Goto, WritePcs
    <3>. HIDE DEF new
    <3>. QED BY <2>1, <2>2, <3>1, <3>2, ClosingMoves
  <2>3. CASE CloseWrite(c)
    <3>. DEFINE error == "CollectionQueuePublishError"
                new == IF c \in Admins
                       THEN ClosedByApi(loaded[c], error)
                       ELSE Finished(loaded[c], "failed", 1, error, FALSE)
    <3>1. loaded[c] \in Rows /\ error \in ErrorTypes
      BY <2>1, <2>3 DEF TypeOK, SessionOK, CloseWrite, Goto, WritePcs, ErrorTypes
    <3>2. new \in Rows /\ new.status \in Terminal /\ new.finished_at
      <4>1. CASE c \in Admins
        BY <3>1, <4>1, FinishedRow, ClosedByApiRow DEF Terminal
      <4>2. CASE c \notin Admins
        BY <3>1, <4>2, FinishedRow, ClosedByApiRow DEF Terminal
      <4>. QED BY <4>1, <4>2
    <3>3. CommitClosing(c, new) /\ pc[c] \in WritePcs
      BY <2>3 DEF CloseWrite, Goto, WritePcs
    <3>. HIDE DEF new
    <3>. QED BY <2>1, <2>3, <3>2, <3>3, ClosingMoves
  <2>4. CASE Publish(c) \/ CloseRead(c)
    BY <2>4 DEF Publish, CloseRead, dbVars
  <2>. QED
    BY <1>2, <2>2, <2>3, <2>4, InsertRunMoves DEF ClientStep
<1>3. ASSUME NEW p \in Procs, Execution(p)
      PROVE  table' = table \/ Writes
  <2>1. CASE FinishWrite(p)
    <3>. DEFINE new == Finished(loaded[p], result[p].status, result[p].failed, "none",
                                result[p].complete)
    <3>1. pc[p] \in WritePcs /\ task[p] # None /\ CommitClosing(p, new)
      BY <2>1, RolesAssumption DEF TypeOK, TaskOK, FinishWrite, Goto, WritePcs, Procs
    <3>2. new \in Rows /\ new.status \in Terminal /\ new.finished_at
      <4>1. /\ loaded[p] \in Rows
            /\ "none" \in ErrorTypes
            /\ result[p].status \in Terminal
            /\ result[p].failed \in {0, 1}
            /\ result[p].complete \in BOOLEAN
        BY <3>1 DEF TypeOK, SessionOK, ProcOK, Results, ErrorTypes
      <4>. QED BY <4>1, FinishedRow, ClosedByApiRow
    <3>. HIDE DEF new
    <3>. QED BY <3>1, <3>2, ClosingMoves
  <2>2. CASE FailWrite(p)
    <3>. DEFINE new == Finished(loaded[p], "failed", 1, "ExecutionError", FALSE)
    <3>1. pc[p] \in WritePcs /\ task[p] # None /\ CommitClosing(p, new)
      BY <2>2, RolesAssumption DEF TypeOK, TaskOK, FailWrite, Goto, WritePcs, Procs
    <3>2. new \in Rows /\ new.status \in Terminal /\ new.finished_at
      BY <3>1, FinishedRow, ClosedByApiRow DEF TypeOK, SessionOK, ErrorTypes, Terminal
    <3>. HIDE DEF new
    <3>. QED BY <3>1, <3>2, ClosingMoves
  <2>. QED
    BY <1>3, <2>1, <2>2 DEF Execution, ImportPolicies, FinishRead, FailRead, dbVars
<1>4. ASSUME NEW w \in Workers, WorkerStep(w)
      PROVE  table' = table \/ Writes
  <2>1. CASE ExhaustWrite(w)
    <3>. DEFINE new == Finished(loaded[w], "failed", 1, "SourceCollectionLockTimeout", FALSE)
    <3>1. w \in Procs /\ pc[w] \in WritePcs /\ task[w] # None /\ CommitClosing(w, new)
      BY <2>1 DEF TypeOK, TaskOK, ExhaustWrite, Goto, WritePcs, Procs
    <3>2. new \in Rows /\ new.status \in Terminal /\ new.finished_at
      BY <3>1, FinishedRow, ClosedByApiRow DEF TypeOK, SessionOK, ErrorTypes, Terminal
    <3>. HIDE DEF new
    <3>. QED BY <3>1, <3>2, ClosingMoves
  <2>. QED
    BY <1>4, <2>1, ClaimWriteMoves
    DEF WorkerStep, ClaimRead, Collect, Unlock, Retry, ExhaustRead, Ack, dbVars
<1>5. CASE Failure
  BY <1>5 DEF Failure, WorkerLost, HardTimeLimit, Die, Raise, LockLost, ClientLost, dbVars
<1>6. ASSUME NEW w \in Workers, NEW m \in Messages, Deliver(w, m)
      PROVE  table' = table
  BY <1>6 DEF Deliver, dbVars
<1>7. ASSUME NEW r \in Runs, GrowStale(r)
      PROVE  table' = table
  BY <1>7 DEF GrowStale
<1>8. CASE UNCHANGED vars
  BY <1>8 DEF vars
<1>. QED
  BY <1>1, <1>2, <1>3, <1>4, <1>5, <1>6, <1>7, <1>8 DEF Next

\* Rows stay, keep their source, and go forward only.
LEMMA RowsKept ==
  ASSUME TypeOK, [Next]_vars, NEW r \in DOMAIN table
  PROVE  /\ r \in DOMAIN table'
         /\ table'[r].source = table[r].source
         /\ table'[r] = table[r] \/ Forward(table[r].status, table'[r].status)
<1>1. CASE table' = table
  BY <1>1
<1>2. CASE Inserts
  BY <1>2 DEF Inserts, Insert, Fresh
<1>3. CASE Writes
  BY <1>3 DEF Writes
<1>. QED BY <1>1, <1>2, <1>3, TableMoves

\* No step reopens a closed run: a claim that lost its race against a close
\* is refused by the table.  (mark_running, the CHECK constraint)
THEOREM ClosedIsClosed == Spec => ClosedStaysClosed
<1>1. TypeOK /\ [Next]_vars =>
        \A r \in DOMAIN table :
          table[r].status \in Terminal => table'[r].status \in Terminal
  BY RowsKept DEF Forward, Active, Terminal
<1>. QED
  BY <1>1, TypeCorrect, PTL DEF Spec, ClosedStaysClosed

-----------------------------------------------------------------------------
(***************************************************************************)
(* The lock.                                                               *)
(***************************************************************************)

\* A worker inside the lock whose session is alive is the holder of it.
HoldsItsLock ==
  \A w \in Workers :
    pc[w] \in LockedPcs /\ connected[w] => holder[SourceOf(w)] = w

\* The source a worker works on does not change under it.
LEMMA SameSource ==
  ASSUME TypeOK, [Next]_vars, NEW w \in Workers, pc[w] \in LockedPcs,
         task'[w] = task[w]
  PROVE  SourceOf(w)' = SourceOf(w) /\ SourceOf(w) \in Sources
<1>1. task[w] # None /\ task[w].run \in DOMAIN table
  BY DEF TypeOK, TaskOK, LockedPcs, Procs
<1>2. table[task[w].run].source \in Sources
  BY <1>1 DEF TypeOK, TableOK, Rows
<1>. QED BY <1>1, <1>2, RowsKept DEF SourceOf

\* A step that leaves the locks alone and takes no worker into one.
EntersNoLock == /\ UNCHANGED lockVars
                /\ \A w \in Workers : pc'[w] \in LockedPcs =>
                     pc[w] \in LockedPcs /\ task'[w] = task[w]

\* Such a step keeps HoldsItsLock.
LEMMA EntersNoLockHolds ==
  ASSUME TypeOK, [Next]_vars, HoldsItsLock, EntersNoLock
  PROVE  HoldsItsLock'
  BY SameSource DEF HoldsItsLock, EntersNoLock, lockVars

\* Every step keeps HoldsItsLock: only Deliver enters a lock, a free one.
LEMMA LockStep == TypeOK /\ HoldsItsLock /\ [Next]_vars => HoldsItsLock'
<1>. SUFFICES ASSUME TypeOK, HoldsItsLock, [Next]_vars PROVE HoldsItsLock'
  OBVIOUS
<1>1. CASE Request
  <2>1. ASSUME NEW c \in Admins, NEW s \in Sources, AdminRead(c, s) PROVE EntersNoLock
    BY <2>1, RolesAssumption
    DEF TypeOK, ProcOK, TaskOK, Procs, Clients, EntersNoLock, AdminRead
  <2>2. ASSUME NEW c \in Schedulers, SchedulerRead(c) PROVE EntersNoLock
    BY <2>2, RolesAssumption
    DEF TypeOK, ProcOK, TaskOK, Procs, Clients, EntersNoLock, SchedulerRead
  <2>3. ASSUME NEW c \in Releasers \cup Importers, NEW s \in Sources, InsertUnseen(c, s)
        PROVE  EntersNoLock
    BY <2>3, RolesAssumption
    DEF TypeOK, ProcOK, TaskOK, Procs, Clients, EntersNoLock, InsertUnseen
  <2>. QED BY <1>1, <2>1, <2>2, <2>3, EntersNoLockHolds DEF Request
<1>2. ASSUME NEW c \in Clients, ClientStep(c) PROVE HoldsItsLock'
  <2>1. UNCHANGED lockVars /\ \A w \in Workers : pc'[w] = pc[w] /\ task'[w] = task[w]
    BY <1>2, RolesAssumption
    DEF TypeOK, ProcOK, TaskOK, Procs, ClientStep, AdminReplace, InsertRun, Publish,
        CloseRead, CloseWrite, Goto
  <2>. QED BY <2>1, EntersNoLockHolds DEF EntersNoLock
<1>3. ASSUME NEW p \in Procs, Execution(p) PROVE HoldsItsLock'
  <2>1. UNCHANGED lockVars /\ \A w \in Workers : task'[w] = task[w]
    BY <1>3, RolesAssumption
    DEF TypeOK, TaskOK, Procs, Execution, ImportPolicies, FinishRead, FinishWrite,
        FailRead, FailWrite, Goto
  <2>2. \A w \in Workers : pc'[w] \in LockedPcs => pc[w] \in LockedPcs
    BY <1>3, RolesAssumption
    DEF TypeOK, ProcOK, Procs, Execution, ImportPolicies, FinishRead, FinishWrite,
        FailRead, FailWrite, Goto, LockedPcs
  <2>. QED BY <2>1, <2>2, EntersNoLockHolds DEF EntersNoLock
<1>4. ASSUME NEW w \in Workers, WorkerStep(w) PROVE HoldsItsLock'
  <2>1. CASE Unlock(w)
    <3>1. \A v \in Workers : task'[v] = task[v]
      BY <2>1 DEF Unlock
    <3>2. pc[w] \in LockedPcs /\ pc'[w] \notin LockedPcs
      BY <2>1 DEF TypeOK, ProcOK, Procs, Unlock, Goto, LockedPcs
    <3>3. ASSUME NEW v \in Workers, v # w, pc'[v] \in LockedPcs, connected'[v]
          PROVE  holder'[SourceOf(v)'] = v
      <4>1. pc[v] \in LockedPcs /\ connected[v]
        BY <2>1, <3>3 DEF TypeOK, ProcOK, LockOK, Procs, Unlock, Goto
      <4>2. holder[SourceOf(v)] = v /\ SourceOf(v)' = SourceOf(v) /\ SourceOf(v) \in Sources
        BY <3>1, <4>1, SameSource DEF HoldsItsLock
      <4>3. connected[w] => holder[SourceOf(w)] = w
        BY <3>2 DEF HoldsItsLock
      <4>. QED BY <2>1, <3>3, <4>2, <4>3 DEF Unlock, TypeOK, LockOK
    <3>. QED BY <3>2, <3>3 DEF HoldsItsLock
  <2>2. CASE ~Unlock(w)
    <3>1. UNCHANGED lockVars
      BY <1>4, <2>2
      DEF WorkerStep, ClaimRead, ClaimWrite, Collect, Retry, ExhaustRead, ExhaustWrite, Ack
    <3>2. \A v \in Workers : pc'[v] \in LockedPcs => pc[v] \in LockedPcs
      BY <1>4, <2>2
      DEF TypeOK, ProcOK, Procs, WorkerStep, ClaimRead, ClaimWrite, Collect, Retry,
          ExhaustRead, ExhaustWrite, Ack, Goto, LockedPcs
    <3>3. \A v \in Workers : pc'[v] \in LockedPcs => task'[v] = task[v]
      BY <1>4, <2>2
      DEF TypeOK, ProcOK, TaskOK, Procs, WorkerStep, ClaimRead, ClaimWrite, Collect, Retry,
          ExhaustRead, ExhaustWrite, Ack, Goto, LockedPcs
    <3>. QED BY <3>1, <3>2, <3>3, EntersNoLockHolds DEF EntersNoLock
  <2>. QED BY <2>1, <2>2
<1>5. ASSUME NEW w \in Workers, NEW m \in Messages, Deliver(w, m) PROVE HoldsItsLock'
  <2>. DEFINE s == table[m.run].source
  <2>1. m.run \in DOMAIN table /\ s \in Sources
    BY <1>5 DEF TypeOK, BrokerOK, TableOK, Rows, Deliver
  <2>2. table' = table /\ task' = [task EXCEPT ![w] = m] /\ pc[w] = "idle"
    BY <1>5 DEF Deliver, dbVars
  <2>3. CASE holder[s] # None
    <3>1. UNCHANGED lockVars
      BY <1>5, <2>3 DEF Deliver
    <3>2. \A v \in Workers : pc'[v] \in LockedPcs => pc[v] \in LockedPcs /\ task'[v] = task[v]
      BY <1>5, <2>2, <2>3 DEF TypeOK, ProcOK, TaskOK, Procs, Deliver, LockedPcs
    <3>. QED BY <3>1, <3>2, EntersNoLockHolds DEF EntersNoLock
  <2>4. CASE holder[s] = None
    <3>1. /\ holder' = [holder EXCEPT ![s] = w]
          /\ connected' = [connected EXCEPT ![w] = TRUE]
          /\ pc' = [pc EXCEPT ![w] = "claim_read"]
      BY <1>5, <2>4 DEF Deliver
    <3>2. holder'[SourceOf(w)'] = w
      BY <2>1, <2>2, <3>1 DEF TypeOK, TaskOK, LockOK, Procs, SourceOf
    <3>3. ASSUME NEW v \in Workers, v # w, pc'[v] \in LockedPcs, connected'[v]
          PROVE  holder'[SourceOf(v)'] = v
      <4>1. pc[v] \in LockedPcs /\ connected[v] /\ task'[v] = task[v]
        BY <2>2, <3>1, <3>3 DEF TypeOK, ProcOK, TaskOK, LockOK, Procs
      <4>2. holder[SourceOf(v)] = v /\ SourceOf(v)' = SourceOf(v) /\ SourceOf(v) \in Sources
        BY <4>1, SameSource DEF HoldsItsLock
      <4>3. SourceOf(v) # s
        BY <2>4, <4>2, RolesAssumption DEF Procs
      <4>. QED BY <2>1, <3>1, <4>2, <4>3 DEF TypeOK, LockOK
    <3>. QED BY <3>2, <3>3 DEF HoldsItsLock
  <2>. QED BY <2>3, <2>4
<1>6. CASE Failure
  <2>1. ASSUME NEW w \in Workers, Die(w) PROVE HoldsItsLock'
    <3>1. ASSUME NEW v \in Workers, pc'[v] \in LockedPcs, connected'[v]
          PROVE  holder'[SourceOf(v)'] = v
      <4>1. v # w
        BY <2>1, <3>1 DEF TypeOK, ProcOK, Procs, Die, LockedPcs
      <4>2. pc[v] \in LockedPcs /\ connected[v] /\ task'[v] = task[v]
        BY <2>1, <3>1, <4>1 DEF TypeOK, ProcOK, TaskOK, LockOK, Procs, Die
      <4>3. holder[SourceOf(v)] = v /\ SourceOf(v)' = SourceOf(v) /\ SourceOf(v) \in Sources
        BY <4>2, SameSource DEF HoldsItsLock
      <4>. QED BY <2>1, <4>1, <4>3 DEF Die
    <3>. QED BY <3>1 DEF HoldsItsLock
  <2>2. ASSUME NEW w \in Workers, Raise(w) PROVE HoldsItsLock'
    <3>1. UNCHANGED lockVars /\ UNCHANGED task
      BY <2>2 DEF Raise
    <3>2. \A v \in Workers : pc'[v] \in LockedPcs => pc[v] \in LockedPcs
      BY <2>2 DEF TypeOK, ProcOK, Procs, Raise, Handler, LockedPcs, WorkerPcs
    <3>. QED BY <3>1, <3>2, EntersNoLockHolds DEF EntersNoLock
  <2>3. ASSUME NEW w \in Workers, LockLost(w) PROVE HoldsItsLock'
    <3>1. pc[w] \in LockedPcs /\ connected[w] /\ holder[SourceOf(w)] = w
      BY <2>3 DEF LockLost, HoldsItsLock
    <3>2. ASSUME NEW v \in Workers, pc'[v] \in LockedPcs, connected'[v]
          PROVE  holder'[SourceOf(v)'] = v
      <4>1. v # w
        BY <2>3, <3>2 DEF TypeOK, LockOK, LockLost
      <4>2. pc[v] \in LockedPcs /\ connected[v] /\ task'[v] = task[v]
        BY <2>3, <3>2, <4>1 DEF TypeOK, LockOK, LockLost, procVars
      <4>3. holder[SourceOf(v)] = v /\ SourceOf(v)' = SourceOf(v) /\ SourceOf(v) \in Sources
        BY <4>2, SameSource DEF HoldsItsLock
      <4>4. SourceOf(v) # SourceOf(w)
        BY <3>1, <4>1, <4>3
      <4>. QED BY <2>3, <4>3, <4>4 DEF LockLost, TypeOK, LockOK
    <3>. QED BY <3>2 DEF HoldsItsLock
  <2>4. ASSUME NEW c \in Clients, ClientLost(c) PROVE HoldsItsLock'
    <3>1. UNCHANGED lockVars /\ \A w \in Workers : pc'[w] = pc[w] /\ task'[w] = task[w]
      BY <2>4, RolesAssumption DEF TypeOK, ProcOK, TaskOK, Procs, ClientLost
    <3>. QED BY <3>1, EntersNoLockHolds DEF EntersNoLock
  <2>. QED
    BY <1>6, <2>1, <2>2, <2>3, <2>4 DEF Failure, WorkerLost, HardTimeLimit
<1>7. ASSUME NEW r \in Runs, GrowStale(r) PROVE HoldsItsLock'
  BY <1>7, EntersNoLockHolds DEF GrowStale, EntersNoLock, procVars
<1>8. CASE UNCHANGED vars
  BY <1>8 DEF vars, HoldsItsLock, SourceOf
<1>. QED
  BY <1>1, <1>2, <1>3, <1>4, <1>5, <1>6, <1>7, <1>8 DEF Next

\* Collections of one source never overlap while the lock sessions live, for
\* any number of workers, runs and sources, and whatever fails.
THEOREM MutualExclusion == Spec => []OneCollectorPerSource
<1>1. Init => HoldsItsLock
  BY DEF Init, HoldsItsLock, LockedPcs, Procs
<1>2. HoldsItsLock => OneCollectorPerSource
  BY DEF HoldsItsLock, OneCollectorPerSource
<1>. QED
  BY <1>1, <1>2, LockStep, TypeCorrect, PTL DEF Spec

-----------------------------------------------------------------------------
(***************************************************************************)
(* The rows implement the abstract life cycle.                             *)
(***************************************************************************)

\* The refinement mapping of LifecycleSpec, as functions of a table.
PhaseOf(t, r) == IF r \notin DOMAIN t THEN "absent"
                 ELSE IF t[r].status \in Terminal THEN "closed" ELSE t[r].status
Phases(t)    == [r \in Runs |-> PhaseOf(t, r)]
SourcesOf(t) == [r \in DOMAIN t |-> t[r].source]

\* An accepted insert is a request: the new row is the only open one of its
\* source, so there was none before.
LEMMA InsertRefines ==
  ASSUME TypeOK, Inserts
  PROVE  Lifecycle!Next
<1>1. PICK r \in Fresh, s \in Sources, st \in {"queued", "running"} :
        /\ table' = Insert(table, r, NewRow(s, st))
        /\ Accepts(table')
  BY DEF Inserts
<1>2. /\ r \in Runs /\ r \notin DOMAIN table
      /\ DOMAIN table' = DOMAIN table \cup {r}
      /\ table'[r].source = s /\ table'[r].status = st
      /\ \A q \in DOMAIN table : table'[q] = table[q]
  BY <1>1 DEF Fresh, Insert, NewRow
<1>3. \A q \in DOMAIN table : table[q].source = s => table[q].status \in Terminal
  <2>1. \A q \in DOMAIN table : table[q].status \in Active \cup Terminal
    BY DEF TypeOK, TableOK, Rows
  <2>2. st \in Active
    BY DEF Active
  <2>3. UniqueActiveSource(table')
    BY <1>1 DEF Accepts
  <2>. QED BY <1>2, <2>1, <2>2, <2>3 DEF UniqueActiveSource
<1>4. Phases(table') = [Phases(table) EXCEPT ![r] = st]
  BY <1>2 DEF Phases, PhaseOf, Terminal
<1>5. SourcesOf(table') =
        [q \in DOMAIN SourcesOf(table) \cup {r} |-> IF q = r THEN s ELSE SourcesOf(table)[q]]
  BY <1>2 DEF SourcesOf
<1>6. Phases(table)[r] = "absent"
  BY <1>2 DEF Phases, PhaseOf
<1>7. {q \in DOMAIN SourcesOf(table) :
         SourcesOf(table)[q] = s /\ Phases(table)[q] # "closed"} = {}
  BY <1>3 DEF SourcesOf, Phases, PhaseOf, TypeOK, TableOK
<1>8. Lifecycle!Request(r, s, st)
  BY <1>4, <1>5, <1>6, <1>7
  DEF Lifecycle!Request, Lifecycle!Open, Phases, PhaseOf, SourcesOf
<1>. QED
  BY <1>2, <1>8 DEF Lifecycle!Next

\* A write claims or closes the run, or only changes how a closed one shows.
LEMMA WriteRefines ==
  ASSUME TypeOK, Writes
  PROVE  Lifecycle!Next \/ UNCHANGED Lifecycle!lifecycleVars
<1>1. PICK r \in DOMAIN table, row \in Rows :
        /\ row.source = table[r].source
        /\ Forward(table[r].status, row.status)
        /\ table' = [table EXCEPT ![r] = row]
  BY DEF Writes
<1>2. /\ r \in Runs
      /\ DOMAIN table' = DOMAIN table
      /\ table'[r] = row
      /\ \A q \in DOMAIN table : q # r => table'[q] = table[q]
      /\ table[r].status \in Active \cup Terminal
  BY <1>1 DEF TypeOK, TableOK, Rows
<1>3. SourcesOf(table') = SourcesOf(table)
  BY <1>1, <1>2 DEF SourcesOf
<1>4. Phases(table') = [Phases(table) EXCEPT ![r] = PhaseOf(table', r)]
  BY <1>2 DEF Phases, PhaseOf
<1>5. CASE row.status \in Terminal /\ table[r].status \in Active
  <2>1. Phases(table)[r] \in {"queued", "running"} /\ PhaseOf(table', r) = "closed"
    BY <1>2, <1>5 DEF Phases, PhaseOf, Active, Terminal
  <2>2. Lifecycle!Close(r)
    BY <1>3, <1>4, <2>1 DEF Lifecycle!Close, Phases, PhaseOf, SourcesOf
  <2>. QED BY <1>2, <2>2 DEF Lifecycle!Next
<1>6. CASE row.status = "running" /\ table[r].status = "queued"
  <2>1. Phases(table)[r] = "queued" /\ PhaseOf(table', r) = "running"
    BY <1>2, <1>6 DEF Phases, PhaseOf, Terminal
  <2>2. Lifecycle!Claim(r)
    BY <1>3, <1>4, <2>1 DEF Lifecycle!Claim, Phases, PhaseOf, SourcesOf
  <2>. QED BY <1>2, <2>2 DEF Lifecycle!Next
<1>7. CASE PhaseOf(table', r) = PhaseOf(table, r)
  <2>1. Phases(table') = Phases(table)
    BY <1>2, <1>4, <1>7 DEF Phases
  <2>. QED
    BY <1>3, <2>1 DEF Lifecycle!lifecycleVars, Phases, PhaseOf, SourcesOf
<1>8. \/ row.status \in Terminal /\ table[r].status \in Active
      \/ row.status = "running" /\ table[r].status = "queued"
      \/ PhaseOf(table', r) = PhaseOf(table, r)
  BY <1>1, <1>2 DEF Forward, PhaseOf, Active, Terminal
<1>. QED BY <1>5, <1>6, <1>7, <1>8

\* The rows of the queue, with all its sessions, retries and faults, behave
\* as RunLifecycle: one open run per source, and only forward.  (the writers
\* of collection_runs against its constraints)
THEOREM RowsFollowLifecycle == Spec => LifecycleSpec
<1>1. Init => Lifecycle!Init
  BY DEF Init, Lifecycle!Init
<1>2. TypeOK /\ [Next]_vars => [Lifecycle!Next]_(Lifecycle!lifecycleVars)
  <2>. SUFFICES ASSUME TypeOK, [Next]_vars
       PROVE  Lifecycle!Next \/ UNCHANGED Lifecycle!lifecycleVars
    OBVIOUS
  <2>1. CASE table' = table
    BY <2>1 DEF Lifecycle!lifecycleVars
  <2>. QED BY <2>1, TableMoves, InsertRefines, WriteRefines
<1>. QED
  BY <1>1, <1>2, TypeCorrect, PTL DEF Spec, LifecycleSpec, Lifecycle!Spec


-----------------------------------------------------------------------------
(***************************************************************************)
(* The inductive invariant about outcomes.                                 *)
(***************************************************************************)

FinishPcs == {"finish_read", "finish_write"}

\* No closer has counted a failure or claimed a snapshot.
Blank(row) == row.failed_count = 0 /\ ~row.is_complete_snapshot

\* A result on its way to the row is the one of an import that took place.
ResultOf(p) ==
  /\ result[p].complete = task[p].complete
  /\ result[p].complete => result[p].status = "succeeded"
  /\ result[p].status # "failed" => /\ result[p].failed = 0
                                    /\ task[p].run \in imported
ResultsMatch == \A p \in Procs : pc[p] \in FinishPcs => ResultOf(p)

OpenRowsBlank == \A r \in DOMAIN table : table[r].status \in Active => Blank(table[r])
SessionsBlank == \A p \in Procs : pc[p] \in WritePcs => Blank(loaded[p])

\* Somebody may still finish run r with complete_snapshot b.
AsksAt(p, r, b) == /\ task[p] # None
                   /\ pc[p] # "replace"
                   /\ task[p].run = r
                   /\ task[p].complete = b
Asks(r, b) == \/ \E m \in Messages : queue[m] > 0 /\ m.run = r /\ m.complete = b
              \/ \E p \in Procs : AsksAt(p, r, b)

\* All who work on a run agree whether it was asked for a complete snapshot;
\* if it was, whoever closes it as failed counts the failure.
Answer(r, b) ==
  /\ \A c \in BOOLEAN : Asks(r, c) => c = b
  /\ b /\ ~(closings[r] \subseteq {"succeeded"}) => table[r].failed_count = 1
  /\ ~b => ~table[r].is_complete_snapshot
OneAnswer == \A r \in DOMAIN table : \E b \in BOOLEAN : Answer(r, b)

-----------------------------------------------------------------------------
(***************************************************************************)
(* The kinds of steps, as far as rows and their history go.                *)
(***************************************************************************)

\* Nothing is committed to the table.
Keeps == table' = table /\ closings' = closings

\* A queued or running row is inserted by c.
InsertsBy(c) ==
  \E r \in Fresh, s \in Sources, st \in {"queued", "running"} :
    /\ table' = Insert(table, r, NewRow(s, st))
    /\ pc'[c] = IF st = "running" THEN "import" ELSE "publish"
    /\ task' = [task EXCEPT ![c] = MessageOf(c, r)]
    /\ queue' = queue
    /\ closings' = closings

\* The claim of a queued row, which writes its status only.
Claims(w) == /\ pc[w] \in WritePcs
             /\ task[w] # None
             /\ table' = Flushed(w, Claimed(loaded[w]))
             /\ Accepts(table')
             /\ closings' = closings
             /\ pc'[w] = "collect"
             /\ task' = task

\* What a process that closes a run assigns.
Assigned(p, new) ==
  \/ \E e \in ErrorTypes : \/ new = ClosedByApi(loaded[p], e)
                           \/ new = Finished(loaded[p], "failed", 1, e, FALSE)
  \/ /\ pc[p] \in FinishPcs
     /\ new = Finished(loaded[p], result[p].status, result[p].failed, "none",
                       result[p].complete)
Closes(p, new) == /\ pc[p] \in WritePcs
                  /\ task[p] # None
                  /\ Assigned(p, new)
                  /\ CommitClosing(p, new)

\* The actions that close a run.
LEMMA Closers ==
  ASSUME TypeOK, NEW p \in Procs,
         \/ AdminReplace(p) \/ CloseWrite(p) \/ FinishWrite(p) \/ FailWrite(p)
         \/ p \in Workers /\ ExhaustWrite(p)
  PROVE  \E new : Closes(p, new)
<1>1. pc[p] \in WritePcs /\ task[p] # None
  BY DEF TypeOK, TaskOK, AdminReplace, CloseWrite, FinishWrite, FailWrite, ExhaustWrite, Goto,
         WritePcs, Procs
<1>2. FinishWrite(p) => pc[p] \in FinishPcs
  BY DEF FinishWrite, Goto, FinishPcs
<1>. QED
  BY <1>1, <1>2
  DEF AdminReplace, CloseWrite, FinishWrite, FailWrite, ExhaustWrite, Closes, Assigned, ErrorTypes

\* Every step is of one of these kinds.
LEMMA Kinds ==
  ASSUME TypeOK, [Next]_vars
  PROVE  \/ Keeps
         \/ \E c \in Clients : InsertsBy(c)
         \/ \E w \in Workers : Claims(w)
         \/ \E p \in Procs : \E new : Closes(p, new)
<1>. DEFINE Goal == \/ Keeps
                    \/ \E c \in Clients : InsertsBy(c)
                    \/ \E w \in Workers : Claims(w)
                    \/ \E p \in Procs : \E new : Closes(p, new)
<1>1. CASE Request
  BY <1>1 DEF Request, AdminRead, SchedulerRead, InsertUnseen, dbVars, historyVars, Keeps
<1>2. ASSUME NEW c \in Clients, ClientStep(c) PROVE Goal
  <2>. c \in Procs
    BY DEF Procs
  <2>1. CASE AdminReplace(c) \/ CloseWrite(c)
    BY <2>1, Closers
  <2>3. CASE InsertRun(c)
    <3>1. PICK r \in Fresh :
            LET status == IF c \in Importers THEN "running" ELSE "queued"
                new    == Insert(table, r, NewRow(target[c], status))
            IN IF Accepts(new)
               THEN /\ table' = new
                    /\ task' = [task EXCEPT ![c] = MessageOf(c, r)]
                    /\ pc' = [pc EXCEPT ![c] =
                                IF c \in Importers THEN "import" ELSE "publish"]
               ELSE /\ pc' = [pc EXCEPT ![c] = "idle"]
                    /\ UNCHANGED <<table, task>>
      BY <2>3 DEF InsertRun
    <3>2. target[c] \in Sources /\ queue' = queue /\ closings' = closings
      BY <2>3 DEF TypeOK, ProcOK, InsertRun, historyVars
    <3>. QED BY <3>1, <3>2 DEF InsertsBy, Keeps, TypeOK, ProcOK
  <2>4. CASE Publish(c) \/ CloseRead(c)
    BY <2>4 DEF Publish, CloseRead, dbVars, historyVars, Keeps
  <2>. QED BY <1>2, <2>1, <2>3, <2>4 DEF ClientStep
<1>3. ASSUME NEW p \in Procs, Execution(p) PROVE Goal
  <2>1. CASE FinishWrite(p) \/ FailWrite(p)
    BY <2>1, Closers
  <2>3. CASE ImportPolicies(p) \/ FinishRead(p) \/ FailRead(p)
    BY <2>3 DEF ImportPolicies, FinishRead, FailRead, dbVars, historyVars, Keeps
  <2>. QED BY <1>3, <2>1, <2>3 DEF Execution
<1>4. ASSUME NEW w \in Workers, WorkerStep(w) PROVE Goal
  <2>. w \in Procs
    BY DEF Procs
  <2>1. CASE ExhaustWrite(w)
    BY <2>1, Closers
  <2>2. CASE ClaimWrite(w)
    <3>1. pc[w] \in WritePcs /\ task[w] # None
      BY <2>2 DEF TypeOK, TaskOK, ClaimWrite, WritePcs
    <3>. QED
      BY <2>2, <3>1 DEF ClaimWrite, Claims, Keeps, historyVars, TypeOK, ProcOK
  <2>3. CASE ~ExhaustWrite(w) /\ ~ClaimWrite(w)
    BY <1>4, <2>3
    DEF WorkerStep, ClaimRead, Collect, Unlock, Retry, ExhaustRead, Ack, dbVars,
        historyVars, Keeps
  <2>. QED BY <2>1, <2>2, <2>3
<1>5. ASSUME NEW w \in Workers, NEW m \in Messages, Deliver(w, m) PROVE Goal
  BY <1>5 DEF Deliver, dbVars, historyVars, Keeps
<1>6. ASSUME NEW r \in Runs, GrowStale(r) PROVE Goal
  BY <1>6 DEF GrowStale, historyVars, Keeps
<1>7. CASE Failure
  BY <1>7
  DEF Failure, WorkerLost, HardTimeLimit, Die, Raise, LockLost, ClientLost, dbVars,
      historyVars, Keeps
<1>8. CASE UNCHANGED vars
  BY <1>8 DEF vars, Keeps
<1>. QED
  BY <1>1, <1>2, <1>3, <1>4, <1>5, <1>6, <1>7, <1>8 DEF Next

-----------------------------------------------------------------------------
(***************************************************************************)
(* What a commit does to the row of its run.                               *)
(***************************************************************************)

\* The row a closer leaves: its status is the closer's, a failure is counted
\* once and for all, and a snapshot is claimed only by a result that is one.
LEMMA ClosedRow ==
  ASSUME TypeOK, ResultsMatch, SessionsBlank, NEW p \in Procs, NEW new, Closes(p, new)
  PROVE  LET r == task[p].run IN
         /\ r \in DOMAIN table /\ r \in Runs
         /\ DOMAIN table' = DOMAIN table
         /\ \A q \in DOMAIN table : q # r => table'[q] = table[q]
         /\ closings' = [closings EXCEPT ![r] = @ \cup {new.status}]
         /\ table'[r].status = new.status
         /\ new.status \in Terminal
         /\ new.status # "failed" => ResultOf(p) /\ pc[p] \in FinishPcs /\ r \in imported
         /\ new.status = "failed" => \/ table'[r].failed_count = 1
                                     \/ ResultOf(p) /\ pc[p] \in FinishPcs /\ ~task[p].complete
         /\ table[r].failed_count = 1 => table'[r].failed_count = 1
         /\ table'[r].is_complete_snapshot =>
              \/ table[r].is_complete_snapshot
              \/ pc[p] \in FinishPcs /\ task[p].complete
<1>. DEFINE r == task[p].run
            ld == loaded[p]
<1>1. /\ ld \in Rows /\ ld.status \in Active /\ ~ld.finished_at
      /\ Blank(ld)
  BY DEF Closes, TypeOK, SessionOK, SessionsBlank
<1>2. r \in DOMAIN table /\ r \in Runs /\ table[r] \in Rows
  BY DEF Closes, TypeOK, TaskOK, TableOK
<1>3. table' = [table EXCEPT ![r] = Flush(table[r], ld, new)]
  BY DEF Closes, CommitClosing, Flushed
<1>4. closings' = [closings EXCEPT ![r] = @ \cup {new.status}]
  BY DEF Closes, CommitClosing
<1>5. \/ new \in Rows /\ new.status = "failed" /\ new.finished_at /\ new.failed_count = 1
           /\ new.is_complete_snapshot = FALSE
      \/ /\ pc[p] \in FinishPcs
         /\ new \in Rows /\ new.status = result[p].status /\ new.finished_at
         /\ new.failed_count = result[p].failed
         /\ new.is_complete_snapshot = result[p].complete
  <2>1. ASSUME NEW e \in ErrorTypes, new = ClosedByApi(ld, e)
        PROVE  new \in Rows /\ new.status = "failed" /\ new.finished_at /\ new.failed_count = 1
               /\ new.is_complete_snapshot = FALSE
    BY <1>1, <2>1 DEF ClosedByApi, Rows, Terminal, Active, Blank
  <2>2. ASSUME NEW e \in ErrorTypes, new = Finished(ld, "failed", 1, e, FALSE)
        PROVE  new \in Rows /\ new.status = "failed" /\ new.finished_at /\ new.failed_count = 1
               /\ new.is_complete_snapshot = FALSE
    BY <1>1, <2>2 DEF Finished, Rows, Terminal, Active
  <2>3. ASSUME pc[p] \in FinishPcs,
               new = Finished(ld, result[p].status, result[p].failed, "none", result[p].complete)
        PROVE  /\ new \in Rows /\ new.status = result[p].status /\ new.finished_at
               /\ new.failed_count = result[p].failed
               /\ new.is_complete_snapshot = result[p].complete
    <3>1. result[p] \in Results
      BY DEF TypeOK, ProcOK
    <3>2. result[p].status \in Terminal /\ result[p].failed \in {0, 1} /\ result[p].complete \in BOOLEAN
      BY <3>1 DEF Results
    <3>3. "none" \in ErrorTypes
      BY DEF ErrorTypes
    <3>4. new \in Rows /\ new.status = result[p].status /\ new.finished_at
      BY <1>1, <2>3, <3>2, <3>3, FinishedRow
    <3>. QED BY <1>1, <2>3, <3>4 DEF Finished, Rows
  <2>. QED BY <2>1, <2>2, <2>3 DEF Closes, Assigned
<1>6. new \in Rows /\ new.status \in Terminal /\ new.finished_at
  <2>1. result[p].status \in Terminal
    BY DEF TypeOK, ProcOK, Results
  <2>. QED BY <1>5, <2>1 DEF Terminal
<1>7. table'[r].status = new.status
  BY <1>1, <1>2, <1>3, <1>6, ClosingRow
<1>8. /\ table'[r].failed_count = Dirty(table[r].failed_count, 0, new.failed_count)
      /\ table'[r].is_complete_snapshot =
           Dirty(table[r].is_complete_snapshot, ld.is_complete_snapshot, new.is_complete_snapshot)
  BY <1>1, <1>2, <1>3 DEF Flush, Blank
<1>9. pc[p] \in FinishPcs => ResultOf(p)
  BY DEF ResultsMatch
<1>10. /\ new.failed_count \in {0, 1} /\ table[r].failed_count \in {0, 1}
       /\ new.is_complete_snapshot \in BOOLEAN /\ table[r].is_complete_snapshot \in BOOLEAN
       /\ ld.is_complete_snapshot \in BOOLEAN
  BY <1>1, <1>2, <1>6 DEF Rows
<1>11. new.status # "failed" => ResultOf(p) /\ pc[p] \in FinishPcs /\ r \in imported
  BY <1>5, <1>9 DEF ResultOf
<1>12. new.status = "failed" => \/ table'[r].failed_count = 1
                                \/ ResultOf(p) /\ pc[p] \in FinishPcs /\ ~task[p].complete
  <2>1. CASE new.failed_count = 1
    BY <1>8, <2>1 DEF Dirty
  <2>2. CASE new.failed_count # 1
    <3>1. pc[p] \in FinishPcs /\ new.status = result[p].status /\ ResultOf(p)
      BY <1>5, <1>9, <2>2
    <3>. QED BY <3>1 DEF ResultOf
  <2>. QED BY <2>1, <2>2
<1>13. table[r].failed_count = 1 => table'[r].failed_count = 1
  BY <1>8, <1>10 DEF Dirty
<1>14. table'[r].is_complete_snapshot =>
              \/ table[r].is_complete_snapshot
              \/ pc[p] \in FinishPcs /\ task[p].complete
  <2>1. CASE new.is_complete_snapshot
    BY <1>5, <1>9, <2>1 DEF ResultOf
  <2>2. CASE ~new.is_complete_snapshot
    BY <1>1, <1>8, <1>10, <2>2 DEF Dirty, Blank
  <2>. QED BY <2>1, <2>2
<1>15. DOMAIN table' = DOMAIN table /\ \A q \in DOMAIN table : q # r => table'[q] = table[q]
  BY <1>3
<1>. QED
  BY <1>2, <1>4, <1>6, <1>7, <1>11, <1>12, <1>13, <1>14, <1>15

\* A claim changes the status of an open row to running and no other column.
LEMMA ClaimedTable ==
  ASSUME TypeOK, NEW w \in Workers, Claims(w)
  PROVE  LET r == task[w].run IN
         /\ r \in DOMAIN table /\ r \in Runs
         /\ DOMAIN table' = DOMAIN table
         /\ \A q \in DOMAIN table : q # r => table'[q] = table[q]
         /\ table'[r].failed_count = table[r].failed_count
         /\ table'[r].is_complete_snapshot = table[r].is_complete_snapshot
         /\ \/ table'[r].status = table[r].status
            \/ table[r].status \in Active /\ table'[r].status = "running"
<1>. DEFINE r == task[w].run
            ld == loaded[w]
            row == Flush(table[r], ld, Claimed(ld))
<1>1. w \in Procs
  BY DEF Procs
<1>2. ld \in Rows /\ ld.status \in Active /\ ~ld.finished_at
  BY <1>1 DEF Claims, TypeOK, SessionOK
<1>3. r \in DOMAIN table /\ r \in Runs /\ table[r] \in Rows
  BY <1>1 DEF Claims, TypeOK, TaskOK, TableOK
<1>4. table' = [table EXCEPT ![r] = row]
  BY DEF Claims, Flushed
<1>5. table'[r] = row
  BY <1>3, <1>4
<1>6. Claimed(ld).failed_count = ld.failed_count
      /\ Claimed(ld).is_complete_snapshot = ld.is_complete_snapshot
      /\ Claimed(ld).finished_at = ld.finished_at
      /\ Claimed(ld).status = "running"
  BY <1>2 DEF Claimed, Rows
<1>7. /\ row.failed_count = table[r].failed_count
      /\ row.is_complete_snapshot = table[r].is_complete_snapshot
      /\ row.finished_at = table[r].finished_at
      /\ row.status = table[r].status \/ row.status = "running"
  BY <1>6 DEF Flush, Dirty
<1>8. row.status \in Active <=> ~row.finished_at
  BY <1>3, <1>4, <1>5 DEF Claims, Accepts, TerminalFinishedAt
<1>9. table[r].status \in Active <=> ~table[r].finished_at
  BY <1>3 DEF TypeOK, TableOK, Accepts, TerminalFinishedAt
<1>10. \/ row.status = table[r].status
       \/ table[r].status \in Active /\ row.status = "running"
  <2>. HIDE DEF row, r
  <2>1. row.status = "running" => row.status \in Active
    BY DEF Active
  <2>. QED BY <1>7, <1>8, <1>9, <2>1
<1>11. DOMAIN table' = DOMAIN table /\ \A q \in DOMAIN table : q # r => table'[q] = table[q]
  BY <1>4
<1>. QED
  BY <1>3, <1>5, <1>7, <1>10, <1>11

\* An inserted row is blank and open, and its run is new.
LEMMA InsertedRow ==
  ASSUME TypeOK, NEW c \in Clients, InsertsBy(c)
  PROVE  \E r \in Runs \ DOMAIN table :
           /\ DOMAIN table' = DOMAIN table \cup {r}
           /\ \A q \in DOMAIN table : table'[q] = table[q]
           /\ table'[r].status \in Active
           /\ Blank(table'[r])
           /\ task' = [task EXCEPT ![c] = MessageOf(c, r)]
           /\ queue' = queue
<1>1. PICK r \in Fresh, s \in Sources, st \in {"queued", "running"} :
        /\ table' = Insert(table, r, NewRow(s, st))
        /\ task' = [task EXCEPT ![c] = MessageOf(c, r)]
        /\ queue' = queue
  BY DEF InsertsBy
<1>2. table'[r] = NewRow(s, st)
  BY <1>1 DEF Insert
<1>3. table'[r].status \in Active /\ Blank(table'[r])
  BY <1>2 DEF NewRow, Active, Blank
<1>4. r \in Runs /\ r \notin DOMAIN table
  BY DEF Fresh
<1>5. DOMAIN table' = DOMAIN table \cup {r} /\ \A q \in DOMAIN table : table'[q] = table[q]
  BY <1>1, <1>4 DEF Insert
<1>. QED
  BY <1>1, <1>3, <1>4, <1>5

-----------------------------------------------------------------------------
(***************************************************************************)
(* The rows and their history.                                             *)
(***************************************************************************)

\* No step forgets that policies were committed.
LEMMA ImportedGrows ==
  ASSUME [Next]_vars
  PROVE  imported \subseteq imported'
  BY DEF Next, vars, historyVars, Request, AdminRead, SchedulerRead, InsertUnseen, ClientStep,
      AdminReplace, InsertRun, Publish, CloseRead, CloseWrite, Execution, ImportPolicies,
      FinishRead, FinishWrite, FailRead, FailWrite, WorkerStep, ClaimRead, ClaimWrite,
      Collect, Unlock, Retry, ExhaustRead, ExhaustWrite, Ack, Deliver, GrowStale, Failure,
      WorkerLost, HardTimeLimit, Die, Raise, LockLost, ClientLost

\* What is known of one row, whichever kind of step it meets.
RowOK(r) ==
  /\ table[r].status \in Active => Blank(table[r])
  /\ table[r].status \in Terminal => table[r].status \in closings[r]
  /\ table[r].status \notin Terminal => closings[r] = {}
  /\ table[r].status \in {"succeeded", "partial_failure"} => r \in imported
RowsOK == /\ \A r \in DOMAIN table : RowOK(r)
          /\ \A r \in Runs \ DOMAIN table : closings[r] = {}

\* A row that does not move stays right.
LEMMA RowKept ==
  ASSUME [Next]_vars, NEW r, RowOK(r), table'[r] = table[r], closings'[r] = closings[r]
  PROVE  RowOK(r)'
  BY ImportedGrows DEF RowOK, Blank

\* Every step keeps the rows right.
LEMMA RowsStep ==
  ASSUME TypeOK, RowsOK, ResultsMatch, SessionsBlank, [Next]_vars
  PROVE  RowsOK'
<1>. DOMAIN table \subseteq Runs /\ closings \in [Runs -> SUBSET Terminal]
  BY DEF TypeOK, TableOK, HistoryOK
<1>1. CASE Keeps
  BY <1>1, RowKept DEF Keeps, RowsOK
<1>2. ASSUME NEW c \in Clients, InsertsBy(c) PROVE RowsOK'
  <2>1. PICK r \in Runs \ DOMAIN table :
           /\ DOMAIN table' = DOMAIN table \cup {r}
           /\ \A q \in DOMAIN table : table'[q] = table[q]
           /\ table'[r].status \in Active
           /\ Blank(table'[r])
    BY <1>2, InsertedRow
  <2>2. closings' = closings
    BY <1>2 DEF InsertsBy
  <2>3. RowOK(r)'
    <3>1. closings'[r] = {}
      BY <2>1, <2>2 DEF RowsOK
    <3>2. table'[r].status \notin Terminal /\ table'[r].status \notin {"succeeded", "partial_failure"}
      BY <2>1 DEF Active, Terminal
    <3>. QED BY <2>1, <3>1, <3>2 DEF RowOK
  <2>4. \A q \in DOMAIN table : RowOK(q)'
    BY <2>1, <2>2, RowKept DEF RowsOK
  <2>. QED BY <2>1, <2>2, <2>3, <2>4 DEF RowsOK
<1>3. ASSUME NEW w \in Workers, Claims(w) PROVE RowsOK'
  <2>0. PICK r : r = task[w].run
    OBVIOUS
  <2>1. /\ r \in DOMAIN table
        /\ DOMAIN table' = DOMAIN table
        /\ \A q \in DOMAIN table : q # r => table'[q] = table[q]
        /\ table'[r].failed_count = table[r].failed_count
        /\ table'[r].is_complete_snapshot = table[r].is_complete_snapshot
        /\ \/ table'[r].status = table[r].status
           \/ table[r].status \in Active /\ table'[r].status = "running"
    BY <1>3, <2>0, ClaimedTable
  <2>2. closings' = closings
    BY <1>3 DEF Claims
  <2>3. RowOK(r)'
    <3>0. RowOK(r)
      BY <2>1 DEF RowsOK
    <3>1. CASE table'[r].status = table[r].status
      BY <2>1, <2>2, <3>0, <3>1, ImportedGrows DEF RowOK, Blank
    <3>2. CASE table[r].status \in Active /\ table'[r].status = "running"
      BY <2>1, <2>2, <3>0, <3>2 DEF RowOK, Blank, Active, Terminal
    <3>. QED BY <2>1, <3>1, <3>2
  <2>4. \A q \in DOMAIN table : q # r => RowOK(q)'
    BY <2>1, <2>2, RowKept DEF RowsOK
  <2>. QED BY <2>1, <2>2, <2>3, <2>4 DEF RowsOK
<1>4. ASSUME NEW p \in Procs, NEW new, Closes(p, new) PROVE RowsOK'
  <2>0. PICK r : r = task[p].run
    OBVIOUS
  <2>1. /\ r \in DOMAIN table
        /\ DOMAIN table' = DOMAIN table
        /\ \A q \in DOMAIN table : q # r => table'[q] = table[q]
        /\ closings' = [closings EXCEPT ![r] = @ \cup {new.status}]
        /\ table'[r].status = new.status
        /\ new.status \in Terminal
        /\ new.status # "failed" => r \in imported
    BY <1>4, <2>0, ClosedRow
  <2>2. RowOK(r)'
    <3>1. table'[r].status \in closings'[r]
      BY <2>1
    <3>2. table'[r].status \notin Active
      BY <2>1 DEF Active, Terminal
    <3>3. table'[r].status \in {"succeeded", "partial_failure"} => r \in imported'
      BY <2>1, ImportedGrows
    <3>. QED BY <2>1, <3>1, <3>2, <3>3 DEF RowOK
  <2>3. \A q \in DOMAIN table : q # r => RowOK(q)'
    BY <2>1, RowKept DEF RowsOK
  <2>. QED BY <2>1, <2>2, <2>3 DEF RowsOK
<1>. QED
  BY <1>1, <1>2, <1>3, <1>4, Kinds

-----------------------------------------------------------------------------
(***************************************************************************)
(* Sessions and results.                                                   *)
(***************************************************************************)

\* Process p is not about to write, or has what it had, or has just loaded an
\* open row.
LoadsAt(p) ==
  pc'[p] \in WritePcs =>
    \/ pc[p] \in WritePcs /\ loaded'[p] = loaded[p]
    \/ \E r \in DOMAIN table : table[r].status \in Active /\ loaded'[p] = table[r]

\* A session that is about to write loaded a row that was open.
LEMMA Loads ==
  ASSUME TypeOK, [Next]_vars, NEW q \in Procs
  PROVE  LoadsAt(q)
<1>. USE DEF TypeOK, ProcOK, SessionOK
<1>1. CASE Request
  BY <1>1 DEF Request, AdminRead, SchedulerRead, InsertUnseen, LoadsAt, WritePcs, ActiveRuns,
              Procs, Clients
<1>2. ASSUME NEW c \in Clients, ClientStep(c) PROVE LoadsAt(q)
  <2>. c \in Procs
    BY DEF Procs
  <2>1. task[c] # None => task[c].run \in DOMAIN table
    BY DEF TaskOK
  <2>2. CASE CloseRead(c)
    <3>1. task[c].run \in DOMAIN table
      BY <2>1, <2>2 DEF TaskOK, CloseRead
    <3>2. Closable(c) \subseteq Active
      BY DEF Closable, Active
    <3>. QED BY <2>2, <3>1, <3>2 DEF CloseRead, LoadsAt, WritePcs, Load
  <2>3. CASE ~CloseRead(c)
    BY <1>2, <2>3 DEF ClientStep, AdminReplace, InsertRun, Publish, CloseWrite, LoadsAt,
                      WritePcs, CommitClosing, Forget, Goto
  <2>. QED BY <2>2, <2>3
<1>3. ASSUME NEW p \in Procs, Execution(p) PROVE LoadsAt(q)
  <2>1. task[p].run \in DOMAIN table
    BY <1>3 DEF TaskOK, Execution, ImportPolicies, FinishRead, FinishWrite, FailRead,
                FailWrite, Goto, Procs
  <2>. QED
    BY <1>3, <2>1 DEF Execution, ImportPolicies, FinishRead, FinishWrite, FailRead,
                FailWrite, Goto, Load, CommitClosing, Forget, LoadsAt, WritePcs, Leave
<1>4. ASSUME NEW w \in Workers, WorkerStep(w) PROVE LoadsAt(q)
  <2>. w \in Procs
    BY DEF Procs
  <2>1. pc[w] # "idle" => task[w].run \in DOMAIN table
    BY DEF TaskOK
  <2>2. CASE ClaimRead(w)
    BY <2>1, <2>2 DEF ClaimRead, Load, LoadsAt, WritePcs, Active
  <2>3. CASE ExhaustRead(w)
    BY <2>1, <2>3 DEF ExhaustRead, Load, LoadsAt, WritePcs
  <2>4. CASE ~ClaimRead(w) /\ ~ExhaustRead(w)
    BY <1>4, <2>4 DEF WorkerStep, ClaimWrite, Collect, Unlock, Retry, ExhaustWrite, Ack, Goto,
                      CommitClosing, Forget, LoadsAt, WritePcs
  <2>. QED BY <2>2, <2>3, <2>4
<1>5. ASSUME NEW w \in Workers, NEW m \in Messages, Deliver(w, m) PROVE LoadsAt(q)
  BY <1>5 DEF Deliver, LoadsAt, WritePcs
<1>6. ASSUME NEW r \in Runs, GrowStale(r) PROVE LoadsAt(q)
  BY <1>6 DEF GrowStale, procVars, LoadsAt
<1>7. CASE Failure
  <2>1. ASSUME NEW w \in Workers, Raise(w) PROVE LoadsAt(q)
    <3>1. Handler(pc[w]) \notin WritePcs
      BY <2>1 DEF Raise, Handler, WorkerPcs, WritePcs
    <3>. QED BY <2>1, <3>1 DEF Raise, LoadsAt
  <2>2. ASSUME NEW w \in Workers, LockLost(w) PROVE LoadsAt(q)
    BY <2>2 DEF LockLost, procVars, LoadsAt
  <2>3. ASSUME NEW w \in Workers, Die(w) PROVE LoadsAt(q)
    BY <2>3 DEF Die, LoadsAt, WritePcs
  <2>4. ASSUME NEW c \in Clients, ClientLost(c) PROVE LoadsAt(q)
    BY <2>4 DEF ClientLost, LoadsAt, WritePcs
  <2>. QED BY <1>7, <2>1, <2>2, <2>3, <2>4 DEF Failure, WorkerLost, HardTimeLimit
<1>8. CASE UNCHANGED vars
  BY <1>8 DEF vars, LoadsAt
<1>. QED
  BY <1>1, <1>2, <1>3, <1>4, <1>5, <1>6, <1>7, <1>8 DEF Next

\* Sessions about to write loaded a blank row.
LEMMA SessionsStep ==
  ASSUME TypeOK, OpenRowsBlank, SessionsBlank, [Next]_vars
  PROVE  SessionsBlank'
  BY Loads DEF LoadsAt, SessionsBlank, OpenRowsBlank, Blank

\* Process p is not about to finish, or has the result it had, or has just
\* imported.
FinishesAt(p) ==
  pc'[p] \in FinishPcs =>
    \/ /\ pc[p] \in FinishPcs
       /\ task'[p] = task[p]
       /\ result'[p] = result[p]
    \/ ImportPolicies(p)

\* Only the importer hands out results.
LEMMA Finishes ==
  ASSUME TypeOK, [Next]_vars, NEW q \in Procs
  PROVE  FinishesAt(q)
<1>. USE DEF TypeOK, ProcOK, TaskOK, FinishPcs
<1>1. CASE Request
  BY <1>1 DEF Request, AdminRead, SchedulerRead, InsertUnseen, FinishesAt, Procs, Clients
<1>2. ASSUME NEW c \in Clients, ClientStep(c) PROVE FinishesAt(q)
  BY <1>2 DEF ClientStep, AdminReplace, InsertRun, Publish, CloseRead, CloseWrite, Goto,
              FinishesAt, Procs
<1>3. ASSUME NEW p \in Procs, Execution(p) PROVE FinishesAt(q)
  BY <1>3 DEF Execution, ImportPolicies, FinishRead, FinishWrite, FailRead, FailWrite, Goto,
              Leave, FinishesAt
<1>4. ASSUME NEW w \in Workers, WorkerStep(w) PROVE FinishesAt(q)
  BY <1>4 DEF WorkerStep, ClaimRead, ClaimWrite, Collect, Unlock, Retry, ExhaustRead,
              ExhaustWrite, Ack, Goto, FinishesAt, Procs
<1>5. ASSUME NEW w \in Workers, NEW m \in Messages, Deliver(w, m) PROVE FinishesAt(q)
  BY <1>5 DEF Deliver, FinishesAt, Procs
<1>6. ASSUME NEW r \in Runs, GrowStale(r) PROVE FinishesAt(q)
  BY <1>6 DEF GrowStale, procVars, FinishesAt
<1>7. CASE Failure
  <2>1. ASSUME NEW w \in Workers, Raise(w) PROVE FinishesAt(q)
    <3>1. Handler(pc[w]) \notin FinishPcs
      BY <2>1 DEF Raise, Handler, WorkerPcs
    <3>. QED BY <2>1, <3>1 DEF Raise, FinishesAt
  <2>2. ASSUME NEW w \in Workers, LockLost(w) PROVE FinishesAt(q)
    BY <2>2 DEF LockLost, procVars, FinishesAt
  <2>3. ASSUME NEW w \in Workers, Die(w) PROVE FinishesAt(q)
    BY <2>3 DEF Die, FinishesAt
  <2>4. ASSUME NEW c \in Clients, ClientLost(c) PROVE FinishesAt(q)
    BY <2>4 DEF ClientLost, FinishesAt
  <2>. QED BY <1>7, <2>1, <2>2, <2>3, <2>4 DEF Failure, WorkerLost, HardTimeLimit
<1>8. CASE UNCHANGED vars
  BY <1>8 DEF vars, FinishesAt
<1>. QED
  BY <1>1, <1>2, <1>3, <1>4, <1>5, <1>6, <1>7, <1>8 DEF Next

\* A result on its way to the row stays the one of its import.
LEMMA ResultsStep ==
  ASSUME TypeOK, ResultsMatch, [Next]_vars
  PROVE  ResultsMatch'
<1>1. ASSUME NEW p \in Procs, pc'[p] \in FinishPcs PROVE ResultOf(p)'
  <2>1. CASE pc[p] \in FinishPcs /\ task'[p] = task[p] /\ result'[p] = result[p]
    BY <2>1, ImportedGrows DEF ResultsMatch, ResultOf
  <2>2. CASE ImportPolicies(p)
    <3>1. PICK res \in Results :
            /\ res.status # "failed" => res.failed = 0
            /\ res.complete = task[p].complete
            /\ res.complete => res.status = "succeeded"
            /\ imported' = IF BatchCommitted(res.status) THEN imported \cup {task[p].run}
                                                         ELSE imported
            /\ result' = [result EXCEPT ![p] = res]
      BY <1>1, <2>2 DEF ImportPolicies, TypeOK, ProcOK, FinishPcs
    <3>2. result'[p] = res /\ task' = task
      BY <2>2, <3>1 DEF TypeOK, ProcOK, ImportPolicies
    <3>. QED BY <3>1, <3>2 DEF ResultOf, BatchCommitted
  <2>. QED BY <1>1, <2>1, <2>2, Finishes DEF FinishesAt
<1>. QED BY <1>1 DEF ResultsMatch

-----------------------------------------------------------------------------
(***************************************************************************)
(* Who was asked for a complete snapshot.                                  *)
(***************************************************************************)

\* What p has in hand it had, or took from the broker, or has just inserted.
TakesAt(p) ==
  task'[p] # None /\ pc'[p] # "replace" =>
    \/ pc[p] # "replace" /\ task'[p] = task[p]
    \/ task'[p] \in Messages /\ queue[task'[p]] > 0
    \/ \E r \in Fresh : task'[p] = MessageOf(p, r) /\ InsertsBy(p)

\* A task comes from a message or from the insert of its run.
LEMMA Takes ==
  ASSUME TypeOK, [Next]_vars, NEW q \in Procs
  PROVE  TakesAt(q)
<1>. USE DEF TypeOK, ProcOK, TaskOK
<1>1. CASE Request
  <2>1. ASSUME NEW c \in Admins, NEW s \in Sources, AdminRead(c, s) PROVE TakesAt(q)
    BY <2>1 DEF AdminRead, TakesAt, Procs, Clients
  <2>2. ASSUME NEW c \in Schedulers, SchedulerRead(c) PROVE TakesAt(q)
    BY <2>2 DEF SchedulerRead, TakesAt, Procs, Clients
  <2>3. ASSUME NEW c \in Releasers \cup Importers, NEW s \in Sources, InsertUnseen(c, s)
        PROVE  TakesAt(q)
    BY <2>3 DEF InsertUnseen, TakesAt, Procs, Clients
  <2>. QED BY <1>1, <2>1, <2>2, <2>3 DEF Request
<1>2. ASSUME NEW c \in Clients, ClientStep(c) PROVE TakesAt(q)
  <2>. c \in Procs
    BY DEF Procs
  <2>1. CASE InsertRun(c)
    <3>1. PICK r \in Fresh :
            LET status == IF c \in Importers THEN "running" ELSE "queued"
                new    == Insert(table, r, NewRow(target[c], status))
            IN IF Accepts(new)
               THEN /\ table' = new
                    /\ task' = [task EXCEPT ![c] = MessageOf(c, r)]
                    /\ pc' = [pc EXCEPT ![c] =
                                IF c \in Importers THEN "import" ELSE "publish"]
               ELSE /\ pc' = [pc EXCEPT ![c] = "idle"]
                    /\ UNCHANGED <<table, task>>
      BY <2>1 DEF InsertRun
    <3>2. target[c] \in Sources /\ queue' = queue /\ closings' = closings /\ pc[c] = "insert"
      BY <2>1 DEF InsertRun, historyVars
    <3>3. CASE task' = task
      BY <3>1, <3>2, <3>3, NoneAssumption DEF TakesAt
    <3>4. CASE task' # task
      <4>1. /\ InsertsBy(c)
            /\ task' = [task EXCEPT ![c] = MessageOf(c, r)]
            /\ pc' = [pc EXCEPT ![c] = IF c \in Importers THEN "import" ELSE "publish"]
        BY <3>1, <3>2, <3>4 DEF InsertsBy
      <4>2. CASE q = c
        BY <4>1, <4>2 DEF TakesAt
      <4>3. CASE q # c
        BY <4>1, <4>3 DEF TakesAt
      <4>. QED BY <4>2, <4>3
    <3>. QED BY <3>3, <3>4
  <2>2. CASE ~InsertRun(c)
    BY <1>2, <2>2 DEF ClientStep, AdminReplace, Publish, CloseRead, CloseWrite, Goto, TakesAt
  <2>. QED BY <2>1, <2>2
<1>3. ASSUME NEW p \in Procs, Execution(p) PROVE TakesAt(q)
  BY <1>3 DEF Execution, ImportPolicies, FinishRead, FinishWrite, FailRead, FailWrite, Goto,
              Leave, TakesAt
<1>4. ASSUME NEW w \in Workers, WorkerStep(w) PROVE TakesAt(q)
  BY <1>4 DEF WorkerStep, ClaimRead, ClaimWrite, Collect, Unlock, Retry, ExhaustRead,
              ExhaustWrite, Ack, Goto, TakesAt, Procs
<1>5. ASSUME NEW w \in Workers, NEW m \in Messages, Deliver(w, m) PROVE TakesAt(q)
  BY <1>5 DEF Deliver, TakesAt, Procs
<1>6. ASSUME NEW r \in Runs, GrowStale(r) PROVE TakesAt(q)
  BY <1>6 DEF GrowStale, procVars, TakesAt
<1>7. CASE Failure
  <2>1. ASSUME NEW w \in Workers, Raise(w) PROVE TakesAt(q)
    <3>1. pc[w] # "replace"
      BY <2>1 DEF Raise, WorkerPcs
    <3>. QED BY <2>1, <3>1 DEF Raise, TakesAt
  <2>2. ASSUME NEW w \in Workers, LockLost(w) PROVE TakesAt(q)
    BY <2>2 DEF LockLost, procVars, TakesAt
  <2>3. ASSUME NEW w \in Workers, Die(w) PROVE TakesAt(q)
    BY <2>3 DEF Die, TakesAt
  <2>4. ASSUME NEW c \in Clients, ClientLost(c) PROVE TakesAt(q)
    BY <2>4 DEF ClientLost, TakesAt
  <2>. QED BY <1>7, <2>1, <2>2, <2>3, <2>4 DEF Failure, WorkerLost, HardTimeLimit
<1>8. CASE UNCHANGED vars
  BY <1>8 DEF vars, TakesAt
<1>. QED
  BY <1>1, <1>2, <1>3, <1>4, <1>5, <1>6, <1>7, <1>8 DEF Next

\* Workers replace no run.
WorkersReplaceNone == \A w \in Workers : pc[w] # "replace"

\* Only the trigger service replaces a run.
LEMMA PlacesStep ==
  ASSUME TypeOK, WorkersReplaceNone, [Next]_vars
  PROVE  WorkersReplaceNone'
<1>. SUFFICES ASSUME NEW v \in Workers PROVE pc'[v] # "replace"
  BY DEF WorkersReplaceNone
<1>0. pc[v] # "replace" /\ v \in Procs
  BY DEF WorkersReplaceNone, Procs
<1>. USE DEF TypeOK, ProcOK
<1>1. CASE Request
  BY <1>0, <1>1, RolesAssumption DEF Request, AdminRead, SchedulerRead, InsertUnseen, Clients
<1>2. ASSUME NEW c \in Clients, ClientStep(c) PROVE pc'[v] # "replace"
  BY <1>0, <1>2, RolesAssumption
  DEF ClientStep, AdminReplace, InsertRun, Publish, CloseRead, CloseWrite, Goto
<1>3. ASSUME NEW p \in Procs, Execution(p) PROVE pc'[v] # "replace"
  BY <1>0, <1>3 DEF Execution, ImportPolicies, FinishRead, FinishWrite, FailRead, FailWrite,
                    Goto, Leave
<1>4. ASSUME NEW w \in Workers, WorkerStep(w) PROVE pc'[v] # "replace"
  BY <1>0, <1>4 DEF WorkerStep, ClaimRead, ClaimWrite, Collect, Unlock, Retry, ExhaustRead,
                    ExhaustWrite, Ack, Goto
<1>5. ASSUME NEW w \in Workers, NEW m \in Messages, Deliver(w, m) PROVE pc'[v] # "replace"
  BY <1>0, <1>5 DEF Deliver
<1>6. ASSUME NEW r \in Runs, GrowStale(r) PROVE pc'[v] # "replace"
  BY <1>0, <1>6 DEF GrowStale, procVars
<1>7. CASE Failure
  <2>1. ASSUME NEW w \in Workers, Raise(w) PROVE pc'[v] # "replace"
    <3>1. Handler(pc[w]) # "replace"
      BY <2>1 DEF Raise, Handler, WorkerPcs
    <3>. QED BY <1>0, <2>1, <3>1 DEF Raise
  <2>2. ASSUME NEW w \in Workers, LockLost(w) PROVE pc'[v] # "replace"
    BY <1>0, <2>2 DEF LockLost, procVars
  <2>. QED BY <1>0, <1>7, <2>1, <2>2 DEF Failure, WorkerLost, HardTimeLimit, Die, ClientLost
<1>8. CASE UNCHANGED vars
  BY <1>0, <1>8 DEF vars
<1>. QED
  BY <1>1, <1>2, <1>3, <1>4, <1>5, <1>6, <1>7, <1>8 DEF Next

\* A message in the broker was there, or says what the process that sent it
\* has in hand.
LEMMA Puts ==
  ASSUME TypeOK, WorkersReplaceNone, [Next]_vars, NEW m \in Messages, queue'[m] > 0
  PROVE  \/ queue[m] > 0
         \/ \E p \in Procs : AsksAt(p, m.run, m.complete)
<1>. DEFINE Goal == \/ queue[m] > 0
                    \/ \E p \in Procs : AsksAt(p, m.run, m.complete)
<1>0. queue \in [Messages -> Nat] /\ task \in [Procs -> Messages \cup {None}]
  BY DEF TypeOK, BrokerOK, TaskOK
<1>1. CASE queue' = queue
  BY <1>1
<1>2. ASSUME NEW p \in Procs, task[p] # None, pc[p] # "replace", NEW k \in {1, 2},
             queue' = [queue EXCEPT ![task[p]] = @ + k]
      PROVE  Goal
  <2>1. m = task[p] \/ queue'[m] = queue[m]
    BY <1>0, <1>2
  <2>. QED BY <1>2, <2>1 DEF AsksAt
<1>3. ASSUME NEW c \in Clients, Publish(c) PROVE Goal
  <2>1. c \in Procs /\ task[c] # None /\ pc[c] # "replace"
    BY <1>3 DEF Publish, TypeOK, TaskOK, Procs
  <2>2. \/ \E k \in {1, 2} : queue' = [queue EXCEPT ![task[c]] = @ + k]
        \/ queue' = queue
    BY <1>3 DEF Publish, Put
  <2>. QED BY <1>1, <1>2, <2>1, <2>2
<1>4. ASSUME NEW w \in Workers, Retry(w) PROVE Goal
  <2>1. w \in Procs /\ task[w] \in Messages /\ task[w] # None /\ pc[w] = "retry"
    BY <1>0, <1>4 DEF Retry, Goto, TypeOK, TaskOK, Procs
  <2>. DEFINE n == [task[w] EXCEPT !.retries = @ + 1]
  <2>2. n.run = task[w].run /\ n.complete = task[w].complete
    BY <2>1 DEF Messages
  <2>3. queue' = [queue EXCEPT ![n] = @ + 1]
    BY <1>4 DEF Retry, Put
  <2>. HIDE DEF n
  <2>4. m = n \/ queue'[m] = queue[m]
    BY <1>0, <2>3
  <2>. QED BY <2>1, <2>2, <2>4 DEF AsksAt
<1>5. ASSUME NEW w \in Workers, WorkerLost(w) PROVE Goal
  <2>1. w \in Procs /\ task[w] # None /\ pc[w] # "replace"
    BY <1>5 DEF WorkerLost, Die, TypeOK, TaskOK, Procs, WorkersReplaceNone
  <2>2. queue' = [queue EXCEPT ![task[w]] = @ + 1]
    BY <1>5 DEF WorkerLost, Put
  <2>. QED BY <1>2, <2>1, <2>2
<1>6. ASSUME NEW w \in Workers, NEW n \in Messages, Deliver(w, n) PROVE Goal
  <2>1. queue' = [queue EXCEPT ![n] = @ - 1]
    BY <1>6 DEF Deliver
  <2>2. queue'[m] = queue[m] \/ queue'[m] = queue[m] - 1
    BY <1>0, <2>1
  <2>. QED BY <1>0, <2>2
<1>. QED
  BY <1>1, <1>3, <1>4, <1>5, <1>6
  DEF Next, vars, Request, AdminRead, SchedulerRead, InsertUnseen, ClientStep, AdminReplace,
      InsertRun, CloseRead, CloseWrite, Execution, ImportPolicies, FinishRead, FinishWrite,
      FailRead, FailWrite, WorkerStep, ClaimRead, ClaimWrite, Collect, Unlock, ExhaustRead,
      ExhaustWrite, Ack, GrowStale, Failure, HardTimeLimit, Raise, LockLost, ClientLost

\* Whoever has a run in hand took over what somebody else had been asked.
LEMMA AsksKept ==
  ASSUME TypeOK, WorkersReplaceNone, [Next]_vars, NEW r \in DOMAIN table,
         NEW b \in BOOLEAN, Asks(r, b)'
  PROVE  Asks(r, b)
<1>1. ASSUME NEW m \in Messages, queue'[m] > 0, m.run = r, m.complete = b
      PROVE  Asks(r, b)
  BY <1>1, Puts DEF Asks
<1>2. ASSUME NEW p \in Procs, AsksAt(p, r, b)' PROVE Asks(r, b)
  <2>1. task'[p] # None /\ pc'[p] # "replace" /\ task'[p].run = r /\ task'[p].complete = b
    BY <1>2 DEF AsksAt
  <2>2. CASE pc[p] # "replace" /\ task'[p] = task[p]
    BY <2>1, <2>2 DEF Asks, AsksAt
  <2>3. CASE task'[p] \in Messages /\ queue[task'[p]] > 0
    BY <2>1, <2>3 DEF Asks
  <2>4. CASE \E q \in Fresh : task'[p] = MessageOf(p, q)
    BY <2>1, <2>4 DEF MessageOf, Fresh
  <2>. QED BY <2>1, <2>2, <2>3, <2>4, Takes DEF TakesAt
<1>. QED BY <1>1, <1>2 DEF Asks

\* A new run has been asked for by the client that inserted it and nobody else.
LEMMA AsksNew ==
  ASSUME TypeOK, NEW c \in Clients, NEW r \in Runs \ DOMAIN table, queue' = queue,
         task' = [task EXCEPT ![c] = MessageOf(c, r)], NEW b \in BOOLEAN, Asks(r, b)'
  PROVE  b = MessageOf(c, r).complete
<1>1. ASSUME NEW m \in Messages, queue'[m] > 0, m.run = r PROVE FALSE
  BY <1>1 DEF TypeOK, BrokerOK
<1>2. PICK p \in Procs : AsksAt(p, r, b)'
  BY <1>1 DEF Asks
<1>3. task'[p] # None /\ task'[p].run = r /\ task'[p].complete = b
  BY <1>2 DEF AsksAt
<1>4. CASE p # c
  BY <1>3, <1>4 DEF TypeOK, TaskOK
<1>5. CASE p = c
  BY <1>3, <1>5 DEF TypeOK, TaskOK
<1>. QED BY <1>4, <1>5

\* An answer for a row whose commit history does not move stays an answer.
LEMMA AnswerKept ==
  ASSUME TypeOK, WorkersReplaceNone, [Next]_vars, NEW r \in DOMAIN table, NEW b \in BOOLEAN,
         Answer(r, b), closings'[r] = closings[r],
         table'[r].failed_count = table[r].failed_count,
         table'[r].is_complete_snapshot = table[r].is_complete_snapshot
  PROVE  Answer(r, b)'
<1>1. \A c \in BOOLEAN : Asks(r, c)' => c = b
  BY AsksKept DEF Answer
<1>. QED BY <1>1 DEF Answer

\* All who work on a run go on agreeing, and closers count their failures.
LEMMA AnswerStep ==
  ASSUME TypeOK, WorkersReplaceNone, ResultsMatch, SessionsBlank, RowsOK, OneAnswer, [Next]_vars
  PROVE  OneAnswer'
<1>. DOMAIN table \subseteq Runs /\ closings \in [Runs -> SUBSET Terminal]
  BY DEF TypeOK, TableOK, HistoryOK
<1>1. CASE Keeps
  BY <1>1, AnswerKept DEF Keeps, OneAnswer
<1>2. ASSUME NEW c \in Clients, InsertsBy(c) PROVE OneAnswer'
  <2>1. PICK r \in Runs \ DOMAIN table :
           /\ DOMAIN table' = DOMAIN table \cup {r}
           /\ \A q \in DOMAIN table : table'[q] = table[q]
           /\ Blank(table'[r])
           /\ task' = [task EXCEPT ![c] = MessageOf(c, r)]
           /\ queue' = queue
    BY <1>2, InsertedRow
  <2>2. closings' = closings
    BY <1>2 DEF InsertsBy
  <2>3. PICK b \in BOOLEAN : b = MessageOf(c, r).complete
    BY ScheduleAssumption DEF MessageOf
  <2>4. Answer(r, b)'
    <3>1. \A a \in BOOLEAN : Asks(r, a)' => a = b
      BY <2>1, <2>3, AsksNew
    <3>2. closings'[r] = {}
      BY <2>2 DEF RowsOK
    <3>. QED BY <2>1, <3>1, <3>2 DEF Answer, Blank
  <2>5. ASSUME NEW q \in DOMAIN table PROVE \E a \in BOOLEAN : Answer(q, a)'
    <3>1. PICK a \in BOOLEAN : Answer(q, a)
      BY DEF OneAnswer
    <3>. QED BY <2>1, <2>2, <3>1, AnswerKept
  <2>. QED BY <2>1, <2>4, <2>5 DEF OneAnswer
<1>3. ASSUME NEW w \in Workers, Claims(w) PROVE OneAnswer'
  <2>0. PICK r : r = task[w].run
    OBVIOUS
  <2>1. /\ r \in DOMAIN table
        /\ DOMAIN table' = DOMAIN table
        /\ \A q \in DOMAIN table : q # r => table'[q] = table[q]
        /\ table'[r].failed_count = table[r].failed_count
        /\ table'[r].is_complete_snapshot = table[r].is_complete_snapshot
    BY <1>3, <2>0, ClaimedTable
  <2>2. closings' = closings
    BY <1>3 DEF Claims
  <2>3. ASSUME NEW q \in DOMAIN table PROVE \E a \in BOOLEAN : Answer(q, a)'
    <3>1. PICK a \in BOOLEAN : Answer(q, a)
      BY DEF OneAnswer
    <3>2. table'[q].failed_count = table[q].failed_count
          /\ table'[q].is_complete_snapshot = table[q].is_complete_snapshot
      BY <2>1
    <3>. QED BY <2>2, <3>1, <3>2, AnswerKept
  <2>. QED BY <2>1, <2>3 DEF OneAnswer
<1>4. ASSUME NEW p \in Procs, NEW new, Closes(p, new) PROVE OneAnswer'
  <2>0. PICK r : r = task[p].run
    OBVIOUS
  <2>1. /\ r \in DOMAIN table
        /\ DOMAIN table' = DOMAIN table
        /\ \A q \in DOMAIN table : q # r => table'[q] = table[q]
        /\ closings' = [closings EXCEPT ![r] = @ \cup {new.status}]
        /\ new.status \in Terminal
        /\ new.status # "failed" => ResultOf(p) /\ pc[p] \in FinishPcs
        /\ new.status = "failed" => \/ table'[r].failed_count = 1
                                    \/ ResultOf(p) /\ pc[p] \in FinishPcs /\ ~task[p].complete
        /\ table[r].failed_count = 1 => table'[r].failed_count = 1
        /\ table'[r].is_complete_snapshot =>
             \/ table[r].is_complete_snapshot
             \/ pc[p] \in FinishPcs /\ task[p].complete
    BY <1>4, <2>0, ClosedRow
  <2>2. PICK b \in BOOLEAN : Answer(r, b)
    BY <2>1 DEF OneAnswer
  <2>3. pc[p] \in FinishPcs => task[p].complete = b
    <3>1. task[p] \in Messages
      BY <1>4 DEF Closes, TypeOK, TaskOK
    <3>2. task[p].complete \in BOOLEAN
      BY <3>1 DEF Messages
    <3>3. pc[p] \in FinishPcs => Asks(r, task[p].complete)
      BY <1>4, <2>0 DEF Closes, Asks, AsksAt, FinishPcs
    <3>. QED BY <2>2, <3>2, <3>3 DEF Answer
  <2>4. Answer(r, b)'
    <3>1. \A c \in BOOLEAN : Asks(r, c)' => c = b
      BY <2>1, <2>2, AsksKept DEF Answer
    <3>2. b /\ ~(closings'[r] \subseteq {"succeeded"}) => table'[r].failed_count = 1
      <4>. SUFFICES ASSUME b, ~(closings'[r] \subseteq {"succeeded"})
                    PROVE  table'[r].failed_count = 1
        OBVIOUS
      <4>1. closings'[r] = closings[r] \cup {new.status}
        BY <2>1
      <4>2. CASE ~(closings[r] \subseteq {"succeeded"})
        BY <2>1, <2>2, <4>2 DEF Answer
      <4>3. CASE new.status = "failed"
        BY <2>1, <2>3, <4>3
      <4>4. CASE new.status = "partial_failure"
        <5>1. ResultOf(p) /\ pc[p] \in FinishPcs /\ result[p].complete
          BY <2>1, <2>3, <4>4 DEF ResultOf
        <5>2. result[p].status = "succeeded"
          BY <5>1 DEF ResultOf
        <5>3. new.status = "failed" \/ new.status = result[p].status
          BY <1>4 DEF Closes, Assigned, ClosedByApi, Finished, SessionOK, TypeOK, Rows
        <5>. QED BY <4>4, <5>2, <5>3
      <4>. QED BY <2>1, <4>1, <4>2, <4>3, <4>4 DEF Terminal
    <3>3. ~b => ~table'[r].is_complete_snapshot
      BY <2>1, <2>2, <2>3 DEF Answer
    <3>. QED BY <3>1, <3>2, <3>3 DEF Answer
  <2>5. ASSUME NEW q \in DOMAIN table, q # r PROVE \E a \in BOOLEAN : Answer(q, a)'
    <3>1. PICK a \in BOOLEAN : Answer(q, a)
      BY DEF OneAnswer
    <3>. QED BY <2>1, <2>5, <3>1, AnswerKept
  <2>. QED BY <2>1, <2>4, <2>5 DEF OneAnswer
<1>. QED
  BY <1>1, <1>2, <1>3, <1>4, Kinds

-----------------------------------------------------------------------------
(***************************************************************************)
(* The theorems about outcomes.                                            *)
(***************************************************************************)

RunsInv == /\ RowsOK /\ ResultsMatch /\ SessionsBlank /\ WorkersReplaceNone /\ OneAnswer

\* RunsInv is inductive, on top of TypeOK.
LEMMA RunsInvStep == TypeOK /\ RunsInv /\ [Next]_vars => RunsInv'
<1>1. RowsOK => OpenRowsBlank
  BY DEF RowsOK, RowOK, OpenRowsBlank
<1>. QED
  BY <1>1, RowsStep, ResultsStep, SessionsStep, PlacesStep, AnswerStep DEF RunsInv

\* RunsInv holds in every reachable state.
LEMMA RunsInvHolds == Spec => []RunsInv
<1>1. Init => RunsInv
  BY DEF Init, RunsInv, RowsOK, ResultsMatch, SessionsBlank, WorkersReplaceNone, OneAnswer,
         FinishPcs, WritePcs, Procs
<1>. QED
  BY <1>1, RunsInvStep, TypeCorrect, PTL DEF Spec

\* A row that says the import went through is right about it, for any number
\* of closers that race for it.  (the finish of tasks.py against the trigger
\* API, the retries and the release script)
THEOREM OutcomesAreTrue == Spec => []SuccessWasImported
<1>1. RunsInv => SuccessWasImported
  BY DEF RunsInv, RowsOK, RowOK, SuccessWasImported
<1>. QED
  BY <1>1, RunsInvHolds, PTL

\* A row that passes the promotion gate was never closed as anything else.
\* (wait_for_promotable_run and assert_promotable_runs)
THEOREM EvidenceIsUndisputed == Spec => []PromotableIsUndisputed
<1>1. RunsInv => PromotableIsUndisputed
  <2>. SUFFICES ASSUME RunsInv, NEW r \in DOMAIN table, Promotable(table[r])
                PROVE  r \in imported /\ closings[r] = {"succeeded"}
    BY DEF PromotableIsUndisputed
  <2>1. /\ table[r].status = "succeeded" /\ table[r].is_complete_snapshot
        /\ table[r].failed_count = 0
    BY DEF Promotable
  <2>2. r \in imported /\ "succeeded" \in closings[r]
    BY <2>1 DEF RunsInv, RowsOK, RowOK, Terminal
  <2>3. PICK b \in BOOLEAN : Answer(r, b)
    BY DEF RunsInv, OneAnswer
  <2>4. closings[r] \subseteq {"succeeded"}
    BY <2>1, <2>3 DEF Answer
  <2>. QED BY <2>2, <2>4
<1>. QED
  BY <1>1, RunsInvHolds, PTL

-----------------------------------------------------------------------------
(***************************************************************************)
(* Who still has to act on an open run.                                    *)
(***************************************************************************)

\* The faults by which a run can be lost: the message is acknowledged or
\* never sent, and nobody is left to close the row.
LosesNoRun == Faults \cap {"hard_limit", "exception", "client_lost"} = {}

\* Where a process still is to close its run or to hand it on, and where a
\* client is to publish the run or to close it.
WorkPcs == {"claim_read", "claim_write", "collect", "import", "finish_read", "finish_write",
            "fail_read", "fail_write", "exhaust_read", "exhaust_write", "retry"}
AnnouncePcs == {"publish", "close_read", "close_write"}

Waits(r) == \E m \in Messages : m.run = r /\ queue[m] > 0
WorksAt(p, r, places) == task[p] # None /\ task[p].run = r /\ pc[p] \in places

\* A queued run waits in the broker, or has a worker or its client; a running
\* one has no use for the client.
InHand(r) ==
  \/ Waits(r)
  \/ \E p \in Procs : WorksAt(p, r, WorkPcs)
  \/ table[r].status = "queued" /\ \E c \in Clients : WorksAt(c, r, AnnouncePcs)
OpenRunsInHand == \A r \in DOMAIN table : table[r].status \in Active => InHand(r)

\* A retry is below the limit, so what it publishes is a message.
RetriesLeft == \A w \in Workers : pc[w] = "retry" => task[w].retries < MaxRetries

\* Whoever closes a run leaves it closed.
LEMMA ClosesEnd ==
  ASSUME TypeOK, RunsInv, NEW p \in Procs, NEW r, r = task[p].run,
         \/ AdminReplace(p) \/ CloseWrite(p) \/ FinishWrite(p) \/ FailWrite(p)
         \/ p \in Workers /\ ExhaustWrite(p)
  PROVE  table'[r].status \in Terminal
<1>1. PICK new : Closes(p, new)
  BY Closers
<1>. QED
  BY <1>1, ClosedRow DEF RunsInv

\* The table refuses the claim of a closed run only.
LEMMA RefusedClaim ==
  ASSUME TypeOK, NEW w \in Workers, ClaimWrite(w), table[task[w].run].status \in Active
  PROVE  pc' = [pc EXCEPT ![w] = "collect"]
<1>. DEFINE r == task[w].run
            ld == loaded[w]
            row == Flush(table[r], ld, Claimed(ld))
            new == [table EXCEPT ![r] = row]
<1>1. w \in Procs
  BY DEF Procs
<1>2. ld \in Rows /\ ld.status \in Active /\ ~ld.finished_at
  BY <1>1 DEF ClaimWrite, TypeOK, SessionOK, WritePcs
<1>3. r \in DOMAIN table /\ table[r] \in Rows
  BY <1>1 DEF ClaimWrite, TypeOK, TaskOK, TableOK
<1>4. new[r] = row /\ DOMAIN new = DOMAIN table /\ \A q \in DOMAIN table : q # r => new[q] = table[q]
  BY <1>3
<1>5. /\ row.source = table[r].source
      /\ row.finished_at = table[r].finished_at
      /\ row.status \in Active
  BY <1>2 DEF Flush, Claimed, Dirty, Active, Rows
<1>6. Accepts(table) /\ ~table[r].finished_at
  BY <1>3 DEF TypeOK, TableOK, Accepts, TerminalFinishedAt
<1>. HIDE DEF row, new, r
<1>7. \A q \in DOMAIN new : TerminalFinishedAt(new[q])
  <2>1. TerminalFinishedAt(new[r])
    BY <1>4, <1>5, <1>6 DEF TerminalFinishedAt
  <2>. QED BY <2>1, <1>4, <1>6 DEF Accepts
<1>8. \A q \in DOMAIN table : /\ new[q].source = table[q].source
                              /\ new[q].status \in Active => table[q].status \in Active
  BY <1>3, <1>4, <1>5 DEF r
<1>9. UniqueActiveSource(new)
  BY <1>4, <1>6, <1>8 DEF Accepts, UniqueActiveSource
<1>10. Accepts(new)
  BY <1>7, <1>9 DEF Accepts
<1>. QED
  BY <1>10 DEF ClaimWrite, Flushed, new, row, r

\* The run of p stays in hand: p goes on with it, or hands it to the broker,
\* or the run closes.
GoesOn(p, r, places) ==
  \/ table'[r].status \in Terminal
  \/ task'[p] = task[p] /\ pc'[p] \in places
  \/ \E m \in Messages : m.run = r /\ queue'[m] > 0

\* A message that is put is there.
LEMMA PutIsThere ==
  ASSUME TypeOK, NEW m \in Messages, NEW k \in {1, 2}, queue' = [queue EXCEPT ![m] = @ + k]
  PROVE  queue'[m] > 0
<1>1. queue'[m] = queue[m] + k /\ queue[m] \in Nat
  BY DEF TypeOK, BrokerOK
<1>. QED BY <1>1

\* Nobody who works on an open run lets go of it.
LEMMA WorkGoesOn ==
  ASSUME TypeOK, RunsInv, RetriesLeft, LosesNoRun, [Next]_vars,
         NEW p \in Procs, pc[p] \in WorkPcs, NEW r, task[p] # None, r = task[p].run
  PROVE  GoesOn(p, r, WorkPcs)
<1>. DEFINE Goal == GoesOn(p, r, WorkPcs)
<1>0. /\ pc \in [Procs -> WorkerPcs \cup ClientPcs]
      /\ task \in [Procs -> Messages \cup {None}]
      /\ task[p] \in Messages /\ r \in DOMAIN table
      /\ table[r].status \in Active \cup Terminal
      /\ pc[p] \notin {"idle", "insert"}
  BY DEF TypeOK, ProcOK, TaskOK, TableOK, Rows, WorkPcs
<1>1. ASSUME pc'[p] = pc[p], task'[p] = task[p] PROVE Goal
  BY <1>1 DEF GoesOn
<1>2. CASE Request
  BY <1>0, <1>1, <1>2 DEF Request, AdminRead, SchedulerRead, InsertUnseen
<1>3. ASSUME NEW c \in Clients, ClientStep(c) PROVE Goal
  <2>. c \in Procs
    BY DEF Procs
  <2>1. c # p
    BY <1>3 DEF ClientStep, AdminReplace, InsertRun, Publish, CloseRead, CloseWrite, Goto, WorkPcs
  <2>. QED
    BY <1>0, <1>1, <1>3, <2>1
    DEF ClientStep, AdminReplace, InsertRun, Publish, CloseRead, CloseWrite, Goto
<1>4. ASSUME NEW q \in Procs, Execution(q) PROVE Goal
  <2>1. CASE q # p
    BY <1>0, <1>1, <1>4, <2>1
    DEF Execution, ImportPolicies, FinishRead, FinishWrite, FailRead, FailWrite, Goto
  <2>2. CASE q = p
    <3>1. CASE FinishWrite(p) \/ FailWrite(p)
      BY <3>1, ClosesEnd DEF GoesOn
    <3>2. CASE ImportPolicies(p) \/ FinishRead(p)
      BY <1>0, <3>2 DEF ImportPolicies, FinishRead, GoesOn, WorkPcs
    <3>3. CASE FailRead(p)
      <4>1. CASE table[r].status \in Active
        BY <1>0, <3>3, <4>1 DEF FailRead, GoesOn, WorkPcs
      <4>2. CASE table[r].status \in Terminal
        BY <3>3, <4>2 DEF FailRead, dbVars, GoesOn
      <4>. QED BY <1>0, <4>1, <4>2
    <3>. QED BY <1>4, <2>2, <3>1, <3>2, <3>3 DEF Execution
  <2>. QED BY <2>1, <2>2
<1>5. ASSUME NEW w \in Workers, WorkerStep(w) PROVE Goal
  <2>. w \in Procs
    BY DEF Procs
  <2>1. CASE w # p
    BY <1>0, <1>1, <1>5, <2>1
    DEF WorkerStep, ClaimRead, ClaimWrite, Collect, Unlock, Retry, ExhaustRead, ExhaustWrite,
        Ack, Goto
  <2>2. CASE w = p
    <3>1. CASE ExhaustWrite(p)
      BY <2>2, <3>1, ClosesEnd DEF GoesOn
    <3>2. CASE ClaimWrite(p)
      <4>1. CASE table[r].status \in Active
        BY <1>0, <2>2, <3>2, <4>1, RefusedClaim DEF ClaimWrite, GoesOn, WorkPcs
      <4>2. CASE table[r].status \in Terminal
        <5>1. table'[r].status \in Terminal
          BY <1>0, <4>2, RowsKept DEF Forward, Active, Terminal
        <5>. QED BY <5>1 DEF GoesOn
      <4>. QED BY <1>0, <4>1, <4>2
    <3>3. CASE ClaimRead(p)
      <4>1. CASE table[r].status \in Terminal
        BY <3>3, <4>1 DEF ClaimRead, dbVars, GoesOn
      <4>2. CASE table[r].status \notin Terminal
        BY <1>0, <3>3, <4>2 DEF ClaimRead, GoesOn, WorkPcs
      <4>. QED BY <4>1, <4>2
    <3>4. CASE Collect(p)
      BY <1>0, <3>4 DEF Collect, GoesOn, WorkPcs
    <3>5. CASE ExhaustRead(p)
      <4>1. CASE table[r].status \in Active
        BY <1>0, <3>5, <4>1 DEF ExhaustRead, GoesOn, WorkPcs
      <4>2. CASE table[r].status \in Terminal
        BY <3>5, <4>2 DEF ExhaustRead, dbVars, GoesOn
      <4>. QED BY <1>0, <4>1, <4>2
    <3>6. CASE Retry(p)
      <4>. DEFINE n == [task[p] EXCEPT !.retries = @ + 1]
      <4>1. n \in Messages /\ n.run = r
        <5>1. task[p].retries < MaxRetries
          BY <2>2, <3>6 DEF RetriesLeft, Retry, Goto
        <5>. QED BY <1>0, <5>1, BoundsAssumption DEF Messages
      <4>2. queue' = [queue EXCEPT ![n] = @ + 1]
        BY <3>6 DEF Retry, Put
      <4>. HIDE DEF n
      <4>. QED BY <4>1, <4>2, PutIsThere DEF GoesOn
    <3>7. ~Unlock(p) /\ ~Ack(p)
      BY DEF Unlock, Ack, Goto, WorkPcs
    <3>. QED BY <1>5, <2>2, <3>1, <3>2, <3>3, <3>4, <3>5, <3>6, <3>7 DEF WorkerStep
  <2>. QED BY <2>1, <2>2
<1>6. ASSUME NEW w \in Workers, NEW m \in Messages, Deliver(w, m) PROVE Goal
  BY <1>0, <1>1, <1>6 DEF Deliver
<1>7. ASSUME NEW q \in Runs, GrowStale(q) PROVE Goal
  BY <1>1, <1>7 DEF GrowStale, procVars
<1>8. CASE Failure
  <2>1. ASSUME NEW w \in Workers, WorkerLost(w) PROVE Goal
    <3>1. CASE w = p
      BY <1>0, <2>1, <3>1, PutIsThere DEF WorkerLost, Put, GoesOn
    <3>2. CASE w # p
      BY <1>0, <1>1, <2>1, <3>2 DEF WorkerLost, Die, Procs
    <3>. QED BY <3>1, <3>2
  <2>2. ASSUME NEW w \in Workers, LockLost(w) PROVE Goal
    BY <1>1, <2>2 DEF LockLost, procVars
  <2>3. (\A w \in Workers : ~HardTimeLimit(w) /\ ~Raise(w)) /\ (\A c \in Clients : ~ClientLost(c))
    BY DEF LosesNoRun, HardTimeLimit, Raise, ClientLost, Fault
  <2>. QED BY <1>8, <2>1, <2>2, <2>3 DEF Failure
<1>9. CASE UNCHANGED vars
  BY <1>1, <1>9 DEF vars
<1>. QED
  BY <1>2, <1>3, <1>4, <1>5, <1>6, <1>7, <1>8, <1>9 DEF Next

\* A client publishes its queued run or closes it.
LEMMA AnnounceGoesOn ==
  ASSUME TypeOK, RunsInv, LosesNoRun, [Next]_vars,
         NEW p \in Clients, pc[p] \in AnnouncePcs, NEW r, task[p] # None, r = task[p].run,
         table[r].status = "queued"
  PROVE  GoesOn(p, r, AnnouncePcs)
<1>. DEFINE Goal == GoesOn(p, r, AnnouncePcs)
<1>0. /\ pc \in [Procs -> WorkerPcs \cup ClientPcs]
      /\ task \in [Procs -> Messages \cup {None}]
      /\ p \in Procs /\ p \notin Workers
      /\ task[p] \in Messages
      /\ pc[p] \notin {"idle", "insert"}
  BY RolesAssumption DEF TypeOK, ProcOK, TaskOK, AnnouncePcs, Procs
<1>1. ASSUME pc'[p] = pc[p], task'[p] = task[p] PROVE Goal
  BY <1>1 DEF GoesOn
<1>2. CASE Request
  BY <1>0, <1>1, <1>2 DEF Request, AdminRead, SchedulerRead, InsertUnseen
<1>3. ASSUME NEW c \in Clients, ClientStep(c) PROVE Goal
  <2>1. CASE c # p
    BY <1>0, <1>1, <1>3, <2>1
    DEF ClientStep, AdminReplace, InsertRun, Publish, CloseRead, CloseWrite, Goto, Procs
  <2>2. CASE c = p
    <3>1. CASE CloseWrite(p)
      BY <1>0, <3>1, ClosesEnd DEF GoesOn
    <3>2. CASE CloseRead(p)
      BY <1>0, <3>2 DEF CloseRead, Closable, Active, GoesOn, AnnouncePcs
    <3>3. CASE Publish(p)
      <4>1. CASE \E k \in {1, 2} : queue' = [queue EXCEPT ![task[p]] = @ + k]
        BY <1>0, <4>1, PutIsThere DEF GoesOn
      <4>2. CASE pc'[p] = "close_read" /\ task' = task
        BY <4>2 DEF GoesOn, AnnouncePcs
      <4>. QED BY <1>0, <3>3, <4>1, <4>2 DEF Publish, Put
    <3>4. ~AdminReplace(p) /\ ~InsertRun(p)
      BY DEF AdminReplace, InsertRun, Goto, AnnouncePcs
    <3>. QED BY <1>3, <2>2, <3>1, <3>2, <3>3, <3>4 DEF ClientStep
  <2>. QED BY <2>1, <2>2
<1>4. ASSUME NEW q \in Procs, Execution(q) PROVE Goal
  <2>1. q # p
    BY <1>4 DEF Execution, ImportPolicies, FinishRead, FinishWrite, FailRead, FailWrite, Goto,
                AnnouncePcs
  <2>. QED
    BY <1>0, <1>1, <1>4, <2>1
    DEF Execution, ImportPolicies, FinishRead, FinishWrite, FailRead, FailWrite, Goto
<1>5. ASSUME NEW w \in Workers, WorkerStep(w) PROVE Goal
  BY <1>0, <1>1, <1>5
  DEF WorkerStep, ClaimRead, ClaimWrite, Collect, Unlock, Retry, ExhaustRead, ExhaustWrite,
      Ack, Goto
<1>6. ASSUME NEW w \in Workers, NEW m \in Messages, Deliver(w, m) PROVE Goal
  BY <1>0, <1>1, <1>6 DEF Deliver
<1>7. ASSUME NEW q \in Runs, GrowStale(q) PROVE Goal
  BY <1>1, <1>7 DEF GrowStale, procVars
<1>8. CASE Failure
  <2>1. ASSUME NEW w \in Workers, WorkerLost(w) PROVE Goal
    BY <1>0, <1>1, <2>1 DEF WorkerLost, Die
  <2>2. ASSUME NEW w \in Workers, LockLost(w) PROVE Goal
    BY <1>1, <2>2 DEF LockLost, procVars
  <2>3. (\A w \in Workers : ~HardTimeLimit(w) /\ ~Raise(w)) /\ (\A c \in Clients : ~ClientLost(c))
    BY DEF LosesNoRun, HardTimeLimit, Raise, ClientLost, Fault
  <2>. QED BY <1>8, <2>1, <2>2, <2>3 DEF Failure
<1>9. CASE UNCHANGED vars
  BY <1>1, <1>9 DEF vars
<1>. QED
  BY <1>2, <1>3, <1>4, <1>5, <1>6, <1>7, <1>8, <1>9 DEF Next

\* A message leaves the broker only into the hands of a worker.
LEMMA WaitingGoesOn ==
  ASSUME TypeOK, [Next]_vars, NEW r, Waits(r)
  PROVE  Waits(r)' \/ \E p \in Procs : WorksAt(p, r, WorkPcs)'
<1>1. PICK m \in Messages : m.run = r /\ queue[m] > 0
  BY DEF Waits
<1>2. ASSUME queue'[m] > 0 PROVE Waits(r)'
  BY <1>1, <1>2 DEF Waits
<1>3. ASSUME NEW w \in Workers, NEW n \in Messages, Deliver(w, n)
      PROVE  Waits(r)' \/ \E p \in Procs : WorksAt(p, r, WorkPcs)'
  <2>1. CASE n = m
    <3>1. w \in Procs /\ task'[w] = m /\ pc'[w] \in WorkPcs
      BY <1>3, <2>1 DEF Deliver, TypeOK, TaskOK, ProcOK, Procs, WorkPcs
    <3>. QED BY <1>1, <3>1, NoneAssumption DEF WorksAt
  <2>2. CASE n # m
    BY <1>1, <1>2, <1>3, <2>2 DEF Deliver, TypeOK, BrokerOK
  <2>. QED BY <2>1, <2>2
<1>4. ASSUME NEW n, \E k \in {1, 2} : queue' = [queue EXCEPT ![n] = @ + k] PROVE Waits(r)'
  <2>1. \E k \in {1, 2} : queue'[m] = queue[m] \/ queue'[m] = queue[m] + k
    BY <1>4 DEF TypeOK, BrokerOK
  <2>. QED BY <1>1, <1>2, <2>1 DEF TypeOK, BrokerOK
<1>5. CASE queue' = queue
  BY <1>1, <1>2, <1>5
<1>6. ASSUME NEW c \in Clients, Publish(c) PROVE Waits(r)'
  <2>1. \/ \E k \in {1, 2} : queue' = [queue EXCEPT ![task[c]] = @ + k]
        \/ queue' = queue
    BY <1>6 DEF Publish, Put
  <2>2. CASE queue' = queue
    BY <1>1, <1>2, <2>2
  <2>3. CASE \E k \in {1, 2} : queue' = [queue EXCEPT ![task[c]] = @ + k]
    BY <1>4, <2>3
  <2>. QED BY <2>1, <2>2, <2>3
<1>7. ASSUME NEW w \in Workers, Retry(w) \/ WorkerLost(w) PROVE Waits(r)'
  BY <1>4, <1>7 DEF Retry, WorkerLost, Put
<1>. QED
  BY <1>3, <1>5, <1>6, <1>7
  DEF Next, vars, Request, AdminRead, SchedulerRead, InsertUnseen, ClientStep, AdminReplace,
      InsertRun, CloseRead, CloseWrite, Execution, ImportPolicies, FinishRead, FinishWrite,
      FailRead, FailWrite, WorkerStep, ClaimRead, ClaimWrite, Collect, Unlock, ExhaustRead,
      ExhaustWrite, Ack, GrowStale, Failure, HardTimeLimit, Raise, LockLost, ClientLost

\* A queued run becomes a running one in the hands of a worker.
LEMMA ClaimedByWorker ==
  ASSUME TypeOK, RunsInv, [Next]_vars, NEW r \in DOMAIN table, table[r].status = "queued",
         table'[r].status \in Active, table'[r].status # "queued"
  PROVE  \E p \in Procs : WorksAt(p, r, WorkPcs)'
<1>1. table'[r] # table[r]
  OBVIOUS
<1>2. CASE \E c \in Clients : InsertsBy(c)
  BY <1>1, <1>2, InsertedRow
<1>3. ASSUME NEW p \in Procs, NEW new, Closes(p, new) PROVE FALSE
  BY <1>1, <1>3, ClosedRow DEF RunsInv, Active, Terminal
<1>4. ASSUME NEW w \in Workers, Claims(w) PROVE \E p \in Procs : WorksAt(p, r, WorkPcs)'
  <2>1. task[w].run = r
    BY <1>1, <1>4, ClaimedTable
  <2>2. w \in Procs /\ task'[w] = task[w] /\ task[w] # None /\ pc'[w] = "collect"
    BY <1>4 DEF Claims, Procs
  <2>. QED BY <2>1, <2>2 DEF WorksAt, WorkPcs
<1>. QED BY <1>1, <1>2, <1>3, <1>4, Kinds DEF Keeps

\* Open runs stay in hand.
LEMMA InHandStep ==
  ASSUME TypeOK, RunsInv, RetriesLeft, LosesNoRun, OpenRunsInHand, [Next]_vars
  PROVE  OpenRunsInHand'
<1>1. ASSUME NEW r \in DOMAIN table, table'[r].status \in Active PROVE InHand(r)'
  <2>0. table'[r].status \notin Terminal
    BY <1>1 DEF Active, Terminal
  <2>1. table[r].status \in Active /\ r \in DOMAIN table'
    BY <1>1, <2>0, RowsKept DEF Forward
  <2>2. CASE Waits(r)
    BY <2>2, WaitingGoesOn DEF InHand
  <2>3. ASSUME NEW p \in Procs, WorksAt(p, r, WorkPcs) PROVE InHand(r)'
    <3>1. GoesOn(p, r, WorkPcs)
      BY <2>3, WorkGoesOn DEF WorksAt
    <3>2. CASE task'[p] = task[p] /\ pc'[p] \in WorkPcs
      BY <2>3, <3>2 DEF WorksAt, InHand
    <3>3. CASE \E m \in Messages : m.run = r /\ queue'[m] > 0
      BY <3>3 DEF Waits, InHand
    <3>. QED BY <2>0, <3>1, <3>2, <3>3 DEF GoesOn
  <2>4. ASSUME table[r].status = "queued", NEW c \in Clients, WorksAt(c, r, AnnouncePcs)
        PROVE  InHand(r)'
    <3>1. CASE table'[r].status # "queued"
      BY <1>1, <2>4, <3>1, ClaimedByWorker DEF InHand
    <3>2. CASE table'[r].status = "queued"
      <4>1. GoesOn(c, r, AnnouncePcs)
        BY <2>4, AnnounceGoesOn DEF WorksAt
      <4>2. CASE task'[c] = task[c] /\ pc'[c] \in AnnouncePcs
        BY <2>4, <3>2, <4>2 DEF WorksAt, InHand
      <4>3. CASE \E m \in Messages : m.run = r /\ queue'[m] > 0
        BY <4>3 DEF Waits, InHand
      <4>. QED BY <2>0, <4>1, <4>2, <4>3 DEF GoesOn
    <3>. QED BY <3>1, <3>2
  <2>. QED BY <2>1, <2>2, <2>3, <2>4 DEF OpenRunsInHand, InHand
<1>2. ASSUME NEW r \in DOMAIN table' \ DOMAIN table PROVE InHand(r)'
  <2>1. PICK c \in Clients : InsertsBy(c)
    BY Kinds, ClaimedTable, ClosedRow DEF Keeps, RunsInv
  <2>2. PICK q \in Fresh, s \in Sources, st \in {"queued", "running"} :
          /\ table' = Insert(table, q, NewRow(s, st))
          /\ pc'[c] = IF st = "running" THEN "import" ELSE "publish"
          /\ task' = [task EXCEPT ![c] = MessageOf(c, q)]
    BY <2>1 DEF InsertsBy
  <2>3. q = r /\ table'[r].status = st
    BY <2>2 DEF Insert, NewRow
  <2>4. /\ c \in Procs
        /\ task'[c] = MessageOf(c, r)
        /\ MessageOf(c, r) \in Messages /\ MessageOf(c, r).run = r
    BY <2>2, <2>3, BoundsAssumption, ScheduleAssumption
    DEF TypeOK, TaskOK, Procs, MessageOf, Messages, Fresh
  <2>5. CASE st = "running"
    BY <2>2, <2>4, <2>5, NoneAssumption DEF InHand, WorksAt, WorkPcs
  <2>6. CASE st = "queued"
    BY <2>2, <2>3, <2>4, <2>6, NoneAssumption DEF InHand, WorksAt, AnnouncePcs
  <2>. QED BY <2>5, <2>6
<1>. QED BY <1>1, <1>2 DEF OpenRunsInHand


\* Retries stay below the limit.
LEMMA RetriesStep ==
  ASSUME TypeOK, RetriesLeft, [Next]_vars
  PROVE  RetriesLeft'
<1>. SUFFICES ASSUME NEW v \in Workers, pc'[v] = "retry" PROVE task'[v].retries < MaxRetries
  BY DEF RetriesLeft
<1>. v \in Procs
  BY DEF Procs
<1>0. /\ pc \in [Procs -> WorkerPcs \cup ClientPcs]
      /\ task \in [Procs -> Messages \cup {None}]
      /\ pc[v] = "retry" => task[v].retries < MaxRetries
  BY DEF TypeOK, ProcOK, TaskOK, RetriesLeft
<1>1. CASE pc[v] = "retry" /\ task'[v] = task[v]
  BY <1>0, <1>1
<1>2. ASSUME NEW w \in Workers, NEW m \in Messages, Deliver(w, m)
      PROVE  task'[v].retries < MaxRetries
  <2>1. CASE w = v
    <3>1. task'[v] = m
      BY <1>0, <1>2, <2>1 DEF Deliver
    <3>2. ~(m.retries >= MaxRetries)
      BY <1>0, <1>2, <2>1 DEF Deliver
    <3>3. m.retries \in Nat
      BY BoundsAssumption DEF Messages
    <3>. QED BY <3>1, <3>2, <3>3, BoundsAssumption
  <2>2. CASE w # v
    BY <1>0, <1>1, <1>2, <2>2 DEF Deliver, Procs
  <2>. QED BY <2>1, <2>2
<1>3. CASE Request
  BY <1>0, <1>1, <1>3, RolesAssumption
  DEF Request, AdminRead, SchedulerRead, InsertUnseen, Clients, Procs
<1>4. ASSUME NEW c \in Clients, ClientStep(c) PROVE task'[v].retries < MaxRetries
  BY <1>0, <1>1, <1>4, RolesAssumption
  DEF ClientStep, AdminReplace, InsertRun, Publish, CloseRead, CloseWrite, Goto, Procs
<1>5. ASSUME NEW p \in Procs, Execution(p) PROVE task'[v].retries < MaxRetries
  BY <1>0, <1>1, <1>5
  DEF Execution, ImportPolicies, FinishRead, FinishWrite, FailRead, FailWrite, Goto, Leave
<1>6. ASSUME NEW w \in Workers, WorkerStep(w) PROVE task'[v].retries < MaxRetries
  BY <1>0, <1>1, <1>6
  DEF WorkerStep, ClaimRead, ClaimWrite, Collect, Unlock, Retry, ExhaustRead, ExhaustWrite,
      Ack, Goto, Procs
<1>7. CASE Failure
  <2>1. ASSUME NEW w \in Workers, Raise(w) PROVE task'[v].retries < MaxRetries
    <3>1. Handler(pc[w]) # "retry"
      BY <2>1 DEF Raise, Handler, WorkerPcs
    <3>. QED BY <1>0, <1>1, <2>1, <3>1 DEF Raise, Procs
  <2>2. ASSUME NEW w \in Workers, LockLost(w) PROVE task'[v].retries < MaxRetries
    BY <1>1, <2>2 DEF LockLost, procVars
  <2>3. ASSUME NEW w \in Workers, Die(w) PROVE task'[v].retries < MaxRetries
    BY <1>0, <1>1, <2>3 DEF Die, Procs
  <2>4. ASSUME NEW c \in Clients, ClientLost(c) PROVE task'[v].retries < MaxRetries
    BY <1>0, <1>1, <2>4, RolesAssumption DEF ClientLost, Procs
  <2>. QED BY <1>7, <2>1, <2>2, <2>3, <2>4 DEF Failure, WorkerLost, HardTimeLimit
<1>8. CASE UNCHANGED <<pc, task>>
  BY <1>1, <1>8
<1>. QED
  BY <1>2, <1>3, <1>4, <1>5, <1>6, <1>7, <1>8 DEF Next, GrowStale, procVars, vars

\* As long as a process is not killed with its message acknowledged, no step
\* raises unexpectedly and no client dies, somebody always still has to act on
\* an open run, whichever workers are lost and however many copies of a
\* message there are.  (late acknowledgement, the bounded retries and
\* _mark_lock_exhausted of tasks.py, and the closing of runs that could not be
\* published)
THEOREM RunsAreAttended ==
  ASSUME LosesNoRun
  PROVE  Spec => []OpenRunIsAttended
<1>1. Init => OpenRunsInHand /\ RetriesLeft
  BY DEF Init, OpenRunsInHand, RetriesLeft, Procs
<1>2. /\ TypeOK /\ RunsInv /\ OpenRunsInHand /\ RetriesLeft /\ [Next]_vars
      => (OpenRunsInHand /\ RetriesLeft)'
  BY InHandStep, RetriesStep
<1>3. OpenRunsInHand => OpenRunIsAttended
  BY DEF OpenRunsInHand, InHand, Waits, WorksAt, OpenRunIsAttended, InCharge, Procs
<1>. QED
  BY <1>1, <1>2, <1>3, TypeCorrect, RunsInvHolds, PTL DEF Spec

=============================================================================

-------------------------- MODULE AdminAccessProofs --------------------------
(***************************************************************************)
(* Proofs about AdminAccess, for any number of requests, clients, PINs and *)
(* generations: sessions prove the PIN of their generation, and lockouts   *)
(* are earned.                                                             *)
(***************************************************************************)
EXTENDS AdminAccess, FiniteSetTheorems, TLAPS

(* A record of the pair is no newer than the row, and of the same          *)
(* generation it has the PIN of the row.                                   *)
IsOld(generation, pin) ==
  /\ generation \in Nat /\ row # None
  /\ generation <= row.generation
  /\ generation = row.generation => pin = row.pin

LoginPcs == {"get", "insert", "refresh", "verify"}

(* What a request carries is what it read, or what it will write.          *)
TaskInv(r) ==
  /\ pc[r] \in LoginPcs =>
       task[r] = [client |-> task[r].client, guess |-> task[r].guess, read |-> task[r].read]
  /\ pc[r] = "get" => task[r].read = None
  /\ pc[r] = "verify" =>
       task[r].read = None \/ IsOld(task[r].read.generation, task[r].read.pin)
  /\ pc[r] \in {"insert", "insert_reset"} =>
       LET new == IF pc[r] = "insert" THEN task[r].read ELSE task[r]
       IN new \in [pin : Pin, generation : Nat]
  /\ pc[r] \in {"refresh", "change"} => row # None
  /\ pc[r] = "change" => task[r].new \in Pin
  /\ pc[r] = "write" => /\ holder = r
                        /\ task[r] \in [pin : Pin, generation : Nat]
                        /\ row # None => task[r].generation > row.generation

SessionInv ==
  /\ row = None \/ row \in [pin : Pin, generation : Nat]
  /\ row = None => tokens = {}
  /\ \A t \in tokens : IsOld(t.generation, t.proved)
  /\ pc = [r \in Request |-> pc[r]] /\ task = [r \in Request |-> task[r]]
  /\ \A r \in Request : TaskInv(r)

LEMMA InitSession == Init => SessionInv
  BY DEF Init, SessionInv, TaskInv, LoginPcs, IsOld

(* A step of r that leaves the row alone disturbs the invariant of no      *)
(* other request, unless it gives away a lock that r does not hold.        *)
LEMMA OthersKeep ==
  ASSUME SessionInv, NEW r \in Request, NEW where, NEW record,
         pc' = [pc EXCEPT ![r] = where], task' = [task EXCEPT ![r] = record],
         row' = row, holder' = holder \/ holder = None \/ holder = r
  PROVE  \A q \in Request \ {r} : TaskInv(q)'
  BY AccessAssumption DEF SessionInv, TaskInv, IsOld

(* A step that leaves the row alone keeps the invariant if it leaves r     *)
(* what r needs and issues no new token.                                   *)
LEMMA StepKeeps ==
  ASSUME SessionInv, NEW r \in Request, NEW where, NEW record,
         pc' = [pc EXCEPT ![r] = where], task' = [task EXCEPT ![r] = record],
         row' = row, tokens' = tokens, holder' = holder \/ holder = None \/ holder = r,
         TaskInv(r)'
  PROVE  SessionInv'
<1>1. \A q \in Request \ {r} : TaskInv(q)'
  BY OthersKeep
<1>2. \A t \in tokens' : IsOld(t.generation, t.proved)'
  BY DEF SessionInv, IsOld
<1> QED
  BY <1>1, <1>2 DEF SessionInv

LEMMA NextSession == SessionInv /\ [Next]_vars => SessionInv'
<1> SUFFICES ASSUME SessionInv, [Next]_vars PROVE SessionInv'
  OBVIOUS
<1> USE AccessAssumption DEF Goto, Keep, Respond
<1>1. ASSUME NEW r \in Request, NEW c \in Client, NEW p \in Pin, Login(r, c, p)
      PROVE  SessionInv'
  <2>1. TaskInv(r)'
    BY <1>1 DEF Login, TaskInv, LoginPcs, SessionInv
  <2> QED
    BY <1>1, <2>1, StepKeeps DEF Login
<1>2. ASSUME NEW r \in Request, GetState(r) PROVE SessionInv'
  <2> DEFINE initial == EffectivePin(task[r].client \in Local)
  <2>1. CASE row # None
    <3>1. task' = [task EXCEPT ![r] = [task[r] EXCEPT !.read = row]]
          /\ pc' = [pc EXCEPT ![r] = "verify"]
      BY <1>2, <2>1 DEF GetState
    <3>2. TaskInv(r)'
      BY <1>2, <2>1, <3>1 DEF GetState, TaskInv, LoginPcs, SessionInv, IsOld
    <3> QED
      BY <1>2, <3>1, <3>2, StepKeeps DEF GetState
  <2>2. CASE row = None /\ initial # None
    <3>1. task' = [task EXCEPT ![r] = [task[r] EXCEPT !.read = FreshRow(initial)]]
          /\ pc' = [pc EXCEPT ![r] = "insert"]
      BY <1>2, <2>2 DEF GetState
    <3>2. FreshRow(initial) \in [pin : Pin, generation : Nat]
      BY <2>2 DEF EffectivePin, FreshRow
    <3>3. TaskInv(r)'
      BY <1>2, <2>2, <3>1, <3>2 DEF GetState, TaskInv, LoginPcs, SessionInv
    <3> QED
      BY <1>2, <3>1, <3>3, StepKeeps DEF GetState
  <2>3. CASE row = None /\ initial = None
    <3>1. /\ pc[r] = "get" /\ task' = task /\ row' = row
          /\ task' = [task EXCEPT ![r] = task[r]] /\ pc' = [pc EXCEPT ![r] = "verify"]
      BY <1>2, <2>3 DEF GetState, SessionInv
    <3>2. TaskInv(r) /\ pc'[r] = "verify"
      BY <3>1 DEF SessionInv
    <3>3. TaskInv(r)'
      BY <3>1, <3>2 DEF TaskInv, LoginPcs
    <3> QED
      BY <1>2, <3>1, <3>3, StepKeeps DEF GetState
  <2> QED
    BY <2>1, <2>2, <2>3
<1>3. ASSUME NEW r \in Request, InsertState(r) PROVE SessionInv'
  <2>1. CASE row = None
    <3>1. /\ task[r].read \in [pin : Pin, generation : Nat]
          /\ row' = task[r].read /\ task' = task /\ tokens' = tokens /\ holder' = None
          /\ pc' = [pc EXCEPT ![r] = "refresh"] /\ holder = None /\ pc[r] = "insert"
      BY <1>3, <2>1 DEF InsertState, SessionInv, TaskInv
    <3>2. ASSUME NEW q \in Request PROVE TaskInv(q)'
      BY <2>1, <3>1 DEF SessionInv, TaskInv, LoginPcs, IsOld
    <3> QED
      BY <2>1, <3>1, <3>2 DEF SessionInv
  <2>2. CASE row # None
    <3>1. TaskInv(r)'
      BY <1>3, <2>2 DEF InsertState, TaskInv, LoginPcs, SessionInv
    <3> QED
      BY <1>3, <2>2, <3>1, StepKeeps DEF InsertState
  <2> QED
    BY <2>1, <2>2
<1>4. ASSUME NEW r \in Request, RefreshState(r) PROVE SessionInv'
  <2>1. TaskInv(r)'
    BY <1>4 DEF RefreshState, TaskInv, LoginPcs, SessionInv, IsOld
  <2> QED
    BY <1>4, <2>1, StepKeeps DEF RefreshState
<1>5. ASSUME NEW r \in Request, Verify(r) PROVE SessionInv'
  <2>1. CASE Proves(r)
    <3>1. /\ IsOld(task[r].read.generation, task[r].guess)
          /\ tokens' = tokens \cup {[generation |-> task[r].read.generation,
                                     proved |-> task[r].guess]}
          /\ task' = [task EXCEPT ![r] = None] /\ pc' = [pc EXCEPT ![r] = "idle"]
          /\ row' = row /\ holder' = holder
      BY <1>5, <2>1 DEF Verify, Proves, SessionInv, TaskInv
    <3>2. \A t \in tokens' : IsOld(t.generation, t.proved)'
      BY <3>1 DEF SessionInv, IsOld
    <3>3. \A q \in Request \ {r} : TaskInv(q)'
      BY <3>1, OthersKeep
    <3>4. TaskInv(r)'
      BY <3>1 DEF TaskInv, LoginPcs, SessionInv
    <3> QED
      BY <3>1, <3>2, <3>3, <3>4 DEF SessionInv, IsOld
  <2>2. CASE ~Proves(r)
    <3>1. task' = [task EXCEPT ![r] = task[r]] /\ pc' = [pc EXCEPT ![r] = "count"]
      BY <1>5, <2>2 DEF Verify, SessionInv
    <3>2. TaskInv(r)'
      BY <3>1 DEF TaskInv, LoginPcs, SessionInv
    <3> QED
      BY <1>5, <2>2, <3>1, <3>2, StepKeeps DEF Verify
  <2> QED
    BY <2>1, <2>2
<1>6. ASSUME NEW r \in Request, CountRead(r) PROVE SessionInv'
  <2>1. TaskInv(r)'
    BY <1>6 DEF CountRead, TaskInv, LoginPcs, SessionInv
  <2> QED
    BY <1>6, <2>1, StepKeeps DEF CountRead
<1>7. ASSUME NEW r \in Request, CountStore(r) PROVE SessionInv'
  <2>1. TaskInv(r)'
    BY <1>7 DEF CountStore, TaskInv, LoginPcs, SessionInv
  <2> QED
    BY <1>7, <2>1, StepKeeps DEF CountStore
<1>8. ASSUME NEW r \in Request, ChangeLocked(r) PROVE SessionInv'
  <2>1. CASE CanChange(r)
    <3>1. TaskInv(r)'
      BY <1>8, <2>1 DEF ChangeLocked, TaskInv, LoginPcs, SessionInv
    <3> QED
      BY <1>8, <2>1, <3>1, StepKeeps DEF ChangeLocked
  <2>2. CASE ~CanChange(r)
    <3>1. TaskInv(r)'
      BY <1>8, <2>2 DEF ChangeLocked, TaskInv, LoginPcs, SessionInv
    <3> QED
      BY <1>8, <2>2, <3>1, StepKeeps DEF ChangeLocked
  <2> QED
    BY <2>1, <2>2
<1>9. ASSUME NEW r \in Request, InsertReset(r) PROVE SessionInv'
  <2>1. CASE row = None
    <3>1. task' = [task EXCEPT ![r] = task[r]] /\ pc' = [pc EXCEPT ![r] = "write"]
      BY <1>9, <2>1 DEF InsertReset, SessionInv
    <3>2. TaskInv(r)'
      BY <1>9, <2>1, <3>1 DEF InsertReset, TaskInv, LoginPcs, SessionInv
    <3> QED
      BY <1>9, <2>1, <3>1, <3>2, StepKeeps DEF InsertReset
  <2>2. CASE row # None
    <3>1. TaskInv(r)'
      BY <1>9, <2>2 DEF InsertReset, TaskInv, LoginPcs, SessionInv
    <3> QED
      BY <1>9, <2>2, <3>1, StepKeeps DEF InsertReset
  <2> QED
    BY <2>1, <2>2
<1>10. ASSUME NEW r \in Request, CommitWrite(r) PROVE SessionInv'
  <2>1. /\ TaskInv(r) /\ pc[r] = "write" /\ row' = task[r] /\ tokens' = tokens
        /\ task' = [task EXCEPT ![r] = None] /\ pc' = [pc EXCEPT ![r] = "idle"]
    BY <1>10 DEF CommitWrite, SessionInv
  <2>2. /\ task[r] \in [pin : Pin, generation : Nat] /\ holder = r
        /\ row # None => row.generation \in Nat /\ task[r].generation > row.generation
    BY <2>1 DEF SessionInv, TaskInv
  <2>3. \A generation, pin : IsOld(generation, pin) => IsOld(generation, pin)'
    BY <2>1, <2>2 DEF IsOld
  <2>4. ASSUME NEW q \in Request PROVE TaskInv(q)'
    BY <2>1, <2>2, <2>3 DEF SessionInv, TaskInv, LoginPcs
  <2> QED
    BY <2>1, <2>2, <2>3, <2>4 DEF SessionInv
<1>11. ASSUME NEW r \in Request, LoseWrite(r) PROVE SessionInv'
  <2>1. holder = r /\ TaskInv(r)'
    BY <1>11 DEF LoseWrite, TaskInv, LoginPcs, SessionInv
  <2> QED
    BY <1>11, <2>1, StepKeeps DEF LoseWrite
<1>12. ASSUME NEW c \in Client, LockoutEnds(c) PROVE SessionInv'
  BY <1>12 DEF LockoutEnds, SessionInv, TaskInv, IsOld
<1>13. ASSUME NEW r \in Request, NEW t \in tokens, NEW p \in Pin, NEW q \in Pin,
              Change(r, t, p, q)
       PROVE  SessionInv'
  <2>1. TaskInv(r)'
    BY <1>13 DEF Change, ValidToken, TaskInv, LoginPcs, SessionInv
  <2> QED
    BY <1>13, <2>1, StepKeeps DEF Change
<1>14. ASSUME NEW r \in Request, NEW p \in Pin, Reset(r, p) PROVE SessionInv'
  <2>1. CASE row = None
    <3>1. TaskInv(r)'
      BY <1>14, <2>1 DEF Reset, FreshRow, TaskInv, LoginPcs, SessionInv
    <3> QED
      BY <1>14, <2>1, <3>1, StepKeeps DEF Reset
  <2>2. CASE row # None
    <3>1. TaskInv(r)'
      BY <1>14, <2>2 DEF Reset, TaskInv, LoginPcs, SessionInv
    <3> QED
      BY <1>14, <2>2, <3>1, StepKeeps DEF Reset
  <2> QED
    BY <2>1, <2>2
<1>15. CASE UNCHANGED vars
  BY <1>15 DEF vars, SessionInv, TaskInv, IsOld
<1> QED
  BY <1>1, <1>2, <1>3, <1>4, <1>5, <1>6, <1>7, <1>8, <1>9, <1>10, <1>11, <1>12,
     <1>13, <1>14, <1>15 DEF Next, LoginStep, WriteStep

(* Whoever holds a token that is accepted has proved the current PIN.      *)
THEOREM SessionsProveThePin == Spec => []LiveTokensProveThePin
<1>1. SessionInv => LiveTokensProveThePin
  BY DEF SessionInv, IsOld, LiveTokensProveThePin, ValidToken
<1> QED
  BY <1>1, InitSession, NextSession, PTL DEF Spec

-----------------------------------------------------------------------------
LimiterTypes ==
  /\ attempts \in [Client -> Nat] /\ lock \in [Client -> Nat] /\ failed \in [Client -> Nat]
  /\ raced = [c \in Client |-> raced[c]]
  /\ pc = [r \in Request |-> pc[r]] /\ task = [r \in Request |-> task[r]]

LoginTask(r) ==
  /\ pc[r] \in LoginPcs \cup {"count", "store"} => task[r].client \in Client
  /\ pc[r] \in LoginPcs =>
       task[r] = [client |-> task[r].client, guess |-> task[r].guess, read |-> task[r].read]

(* A request that has read the counter will store no more failures than    *)
(* there are without the others that are yet to be counted, and below the  *)
(* limit it has read no lockout; unless others overlapped it at the        *)
(* limiter, it is alone there and what it read is up to date.              *)
StoreTask(r) ==
  pc[r] = "store" =>
    LET c == task[r].client
    IN  /\ task[r].count \in Nat /\ task[r].lock \in Nat
        /\ task[r].count + Cardinality(Failing(c)) <= failed[c]
        /\ task[r].count < MaxAttempts => task[r].lock = 0
        /\ ~raced[c] => task[r].count = attempts[c] /\ Storing(c) = {r}

(* What is counted and what is yet to be counted are failures, all of them *)
(* unless requests overlapped, and a lockout is the one of the count.      *)
CountsFailures(c) ==
  /\ attempts[c] + Cardinality(Failing(c)) <= failed[c]
  /\ lock[c] > 0 => lock[c] = Cooldown(attempts[c])
  /\ ~raced[c] => attempts[c] + Cardinality(Failing(c)) = failed[c]

LimiterInv ==
  /\ LimiterTypes
  /\ \A r \in Request : LoginTask(r) /\ StoreTask(r)
  /\ \A c \in Client : CountsFailures(c)

LEMMA FailingIsFinite ==
  \A c : IsFiniteSet(Failing(c)) /\ Cardinality(Failing(c)) \in Nat
<1> TAKE c
<1>1. Failing(c) \subseteq Request
  BY DEF Failing
<1> QED
  BY <1>1, AccessAssumption, FS_Subset, FS_CardinalityType

LEMMA InitLimiter == Init => LimiterInv
<1> SUFFICES ASSUME Init PROVE LimiterInv
  OBVIOUS
<1>1. \A c : Failing(c) = {}
  BY DEF Init, Failing
<1>2. LimiterTypes
  BY DEF Init, LimiterTypes
<1>3. \A r \in Request : LoginTask(r) /\ StoreTask(r)
  BY DEF Init, LoginTask, StoreTask, LoginPcs
<1>4. ASSUME NEW c \in Client PROVE CountsFailures(c)
  <2>1. attempts[c] = 0 /\ failed[c] = 0 /\ lock[c] = 0
    BY DEF Init
  <2>2. Cardinality(Failing(c)) = 0
    BY <1>1, FS_EmptySet
  <2> QED
    BY <2>1, <2>2 DEF CountsFailures
<1> QED
  BY <1>2, <1>3, <1>4 DEF LimiterInv

(* A lockout starts at the limit.                                          *)
LEMMA CooldownIsEarned ==
  ASSUME NEW n \in Nat
  PROVE  Cooldown(n) \in Nat /\ (Cooldown(n) > 0 <=> n >= MaxAttempts)
  BY AccessAssumption DEF Cooldown

(* What the invariant says of one client.                                  *)
LEMMA CountsOf ==
  ASSUME LimiterInv, NEW c \in Client
  PROVE  /\ attempts[c] \in Nat /\ lock[c] \in Nat /\ failed[c] \in Nat
         /\ Cardinality(Failing(c)) \in Nat
         /\ attempts[c] + Cardinality(Failing(c)) <= failed[c]
         /\ lock[c] > 0 => lock[c] = Cooldown(attempts[c]) /\ attempts[c] >= MaxAttempts
         /\ ~raced[c] => attempts[c] + Cardinality(Failing(c)) = failed[c]
<1>1. LimiterTypes /\ CountsFailures(c)
  BY DEF LimiterInv
<1> QED
  BY <1>1, FailingIsFinite, CooldownIsEarned DEF LimiterTypes, CountsFailures

(* Whatever a step of r does: the invariant holds after it if the counts   *)
(* do, r is typed, and a client with another request that will store has   *)
(* no more to be counted, less the failures that are new, and either was   *)
(* overlapped or has the same counter and the same requests at it.         *)
LEMMA LimiterStep ==
  ASSUME LimiterInv, NEW r \in Request, NEW where, NEW record,
         pc' = [pc EXCEPT ![r] = where], task' = [task EXCEPT ![r] = record],
         LoginTask(r)', StoreTask(r)',
         LimiterTypes',
         \A c \in Client : CountsFailures(c)',
         \A c \in Client :
           Storing(c) \subseteq {r}
           \/ /\ Cardinality(Failing(c))' \in Int
              /\ Cardinality(Failing(c))' - Cardinality(Failing(c)) <= failed'[c] - failed[c]
              /\ \/ raced'[c]
                 \/ ~raced[c] /\ attempts'[c] = attempts[c] /\ Storing(c)' = Storing(c)
  PROVE  LimiterInv'
<1>1. LimiterTypes /\ LimiterTypes'
  BY DEF LimiterInv
<1>2. \A q \in Request \ {r} : pc'[q] = pc[q] /\ task'[q] = task[q]
  BY <1>1 DEF LimiterTypes
<1>3. ASSUME NEW q \in Request \ {r} PROVE LoginTask(q)' /\ StoreTask(q)'
  <2>1. LoginTask(q) /\ StoreTask(q) /\ pc'[q] = pc[q] /\ task'[q] = task[q]
    BY <1>2 DEF LimiterInv
  <2>2. LoginTask(q)'
    BY <2>1 DEF LoginTask
  <2>3. CASE pc[q] = "store"
    <3>1. PICK c \in Client : c = task[q].client
      BY <2>1, <2>3 DEF LoginTask
    <3>2. /\ task[q].count \in Nat /\ task[q].lock \in Nat
          /\ task[q].count + Cardinality(Failing(c)) <= failed[c]
          /\ task[q].count < MaxAttempts => task[q].lock = 0
          /\ ~raced[c] => task[q].count = attempts[c] /\ Storing(c) = {q}
      BY <2>1, <2>3, <3>1 DEF StoreTask
    <3>3. ~(Storing(c) \subseteq {r})
      BY <2>3, <3>1 DEF Storing
    <3>4. /\ Cardinality(Failing(c))' \in Int
          /\ Cardinality(Failing(c))' - Cardinality(Failing(c)) <= failed'[c] - failed[c]
          /\ \/ raced'[c]
             \/ ~raced[c] /\ attempts'[c] = attempts[c] /\ Storing(c)' = Storing(c)
      BY <3>3
    <3>5. Cardinality(Failing(c)) \in Nat /\ failed[c] \in Nat /\ failed'[c] \in Nat
      BY <1>1, CountsOf DEF LimiterTypes
    <3>6. task[q].count + Cardinality(Failing(c))' <= failed'[c]
      BY <3>2, <3>4, <3>5
    <3>7. ~raced'[c] => task[q].count = attempts'[c] /\ Storing(c)' = {q}
      BY <3>2, <3>4
    <3> QED
      BY <2>1, <2>2, <3>1, <3>2, <3>6, <3>7 DEF StoreTask
  <2>4. CASE pc[q] # "store"
    BY <2>1, <2>2, <2>4 DEF StoreTask
  <2> QED
    BY <2>3, <2>4
<1> QED
  BY <1>1, <1>3 DEF LimiterInv

(* A step of r that makes no count and keeps what is to be counted.        *)
LEMMA LimiterKeeps ==
  ASSUME LimiterInv, NEW r \in Request, NEW where, NEW record,
         pc' = [pc EXCEPT ![r] = where], task' = [task EXCEPT ![r] = record],
         UNCHANGED limiter,
         pc[r] \notin {"count", "store"}, where \notin {"count", "store"},
         where \in LoginPcs =>
           /\ record.client \in Client
           /\ record = [client |-> record.client, guess |-> record.guess, read |-> record.read]
  PROVE  LimiterInv'
<1>1. LimiterTypes /\ LimiterTypes'
  BY DEF LimiterInv, LimiterTypes, limiter
<1>2. /\ pc'[r] = where /\ task'[r] = record
      /\ \A q \in Request \ {r} : pc'[q] = pc[q] /\ task'[q] = task[q]
  BY <1>1 DEF LimiterTypes
<1>3. \A c : Failing(c)' = Failing(c) /\ Storing(c)' = Storing(c)
  BY <1>2 DEF Failing, Storing
<1>4. /\ attempts' = attempts /\ lock' = lock /\ failed' = failed /\ raced' = raced
  BY DEF limiter
<1>5. \A c \in Client : CountsFailures(c)'
  BY <1>3, <1>4 DEF LimiterInv, CountsFailures
<1>6. LoginTask(r)' /\ StoreTask(r)'
  BY <1>2 DEF LoginTask, StoreTask
<1>7. ASSUME NEW c \in Client
      PROVE  /\ Cardinality(Failing(c))' \in Int
             /\ Cardinality(Failing(c))' - Cardinality(Failing(c)) <= failed'[c] - failed[c]
             /\ \/ raced'[c]
                \/ ~raced[c] /\ attempts'[c] = attempts[c] /\ Storing(c)' = Storing(c)
  BY <1>3, <1>4, CountsOf
<1> QED
  BY <1>1, <1>5, <1>6, <1>7, LimiterStep

(* A failure is one more to be counted.                                    *)
LEMMA FailureIsFailing ==
  ASSUME LimiterInv, NEW r \in Request, Verify(r), ~Proves(r)
  PROVE  LimiterInv'
<1>1. LimiterTypes /\ LoginTask(r)
  BY DEF LimiterInv
<1>2. PICK f \in Client : f = task[r].client
  BY <1>1 DEF Verify, LoginTask, LoginPcs
<1>3. /\ pc[r] = "verify" /\ pc' = [pc EXCEPT ![r] = "count"]
      /\ task' = task /\ task' = [task EXCEPT ![r] = task[r]]
      /\ attempts' = attempts /\ lock' = lock /\ raced' = raced
      /\ failed' = [failed EXCEPT ![f] = @ + 1]
  BY <1>1, <1>2 DEF Verify, Goto, LimiterTypes
<1>4. pc'[r] = "count" /\ \A q \in Request \ {r} : pc'[q] = pc[q]
  BY <1>1, <1>3 DEF LimiterTypes
<1>5. Failing(f)' = Failing(f) \cup {r} /\ r \notin Failing(f)
  BY <1>2, <1>3, <1>4 DEF Failing
<1>6. \A c \in Client \ {f} : Failing(c)' = Failing(c)
  BY <1>2, <1>3, <1>4 DEF Failing
<1>7. Cardinality(Failing(f))' = Cardinality(Failing(f)) + 1
  BY <1>5, FailingIsFinite, FS_AddElement
<1>8. \A c : Storing(c)' = Storing(c)
  BY <1>3, <1>4 DEF Storing
<1>9. ASSUME NEW c \in Client
      PROVE  /\ CountsFailures(c)' /\ Cardinality(Failing(c))' \in Int
             /\ Cardinality(Failing(c))' - Cardinality(Failing(c)) <= failed'[c] - failed[c]
  <2>1. /\ attempts[c] \in Nat /\ lock[c] \in Nat /\ failed[c] \in Nat
        /\ Cardinality(Failing(c)) \in Nat
        /\ attempts[c] + Cardinality(Failing(c)) <= failed[c]
        /\ lock[c] > 0 => lock[c] = Cooldown(attempts[c])
        /\ ~raced[c] => attempts[c] + Cardinality(Failing(c)) = failed[c]
    BY CountsOf
  <2>2. CASE c = f
    <3>1. failed'[c] = failed[c] + 1
      BY <1>1, <1>3, <2>2 DEF LimiterTypes
    <3> QED
      BY <1>3, <1>7, <2>1, <2>2, <3>1 DEF CountsFailures
  <2>3. CASE c # f
    <3>1. failed'[c] = failed[c] /\ Failing(c)' = Failing(c)
      BY <1>1, <1>3, <1>6, <2>3 DEF LimiterTypes
    <3> QED
      BY <1>3, <2>1, <3>1 DEF CountsFailures
  <2> QED
    BY <2>2, <2>3
<1>10. LimiterTypes'
  BY <1>1, <1>3 DEF LimiterTypes
<1>11. LoginTask(r)' /\ StoreTask(r)'
  BY <1>2, <1>3, <1>4 DEF LoginTask, StoreTask, LoginPcs
<1> QED
  BY <1>3, <1>8, <1>9, <1>10, <1>11, LimiterStep

(* Once a failure is counted, it is one less to be counted.                *)
LEMMA StoreCounts ==
  ASSUME LimiterInv, NEW r \in Request, CountStore(r)
  PROVE  LimiterInv'
<1>1. LimiterTypes /\ LoginTask(r) /\ StoreTask(r)
  BY DEF LimiterInv
<1>2. PICK f \in Client, n \in Nat : f = task[r].client /\ n = task[r].count + 1
  BY <1>1 DEF CountStore, LoginTask, StoreTask
<1>3. /\ pc[r] = "store" /\ pc' = [pc EXCEPT ![r] = "idle"] /\ task' = [task EXCEPT ![r] = None]
      /\ attempts' = [attempts EXCEPT ![f] = n] /\ failed' = failed /\ raced' = raced
      /\ lock' = [lock EXCEPT ![f] = IF Cooldown(n) > 0 THEN Cooldown(n) ELSE task[r].lock]
  BY <1>1, <1>2 DEF CountStore, Goto, Keep, Respond
<1>4. /\ n + Cardinality(Failing(f)) <= failed[f] + 1
      /\ n < MaxAttempts => task[r].lock = 0
      /\ ~raced[f] => n = attempts[f] + 1 /\ Storing(f) = {r}
      /\ task[r].lock \in Nat
  <2>1. Cardinality(Failing(f)) \in Nat /\ failed[f] \in Nat
    BY CountsOf
  <2> QED
    BY <1>1, <1>2, <1>3, <2>1, AccessAssumption DEF StoreTask
<1>5. pc'[r] = "idle" /\ \A q \in Request \ {r} : pc'[q] = pc[q] /\ task'[q] = task[q]
  BY <1>1, <1>3 DEF LimiterTypes
<1>6. Failing(f)' = Failing(f) \ {r} /\ r \in Failing(f)
  BY <1>2, <1>3, <1>5 DEF Failing
<1>7. \A c \in Client \ {f} : Failing(c)' = Failing(c) /\ Storing(c)' = Storing(c)
  BY <1>2, <1>3, <1>5 DEF Failing, Storing
<1>8. Cardinality(Failing(f))' = Cardinality(Failing(f)) - 1
  BY <1>6, FailingIsFinite, FS_RemoveElement
<1>9. /\ Cooldown(n) \in Nat /\ (Cooldown(n) > 0 <=> n >= MaxAttempts)
      /\ IF Cooldown(n) > 0 THEN TRUE ELSE task[r].lock = 0
  BY <1>4, CooldownIsEarned, AccessAssumption
<1>10. ASSUME NEW c \in Client
       PROVE  /\ CountsFailures(c)' /\ Cardinality(Failing(c))' \in Int
              /\ Cardinality(Failing(c))' - Cardinality(Failing(c)) <= failed'[c] - failed[c]
              /\ \/ Storing(c) \subseteq {r} \/ raced'[c]
                 \/ ~raced[c] /\ attempts'[c] = attempts[c] /\ Storing(c)' = Storing(c)
  <2>1. /\ attempts[c] \in Nat /\ lock[c] \in Nat /\ failed[c] \in Nat
        /\ Cardinality(Failing(c)) \in Nat
        /\ attempts[c] + Cardinality(Failing(c)) <= failed[c]
        /\ lock[c] > 0 => lock[c] = Cooldown(attempts[c])
        /\ ~raced[c] => attempts[c] + Cardinality(Failing(c)) = failed[c]
    BY CountsOf
  <2>2. CASE c = f
    <3>1. /\ attempts'[f] = n
          /\ lock'[f] = IF Cooldown(n) > 0 THEN Cooldown(n) ELSE task[r].lock
      BY <1>1, <1>3 DEF LimiterTypes
    <3>2. lock'[f] > 0 => lock'[f] = Cooldown(n)
      BY <1>9, <3>1
    <3>3. Cooldown(attempts[f])' = Cooldown(n)
      BY <3>1 DEF Cooldown
    <3>4. CountsFailures(f)'
      BY <1>3, <1>4, <1>8, <2>1, <2>2, <3>1, <3>2, <3>3 DEF CountsFailures
    <3> QED
      BY <1>3, <1>4, <1>8, <2>1, <2>2, <3>4
  <2>3. CASE c # f
    <3>1. /\ attempts'[c] = attempts[c] /\ lock'[c] = lock[c]
          /\ Failing(c)' = Failing(c) /\ Storing(c)' = Storing(c)
      BY <1>1, <1>3, <1>7, <2>3 DEF LimiterTypes
    <3> QED
      BY <1>3, <2>1, <3>1 DEF CountsFailures
  <2> QED
    BY <2>2, <2>3
<1>11. LimiterTypes'
  BY <1>1, <1>3, <1>4, <1>9 DEF LimiterTypes
<1>12. LoginTask(r)' /\ StoreTask(r)'
  BY <1>5 DEF LoginTask, StoreTask, LoginPcs
<1> QED
  BY <1>3, <1>10, <1>11, <1>12, LimiterStep

(* A request that reads the counter has not counted its failure yet; it    *)
(* overlaps those that have read theirs and not stored.                    *)
LEMMA ReadCountsNothing ==
  ASSUME LimiterInv, NEW r \in Request, CountRead(r)
  PROVE  LimiterInv'
<1>1. LimiterTypes /\ LoginTask(r)
  BY DEF LimiterInv
<1>2. PICK f \in Client : f = task[r].client
  BY <1>1 DEF CountRead, LoginTask
<1> DEFINE record == [client |-> f, count |-> attempts[f], lock |-> lock[f]]
<1>3. /\ pc[r] = "count" /\ pc' = [pc EXCEPT ![r] = "store"]
      /\ task' = [task EXCEPT ![r] = record]
      /\ attempts' = attempts /\ lock' = lock /\ failed' = failed
      /\ raced' = [raced EXCEPT ![f] = @ \/ Storing(f) # {}]
  BY <1>2 DEF CountRead, Goto, Keep
<1>4. /\ pc'[r] = "store" /\ task'[r] = record
      /\ \A q \in Request \ {r} : pc'[q] = pc[q] /\ task'[q] = task[q]
  BY <1>1, <1>3 DEF LimiterTypes
<1>5. \A c : Failing(c)' = Failing(c)
  BY <1>2, <1>3, <1>4 DEF Failing
<1>6. Storing(f)' = Storing(f) \cup {r}
  BY <1>2, <1>4 DEF Storing
<1>7. \A c \in Client \ {f} : Storing(c)' = Storing(c) /\ raced'[c] = raced[c]
  BY <1>1, <1>2, <1>3, <1>4 DEF Storing, LimiterTypes
<1>8. ~raced'[f] => ~raced[f] /\ Storing(f) = {}
  BY <1>1, <1>3 DEF LimiterTypes
<1>9. ASSUME NEW c \in Client
      PROVE  /\ CountsFailures(c)' /\ Cardinality(Failing(c))' \in Int
             /\ Cardinality(Failing(c))' - Cardinality(Failing(c)) <= failed'[c] - failed[c]
             /\ \/ Storing(c) \subseteq {r} \/ raced'[c]
                \/ ~raced[c] /\ attempts'[c] = attempts[c] /\ Storing(c)' = Storing(c)
  <2>1. ~raced'[c] => ~raced[c]
    BY <1>7, <1>8
  <2>2. CountsFailures(c)'
    BY <1>3, <1>5, <2>1 DEF LimiterInv, CountsFailures, Cooldown
  <2> QED
    BY <1>3, <1>5, <1>7, <1>8, <2>2, CountsOf
<1>10. LoginTask(r)' /\ StoreTask(r)'
  <2>1. /\ attempts[f] \in Nat /\ lock[f] \in Nat /\ Cardinality(Failing(f)) \in Nat
        /\ attempts[f] + Cardinality(Failing(f)) <= failed[f]
        /\ attempts[f] < MaxAttempts => lock[f] = 0
    BY CountsOf, AccessAssumption
  <2> QED
    BY <1>3, <1>4, <1>5, <1>6, <1>8, <2>1 DEF LoginTask, StoreTask, LoginPcs
<1>11. LimiterTypes'
  BY <1>1, <1>3 DEF LimiterTypes
<1> QED
  BY <1>3, <1>9, <1>10, <1>11, LimiterStep

(* A success forgets the failures that were counted, not those on their    *)
(* way, and of these it can tell only if none has read its counter.        *)
LEMMA SuccessForgets ==
  ASSUME LimiterInv, NEW r \in Request, Verify(r), Proves(r)
  PROVE  LimiterInv'
<1>1. LimiterTypes /\ LoginTask(r)
  BY DEF LimiterInv
<1>2. PICK f \in Client : f = task[r].client
  BY <1>1 DEF Verify, LoginTask, LoginPcs
<1>3. /\ pc[r] = "verify" /\ pc' = [pc EXCEPT ![r] = "idle"] /\ task' = [task EXCEPT ![r] = None]
      /\ attempts' = [attempts EXCEPT ![f] = 0] /\ lock' = [lock EXCEPT ![f] = 0]
      /\ failed' = [failed EXCEPT ![f] = IF Storing(f) = {} THEN Cardinality(Failing(f)) ELSE @]
      /\ raced' = [raced EXCEPT ![f] = Storing(f) # {}]
  BY <1>2 DEF Verify, Forget, Goto, Keep, Respond
<1>4. pc'[r] = "idle" /\ \A q \in Request \ {r} : pc'[q] = pc[q] /\ task'[q] = task[q]
  BY <1>1, <1>3 DEF LimiterTypes
<1>5. \A c : Failing(c)' = Failing(c) /\ Storing(c)' = Storing(c)
  BY <1>3, <1>4 DEF Failing, Storing
<1>6. ASSUME NEW c \in Client
      PROVE  /\ CountsFailures(c)'
             /\ \/ Storing(c) \subseteq {r}
                \/ /\ Cardinality(Failing(c))' \in Int
                   /\ Cardinality(Failing(c))' - Cardinality(Failing(c)) <= failed'[c] - failed[c]
                   /\ \/ raced'[c]
                      \/ ~raced[c] /\ attempts'[c] = attempts[c] /\ Storing(c)' = Storing(c)
  <2>1. /\ attempts[c] \in Nat /\ lock[c] \in Nat /\ failed[c] \in Nat
        /\ Cardinality(Failing(c)) \in Nat
        /\ attempts[c] + Cardinality(Failing(c)) <= failed[c]
        /\ lock[c] > 0 => lock[c] = Cooldown(attempts[c])
        /\ ~raced[c] => attempts[c] + Cardinality(Failing(c)) = failed[c]
    BY CountsOf
  <2>2. CASE c = f /\ Storing(f) = {}
    <3>1. attempts'[f] = 0 /\ lock'[f] = 0 /\ failed'[f] = Cardinality(Failing(f))
      BY <1>1, <1>3, <2>2 DEF LimiterTypes
    <3> QED
      BY <1>5, <2>1, <2>2, <3>1 DEF CountsFailures
  <2>3. CASE c = f /\ Storing(f) # {}
    <3>1. attempts'[f] = 0 /\ lock'[f] = 0 /\ failed'[f] = failed[f] /\ raced'[f]
      BY <1>1, <1>3, <2>3 DEF LimiterTypes
    <3> QED
      BY <1>5, <2>1, <2>3, <3>1 DEF CountsFailures
  <2>4. CASE c # f
    <3>1. /\ attempts'[c] = attempts[c] /\ lock'[c] = lock[c] /\ failed'[c] = failed[c]
          /\ raced'[c] = raced[c]
      BY <1>1, <1>3, <2>4 DEF LimiterTypes
    <3> QED
      BY <1>5, <2>1, <3>1 DEF CountsFailures
  <2> QED
    BY <2>2, <2>3, <2>4
<1>7. LoginTask(r)' /\ StoreTask(r)'
  BY <1>4 DEF LoginTask, StoreTask, LoginPcs
<1>8. LimiterTypes'
  BY <1>1, <1>3, FailingIsFinite DEF LimiterTypes
<1> QED
  BY <1>3, <1>6, <1>7, <1>8, LimiterStep

LEMMA NextLimiter == LimiterInv /\ [Next]_vars => LimiterInv'
<1> SUFFICES ASSUME LimiterInv, [Next]_vars PROVE LimiterInv'
  OBVIOUS
<1> USE DEF Goto, Keep, Respond
<1>1. ASSUME NEW r \in Request, NEW c \in Client, NEW p \in Pin, Login(r, c, p)
      PROVE  LimiterInv'
  BY <1>1, LimiterKeeps DEF Login
<1>2. ASSUME NEW r \in Request, GetState(r) PROVE LimiterInv'
  <2>1. PICK where, read : /\ pc' = [pc EXCEPT ![r] = where]
                           /\ task' = [task EXCEPT ![r] = [task[r] EXCEPT !.read = read]]
                           /\ where \in {"verify", "insert"}
    <3>1. task = [task EXCEPT ![r] = [task[r] EXCEPT !.read = task[r].read]]
      BY <1>2 DEF GetState, LimiterInv, LimiterTypes, LoginTask, LoginPcs
    <3> QED
      BY <1>2, <3>1 DEF GetState
  <2>2. /\ pc[r] = "get" /\ task[r].client \in Client
        /\ UNCHANGED limiter
        /\ [task[r] EXCEPT !.read = read] =
             [client |-> task[r].client, guess |-> task[r].guess, read |-> read]
    BY <1>2 DEF GetState, LimiterInv, LimiterTypes, LoginTask, LoginPcs
  <2> QED
    BY <2>1, <2>2, LimiterKeeps
<1>3. ASSUME NEW r \in Request, InsertState(r) PROVE LimiterInv'
  <2>1. CASE row = None
    <3>1. task' = [task EXCEPT ![r] = task[r]] /\ pc' = [pc EXCEPT ![r] = "refresh"]
      BY <1>3, <2>1 DEF InsertState, LimiterInv, LimiterTypes
    <3>2. /\ pc[r] = "insert" /\ UNCHANGED limiter
          /\ task[r].client \in Client
          /\ task[r] = [client |-> task[r].client, guess |-> task[r].guess, read |-> task[r].read]
      BY <1>3 DEF InsertState, LimiterInv, LimiterTypes, LoginTask, LoginPcs
    <3> QED
      BY <3>1, <3>2, LimiterKeeps
  <2>2. CASE row # None
    BY <1>3, <2>2, LimiterKeeps DEF InsertState, LoginPcs
  <2> QED
    BY <2>1, <2>2
<1>4. ASSUME NEW r \in Request, RefreshState(r) PROVE LimiterInv'
  <2>1. /\ pc[r] = "refresh" /\ UNCHANGED limiter
        /\ task[r].client \in Client /\ pc' = [pc EXCEPT ![r] = "verify"]
        /\ task' = [task EXCEPT ![r] = [client |-> task[r].client, guess |-> task[r].guess,
                                        read |-> row]]
    <3>1. LoginTask(r)
      BY DEF LimiterInv
    <3>2. pc[r] = "refresh" /\ task' = [task EXCEPT ![r] = [task[r] EXCEPT !.read = row]]
      BY <1>4 DEF RefreshState
    <3>3. /\ task[r].client \in Client
          /\ [task[r] EXCEPT !.read = row] =
               [client |-> task[r].client, guess |-> task[r].guess, read |-> row]
      BY <3>1, <3>2 DEF LoginTask, LoginPcs
    <3> QED
      BY <1>4, <3>2, <3>3 DEF RefreshState
  <2> QED
    BY <2>1, LimiterKeeps
<1>5. ASSUME NEW r \in Request, Verify(r), Proves(r) PROVE LimiterInv'
  BY <1>5, SuccessForgets
<1>6. ASSUME NEW r \in Request, Verify(r), ~Proves(r) PROVE LimiterInv'
  BY <1>6, FailureIsFailing
<1>7. ASSUME NEW r \in Request, CountRead(r) PROVE LimiterInv'
  BY <1>7, ReadCountsNothing
<1>8. ASSUME NEW r \in Request, CountStore(r) PROVE LimiterInv'
  BY <1>8, StoreCounts
<1>9. ASSUME NEW r \in Request, WriteStep(r) PROVE LimiterInv'
  <2>1. PICK where, record :
          /\ pc' = [pc EXCEPT ![r] = where] /\ task' = [task EXCEPT ![r] = record]
          /\ where \in {"write", "idle"}
    <3>1. task = [task EXCEPT ![r] = task[r]]
      BY DEF LimiterInv, LimiterTypes
    <3> QED
      BY <1>9, <3>1 DEF WriteStep, ChangeLocked, InsertReset, CommitWrite, LoseWrite
  <2>2. /\ pc[r] \in {"change", "insert_reset", "write"}
        /\ UNCHANGED limiter
    BY <1>9 DEF WriteStep, ChangeLocked, InsertReset, CommitWrite, LoseWrite
  <2> QED
    BY <2>1, <2>2, LimiterKeeps DEF LoginPcs
<1>10. ASSUME NEW c \in Client, LockoutEnds(c) PROVE LimiterInv'
  <2>1. /\ pc' = pc /\ task' = task /\ attempts' = attempts /\ failed' = failed
        /\ raced' = raced /\ lock' = [lock EXCEPT ![c] = 0]
    BY <1>10 DEF LockoutEnds
  <2>2. \A x : Failing(x)' = Failing(x) /\ Storing(x)' = Storing(x)
    BY <2>1 DEF Failing, Storing
  <2>3. lock' \in [Client -> Nat] /\ \A x \in Client : lock'[x] > 0 => lock'[x] = lock[x]
    BY <2>1 DEF LimiterInv, LimiterTypes
  <2>4. \A x \in Client : CountsFailures(x)'
    BY <2>1, <2>2, <2>3 DEF LimiterInv, CountsFailures, Cooldown
  <2> QED
    BY <2>1, <2>2, <2>3, <2>4 DEF LimiterInv, LimiterTypes, LoginTask, StoreTask
<1>11. ASSUME NEW r \in Request, NEW t \in tokens, NEW p \in Pin, NEW q \in Pin,
              Change(r, t, p, q)
       PROVE  LimiterInv'
  BY <1>11, LimiterKeeps DEF Change, LoginPcs
<1>12. ASSUME NEW r \in Request, NEW p \in Pin, Reset(r, p) PROVE LimiterInv'
  <2>1. PICK where, record :
          /\ pc' = [pc EXCEPT ![r] = where] /\ task' = [task EXCEPT ![r] = record]
          /\ where \in {"write", "insert_reset"}
    BY <1>12 DEF Reset
  <2> QED
    BY <1>12, <2>1, LimiterKeeps DEF Reset, LoginPcs
<1>13. CASE UNCHANGED vars
  <2>1. \A c : Failing(c)' = Failing(c) /\ Storing(c)' = Storing(c)
    BY <1>13 DEF vars, Failing, Storing
  <2> QED
    BY <1>13, <2>1 DEF vars, LimiterInv, LimiterTypes, LoginTask, StoreTask, CountsFailures,
                       Cooldown
<1> QED
  BY <1>1, <1>2, <1>3, <1>4, <1>5, <1>6, <1>7, <1>8, <1>9, <1>10, <1>11, <1>12, <1>13
     DEF Next, LoginStep

(* A new count locks as it must, and the lockout of a client ends by time, *)
(* by a success, or by a request that overlapped others at the limiter.    *)
EndsDuly(c) ==
  /\ attempts'[c] # attempts[c] => lock'[c] = Cooldown(attempts'[c])
  /\ lock[c] > 0 /\ lock'[c] = 0 => attempts'[c] \in {0, attempts[c]} \/ raced[c]

LEMMA LockoutsEndDuly ==
  ASSUME LimiterInv, [Next]_vars, NEW c \in Client
  PROVE  EndsDuly(c)
<1> USE DEF EndsDuly
<1>1. ASSUME NEW r \in Request, CountStore(r) PROVE EndsDuly(c)
  <2>1. LimiterTypes /\ LoginTask(r) /\ StoreTask(r)
    BY DEF LimiterInv
  <2>2. PICK f \in Client, n \in Nat : f = task[r].client /\ n = task[r].count + 1
    BY <1>1, <2>1 DEF CountStore, LoginTask, StoreTask
  <2>3. /\ attempts' = [attempts EXCEPT ![f] = n]
        /\ lock' = [lock EXCEPT ![f] = IF Cooldown(n) > 0 THEN Cooldown(n) ELSE task[r].lock]
    BY <1>1, <2>2 DEF CountStore
  <2>4. CASE c = f
    <3>1. /\ attempts'[f] = n
          /\ lock'[f] = IF Cooldown(n) > 0 THEN Cooldown(n) ELSE task[r].lock
      BY <2>1, <2>3 DEF LimiterTypes
    <3>2. Cooldown(n) \in Nat /\ (Cooldown(n) > 0 <=> n >= MaxAttempts)
      BY CooldownIsEarned
    <3>3. n < MaxAttempts => task[r].lock = 0
      BY <1>1, <2>1, <2>2, AccessAssumption DEF StoreTask, CountStore
    <3>4. lock'[f] = Cooldown(n)
      BY <3>1, <3>2, <3>3, AccessAssumption
    <3>5. ASSUME lock[f] > 0, ~raced[f] PROVE Cooldown(n) > 0
      <4>1. attempts[f] >= MaxAttempts /\ attempts[f] \in Nat /\ n = attempts[f] + 1
        BY <1>1, <2>1, <2>2, <3>5, CountsOf DEF StoreTask, CountStore
      <4> QED
        BY <3>2, <4>1, AccessAssumption
    <3> QED
      BY <2>4, <3>1, <3>2, <3>4, <3>5
  <2>5. CASE c # f
    BY <2>1, <2>3, <2>5 DEF LimiterTypes
  <2> QED
    BY <2>4, <2>5
<1>2. ASSUME NEW r \in Request, Verify(r) PROVE EndsDuly(c)
  <2>1. LimiterTypes
    BY DEF LimiterInv
  <2>2. CASE Proves(r)
    <3>1. \/ attempts'[c] = 0 /\ lock'[c] = 0
          \/ attempts'[c] = attempts[c] /\ lock'[c] = lock[c]
      BY <1>2, <2>1, <2>2 DEF Verify, Forget, LimiterTypes
    <3>2. Cooldown(0) = 0
      BY AccessAssumption DEF Cooldown
    <3> QED
      BY <3>1, <3>2
  <2>3. CASE ~Proves(r)
    BY <1>2, <2>3 DEF Verify
  <2> QED
    BY <2>2, <2>3
<1>3. CASE attempts' = attempts
  BY <1>3, CountsOf
<1>4. \/ attempts' = attempts
      \/ \E r \in Request : CountStore(r) \/ Verify(r)
  <2>1. ASSUME NEW r \in Request, LoginStep(r)
        PROVE  attempts' = attempts \/ CountStore(r) \/ Verify(r)
    BY <2>1 DEF LoginStep, GetState, InsertState, RefreshState, CountRead, limiter
  <2>2. ASSUME NEW r \in Request, WriteStep(r) PROVE attempts' = attempts
    BY <2>2 DEF WriteStep, ChangeLocked, InsertReset, CommitWrite, LoseWrite, limiter
  <2>3. CASE UNCHANGED vars
    BY <2>3 DEF vars
  <2> QED
    BY <2>1, <2>2, <2>3 DEF Next, Login, LockoutEnds, Change, Reset, limiter
<1> QED
  BY <1>1, <1>2, <1>3, <1>4

(* However the logins of a client overlap, a lockout is the one its count  *)
(* of failures earns, and without an overlap every failure counts and a    *)
(* lockout lasts.                                                          *)
THEOREM LimiterIsFair == Spec => LockoutsAreEarned
<1> DEFINE Earned(c) ==
      /\ attempts[c] <= failed[c]
      /\ lock[c] > 0 => failed[c] >= MaxAttempts /\ lock[c] = Cooldown(attempts[c])
      /\ ~raced[c] /\ Failing(c) = {} => attempts[c] = failed[c]
<1>1. ASSUME LimiterInv, NEW c \in Client PROVE Earned(c)
  <2>1. /\ attempts[c] \in Nat /\ failed[c] \in Nat /\ Cardinality(Failing(c)) \in Nat
        /\ attempts[c] + Cardinality(Failing(c)) <= failed[c]
        /\ lock[c] > 0 => lock[c] = Cooldown(attempts[c]) /\ attempts[c] >= MaxAttempts
        /\ ~raced[c] => attempts[c] + Cardinality(Failing(c)) = failed[c]
    BY <1>1, CountsOf
  <2>2. Failing(c) = {} => Cardinality(Failing(c)) = 0
    BY FS_EmptySet
  <2> QED
    BY <2>1, <2>2, AccessAssumption
<1>2. LimiterInv => \A c \in Client : Earned(c)
  BY <1>1
<1>3. LimiterInv /\ [Next]_vars => [\A c \in Client :
          /\ attempts'[c] # attempts[c] => lock'[c] = Cooldown(attempts'[c])
          /\ lock[c] > 0 /\ lock'[c] = 0 =>
               attempts'[c] \in {0, attempts[c]} \/ raced[c]]_vars
  BY LockoutsEndDuly DEF EndsDuly
<1> QED
  BY <1>2, <1>3, InitLimiter, NextLimiter, PTL DEF Spec, LockoutsAreEarned
=============================================================================

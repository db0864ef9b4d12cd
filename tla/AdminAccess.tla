---------------------------- MODULE AdminAccess ----------------------------
(***************************************************************************)
(* The administrator's credential and sessions (admin_access.py, the       *)
(* endpoints of the same name, deps.py and the recovery command).          *)
(*                                                                         *)
(* One row holds the PIN and a session generation; a token carries the     *)
(* generation it was issued for; a dictionary in memory counts the failed  *)
(* logins of each client.  Requests run in threads: a request reads the    *)
(* row in one step and acts on what it read in a later one.                *)
(***************************************************************************)
EXTENDS FiniteSets, Integers

CONSTANTS Request,       \* threads that serve requests, and the command
          Client,        \* addresses the limiter counts by
          Local,         \* those that are loopback addresses
          Pin,           \* PINs
          Configured,    \* the PIN of ADMIN_PIN_HASH, or None
          Default,       \* the PIN a local client may start with, or None
          None,
          MaxAttempts,   \* ADMIN_MAX_LOGIN_ATTEMPTS
          Steps,         \* the number of PROGRESSIVE_LOCKOUT_STEPS
          MaxGeneration, \* bound: changes of the PIN
          MaxFailures    \* bound: failed logins of a client

ASSUME AccessAssumption ==
  /\ Local \subseteq Client
  /\ Configured \in Pin \cup {None} /\ Default \in Pin \cup {None}
  /\ None \notin Pin \cup Request \cup [pin : Pin, generation : Nat]
  /\ IsFiniteSet(Request)
  /\ MaxAttempts \in Nat \ {0} /\ Steps \in Nat \ {0}
  /\ MaxGeneration \in Nat \ {0} /\ MaxFailures \in Nat

VARIABLES row,      \* the committed singleton row, or None
          holder,   \* the request whose uncommitted write locks the row
          tokens,   \* tokens issued: generation, and the PIN that was proved
          attempts, \* client -> failures the limiter has counted
          lock,     \* client -> step of the lockout that runs, 0 for none
          pc, task,
          failed,   \* history: client -> failed logins since a success
          raced     \* history: client -> did its requests overlap at the
                    \* limiter since a success that met none there

limiter == <<attempts, lock, failed, raced>>
vars == <<row, holder, tokens, attempts, lock, pc, task, failed, raced>>

Row == [pin : Pin, generation : 1 .. MaxGeneration]
Token == [generation : 1 .. MaxGeneration, proved : Pin]

-----------------------------------------------------------------------------
(* Helpers *)

(* get_effective_pin_hash *)
EffectivePin(allowDefault) ==
  IF Configured # None THEN Configured
  ELSE IF allowDefault THEN Default ELSE None

FreshRow(pin) == [pin |-> pin, generation |-> 1]

(* calculate_cooldown_seconds, as the index of the step: none below the    *)
(* limit, then one step more for each failure, up to the last one.         *)
CooldownEarly(n) ==             \* mutant: the failure after this one counts
  IF n + 1 < MaxAttempts THEN 0
  ELSE IF n + 1 - MaxAttempts >= Steps THEN Steps ELSE n - MaxAttempts + 2
Cooldown(n) ==
  IF n < MaxAttempts THEN 0
  ELSE IF n - MaxAttempts >= Steps THEN Steps ELSE n - MaxAttempts + 1

(* verify_admin_session_token: the generation is the one of the row now. *)
ValidToken(t) == row # None /\ t.generation = row.generation

Goto(r, where) == pc' = [pc EXCEPT ![r] = where]
Keep(r, record) == task' = [task EXCEPT ![r] = record]
Respond(r) == Goto(r, "idle") /\ Keep(r, None)

-----------------------------------------------------------------------------
(* Login: POST /session *)

Pending(c) ==
  {x \in Request : /\ pc[x] \in {"get", "insert", "refresh", "verify"}
                   /\ task[x].client = c}

(* A client that is locked out is answered 429 and nothing changes. *)
Login(r, c, guess) ==
  /\ pc[r] = "idle"
  /\ lock[c] = 0
  /\ failed[c] + Cardinality(Pending(c)) < MaxFailures
  /\ Goto(r, "get")
  /\ Keep(r, [client |-> c, guess |-> guess, read |-> None])
  /\ UNCHANGED <<row, holder, tokens, limiter>>

(* get_or_create_admin_auth_state: the row, or one to insert, or nothing. *)
GetState(r) ==
  LET initial == EffectivePin(task[r].client \in Local)
  IN  /\ pc[r] = "get"
      /\ \/ /\ row # None
            /\ Keep(r, [task[r] EXCEPT !.read = row])
            /\ Goto(r, "verify")
         \/ /\ row = None /\ initial # None
            /\ Keep(r, [task[r] EXCEPT !.read = FreshRow(initial)])
            /\ Goto(r, "insert")
         \/ /\ row = None /\ initial = None
            /\ Goto(r, "verify")
            /\ UNCHANGED task
      /\ UNCHANGED <<row, holder, tokens, limiter>>

InsertStateAgain(r) ==          \* mutant: a lost race tries the insert again
  /\ pc[r] = "insert"
  /\ holder = None
  /\ row = None
  /\ row' = task[r].read /\ Goto(r, "refresh")
  /\ UNCHANGED <<task, holder, tokens, limiter>>

(* Commit of the inserted row; the primary key lets only one request win,  *)
(* and the error of the other one ends its request.                        *)
InsertState(r) ==
  /\ pc[r] = "insert"
  /\ holder = None
  /\ IF row = None
     THEN row' = task[r].read /\ Goto(r, "refresh") /\ UNCHANGED task
     ELSE Respond(r) /\ UNCHANGED row
  /\ UNCHANGED <<holder, tokens, limiter>>

(* db.refresh reads the row again after the commit. *)
RefreshState(r) ==
  /\ pc[r] = "refresh"
  /\ Keep(r, [task[r] EXCEPT !.read = row])
  /\ Goto(r, "verify")
  /\ UNCHANGED <<row, holder, tokens, limiter>>

Proves(r) == task[r].read # None /\ task[r].read.pin = task[r].guess

(* Requests that have failed: of these, some have read their counter.      *)
Failing(c) == {x \in Request : pc[x] \in {"count", "store"} /\ task[x].client = c}
Storing(c) == {x \in Request : pc[x] = "store" /\ task[x].client = c}

ForgetLockout(c) ==             \* mutant: a success leaves the counter
  /\ attempts' = attempts
  /\ lock' = [lock EXCEPT ![c] = 0]
  /\ failed' = [failed EXCEPT ![c] = IF Storing(c) = {} THEN Cardinality(Failing(c)) ELSE @]
  /\ raced' = [raced EXCEPT ![c] = Storing(c) # {}]

(* A success forgets the failures, but not one that is still to be counted *)
(* or to be stored with those before it.                                   *)
Forget(c) ==
  /\ attempts' = [attempts EXCEPT ![c] = 0]
  /\ lock' = [lock EXCEPT ![c] = 0]
  /\ failed' = [failed EXCEPT ![c] = IF Storing(c) = {} THEN Cardinality(Failing(c)) ELSE @]
  /\ raced' = [raced EXCEPT ![c] = Storing(c) # {}]

VerifyReread(r) ==              \* mutant: the generation is read at the end
  /\ pc[r] = "verify"
  /\ IF Proves(r)
     THEN /\ Forget(task[r].client)
          /\ tokens' = tokens \cup {[generation |-> row.generation,
                                     proved |-> task[r].guess]}
          /\ Respond(r)
     ELSE /\ failed' = [failed EXCEPT ![task[r].client] = @ + 1]
          /\ Goto(r, "count")
          /\ UNCHANGED <<tokens, attempts, lock, raced, task>>
  /\ UNCHANGED <<row, holder>>

(* A success forgets the failures and issues a token for the generation    *)
(* that was read with the PIN; a failure goes to the limiter.              *)
Verify(r) ==
  /\ pc[r] = "verify"
  /\ IF Proves(r)
     THEN /\ Forget(task[r].client)
          /\ tokens' = tokens \cup {[generation |-> task[r].read.generation,
                                     proved |-> task[r].guess]}
          /\ Respond(r)
     ELSE /\ failed' = [failed EXCEPT ![task[r].client] = @ + 1]
          /\ Goto(r, "count")
          /\ UNCHANGED <<tokens, attempts, lock, raced, task>>
  /\ UNCHANGED <<row, holder>>

(* record_failed_attempt reads the counter and the lockout of the client ... *)
CountRead(r) ==
  LET c == task[r].client
  IN  /\ pc[r] = "count"
      /\ Goto(r, "store")
      /\ Keep(r, [client |-> c, count |-> attempts[c], lock |-> lock[c]])
      /\ raced' = [raced EXCEPT ![c] = @ \/ Storing(c) # {}]
      /\ UNCHANGED <<row, holder, tokens, attempts, lock, failed>>

CountStoreUnlocked(r) ==        \* mutant: the lockout is not stored with the counter
  /\ pc[r] = "store"
  /\ attempts' = [attempts EXCEPT ![task[r].client] = task[r].count + 1]
  /\ lock' = [lock EXCEPT ![task[r].client] = 0]
  /\ Respond(r)
  /\ UNCHANGED <<row, holder, tokens, failed, raced>>

(* ... and stores the successor, with a lockout from the limit on, else    *)
(* with the lockout it read: what others stored in between is overwritten. *)
CountStore(r) ==
  LET c == task[r].client
      n == task[r].count + 1
  IN  /\ pc[r] = "store"
      /\ attempts' = [attempts EXCEPT ![c] = n]
      /\ lock' = [lock EXCEPT ![c] = IF Cooldown(n) > 0 THEN Cooldown(n) ELSE task[r].lock]
      /\ Respond(r)
      /\ UNCHANGED <<row, holder, tokens, failed, raced>>

(* The clock passes lock_until; the counter stays. *)
LockoutEnds(c) ==
  /\ lock[c] > 0
  /\ lock' = [lock EXCEPT ![c] = 0]
  /\ UNCHANGED <<row, holder, tokens, attempts, pc, task, failed, raced>>

-----------------------------------------------------------------------------
(* Change and recovery of the PIN *)

(* The bound on PIN changes counts the ones under way. *)
MayRaise ==
  LET current == IF row = None THEN 1 ELSE row.generation
      under == {x \in Request : pc[x] \in {"change", "write", "insert_reset"}}
  IN  current + Cardinality(under) < MaxGeneration

(* PUT /pin: the dependency admits a token of the current generation. *)
Change(r, t, current, new) ==
  /\ pc[r] = "idle"
  /\ MayRaise
  /\ ValidToken(t)
  /\ Goto(r, "change")
  /\ Keep(r, [current |-> current, new |-> new])
  /\ UNCHANGED <<row, holder, tokens, limiter>>

CanChange(r) == task[r].current = row.pin /\ task[r].new # row.pin

ChangeUnlocked(r) ==            \* mutant: the row is read without a lock
  /\ pc[r] = "change"
  /\ IF CanChange(r)
     THEN /\ Keep(r, [pin |-> task[r].new, generation |-> row.generation + 1])
          /\ Goto(r, "write")
     ELSE Respond(r)
  /\ UNCHANGED <<row, holder, tokens, limiter>>

(* change_admin_pin: SELECT FOR UPDATE, the two comparisons, the flush.    *)
(* After the dependency the row exists, so it is not created here.         *)
ChangeLocked(r) ==
  /\ pc[r] = "change"
  /\ holder = None
  /\ IF CanChange(r)
     THEN /\ holder' = r
          /\ Keep(r, [pin |-> task[r].new, generation |-> row.generation + 1])
          /\ Goto(r, "write")
     ELSE Respond(r) /\ UNCHANGED holder
  /\ UNCHANGED <<row, tokens, limiter>>

(* reset_admin_pin, which the recovery command runs: the row is locked and *)
(* its generation raised, or it is created.                                *)
Reset(r, new) ==
  /\ pc[r] = "idle"
  /\ holder = None
  /\ MayRaise
  /\ IF row = None
     THEN /\ Goto(r, "insert_reset")
          /\ Keep(r, FreshRow(new))
          /\ UNCHANGED holder
     ELSE /\ holder' = r
          /\ Keep(r, [pin |-> new, generation |-> row.generation + 1])
          /\ Goto(r, "write")
  /\ UNCHANGED <<row, tokens, limiter>>

(* The flush of a created row: it waits for the key, and fails if taken. *)
InsertReset(r) ==
  /\ pc[r] = "insert_reset"
  /\ holder = None
  /\ IF row = None
     THEN holder' = r /\ Goto(r, "write") /\ UNCHANGED task
     ELSE Respond(r) /\ UNCHANGED holder
  /\ UNCHANGED <<row, tokens, limiter>>

CommitWrite(r) ==
  /\ pc[r] = "write"
  /\ row' = task[r]
  /\ holder' = None
  /\ Respond(r)
  /\ UNCHANGED <<tokens, limiter>>

(* A crash or an error before the commit. *)
LoseWrite(r) ==
  /\ pc[r] = "write"
  /\ holder' = None
  /\ Respond(r)
  /\ UNCHANGED <<row, tokens, limiter>>

-----------------------------------------------------------------------------
Init ==
  /\ row = None
  /\ holder = None
  /\ tokens = {}
  /\ attempts = [c \in Client |-> 0]
  /\ lock = [c \in Client |-> 0]
  /\ pc = [r \in Request |-> "idle"]
  /\ task = [r \in Request |-> None]
  /\ failed = [c \in Client |-> 0]
  /\ raced = [c \in Client |-> FALSE]

LoginStep(r) ==
  \/ GetState(r) \/ InsertState(r) \/ RefreshState(r) \/ Verify(r)
  \/ CountRead(r) \/ CountStore(r)

WriteStep(r) == ChangeLocked(r) \/ InsertReset(r) \/ CommitWrite(r) \/ LoseWrite(r)

Next ==
  \/ \E r \in Request, c \in Client, p \in Pin : Login(r, c, p)
  \/ \E r \in Request : LoginStep(r) \/ WriteStep(r)
  \/ \E c \in Client : LockoutEnds(c)
  \/ \E r \in Request, t \in tokens, p, q \in Pin : Change(r, t, p, q)
  \/ \E r \in Request, p \in Pin : Reset(r, p)

Spec == Init /\ [][Next]_vars

(* A thread that runs goes on, and PostgreSQL queues those that wait for   *)
(* the row or its key, so that none waits for ever; lockouts run out.      *)
Fairness ==
  /\ \A r \in Request : SF_vars(LoginStep(r) \/ WriteStep(r))
  /\ \A c \in Client : WF_vars(LockoutEnds(c))

FairSpec == Spec /\ Fairness

-----------------------------------------------------------------------------
(* Properties *)

(* A PIN change ends every older session: whoever holds a token that is    *)
(* accepted now has proved the PIN that is valid now, whatever logins,     *)
(* bootstraps, changes and recoveries ran at once (admin_access.md).       *)
LiveTokensProveThePin ==
  \A t \in tokens : ValidToken(t) => t.proved = row.pin

(* The limiter works without a lock (record_failed_attempt and             *)
(* reset_failed_attempts).  However the failures and successes of a client *)
(* overlap, a lockout is one step for each failure from the limit on and   *)
(* never comes early, and each count from the limit on locks; as long as   *)
(* none overlap, every failure counts and a lockout ends by time or by a   *)
(* success only.                                                           *)
LockoutsAreEarned ==
  /\ [](\A c \in Client :
          /\ attempts[c] <= failed[c]
          /\ lock[c] > 0 => failed[c] >= MaxAttempts /\ lock[c] = Cooldown(attempts[c])
          /\ ~raced[c] /\ Failing(c) = {} => attempts[c] = failed[c])
  /\ [][\A c \in Client :
          /\ attempts'[c] # attempts[c] => lock'[c] = Cooldown(attempts'[c])
          /\ lock[c] > 0 /\ lock'[c] = 0 =>
               attempts'[c] \in {0, attempts[c]} \/ raced[c]]_vars

(* Every request is answered: none waits for the row or its key for ever.  *)
RequestsEnd == \A r \in Request : pc[r] # "idle" ~> pc[r] = "idle"
=============================================================================

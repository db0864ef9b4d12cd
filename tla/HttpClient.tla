----------------------------- MODULE HttpClient -----------------------------
(***************************************************************************)
(* The HTTP client of the collectors (collectors/http.py): threads that    *)
(* share one client send requests with bounded retries, exponential        *)
(* backoff and one pacing slot at a time.                                  *)
(*                                                                         *)
(* Time is a tick.  A sleep is a timer that counts down; the time since    *)
(* the last slot counts up to the interval, where more makes no            *)
(* difference.  The environment chooses every answer.                      *)
(***************************************************************************)
EXTENDS Integers

CONSTANTS Thread,        \* threads that share the client
          Nobody,
          Interval,      \* request_interval_seconds
          Backoff,       \* backoff_seconds
          MaxRetries     \* max_retries

(* HttpClientConfig refuses negative values. *)
ASSUME ConfigAssumption ==
  /\ Interval \in Nat /\ Backoff \in Nat /\ MaxRetries \in Nat
  /\ Nobody \notin Thread

VARIABLES age,      \* ticks since _last_request_started, up to Interval
          pacing,   \* the thread that holds _pacing_lock
          at, timer,
          attempt,  \* the attempt of the thread's request
          answer,   \* what the last attempt met
          outcome,  \* what the request returned or raised
          gap       \* history: ticks between the last two slots, up to Interval

httpVars == <<age, pacing, at, timer, attempt, answer, outcome, gap>>

(* What an attempt may meet.  5xx, a timeout and a lost connection are     *)
(* retried; a redirect is not followed and is unexpected, like any other   *)
(* exception of the transport.                                             *)
Retryable == {"timeout", "unreachable", "5xx"}
Answer == Retryable \cup {"2xx", "401", "429", "4xx", "3xx", "exception"}

Outcome == [ans \in Answer |->
  CASE ans = "2xx" -> "response"
    [] ans = "401" -> "AuthenticationError"
    [] ans = "429" -> "RateLimitError"
    [] ans = "4xx" -> "ClientResponseError"
    [] ans = "5xx" -> "ServerResponseError"
    [] ans = "3xx" -> "UnexpectedResponseError"
    [] ans = "timeout" -> "RequestTimeoutError"
    [] OTHER -> "TransportError"]

Attempts == MaxRetries + 1

(* 2 to the power n, of _backoff. *)
Power[n \in Nat] == IF n = 0 THEN 1 ELSE 2 * Power[n - 1]
Delay(failed) == Backoff * Power[failed - 1]

Retried(ans, n) == ans \in Retryable /\ n < Attempts

-----------------------------------------------------------------------------
(* get and post_form start a request; the caller thread was idle. *)
Begin(t) ==
  /\ at[t] = "idle"
  /\ at' = [at EXCEPT ![t] = "slot"]
  /\ attempt' = [attempt EXCEPT ![t] = 1]
  /\ answer' = [answer EXCEPT ![t] = Nobody]
  /\ outcome' = [outcome EXCEPT ![t] = Nobody]
  /\ UNCHANGED <<age, pacing, timer, gap>>

AcquireShared(t) ==             \* mutant: the slot is computed without the lock
  /\ at[t] = "slot"
  /\ timer' = [timer EXCEPT ![t] = Interval - age]
  /\ at' = [at EXCEPT ![t] = "pace"]
  /\ UNCHANGED <<age, pacing, attempt, answer, outcome, gap>>

(* _wait_for_request_slot: take the lock and sleep out the interval ... *)
Acquire(t) ==
  /\ at[t] = "slot"
  /\ pacing = Nobody
  /\ pacing' = t
  /\ timer' = [timer EXCEPT ![t] = Interval - age]
  /\ at' = [at EXCEPT ![t] = "pace"]
  /\ UNCHANGED <<age, attempt, answer, outcome, gap>>

TakeSlotHeld(t) ==              \* mutant: the lock is not released
  /\ at[t] = "pace" /\ timer[t] = 0
  /\ gap' = age
  /\ age' = 0
  /\ at' = [at EXCEPT ![t] = "send"]
  /\ UNCHANGED <<pacing, timer, attempt, answer, outcome>>

(* ... then the slot is now and the lock is released. *)
TakeSlot(t) ==
  /\ at[t] = "pace" /\ timer[t] = 0
  /\ gap' = age
  /\ age' = 0
  /\ pacing' = Nobody
  /\ at' = [at EXCEPT ![t] = "send"]
  /\ UNCHANGED <<timer, attempt, answer, outcome>>

(* One attempt of _send and the classification of what it met. *)
Receive(t) ==
  /\ at[t] = "send"
  /\ \E ans \in Answer :
       /\ answer' = [answer EXCEPT ![t] = ans]
       /\ IF Retried(ans, attempt[t])
          THEN /\ timer' = [timer EXCEPT ![t] = Delay(attempt[t])]
               /\ attempt' = [attempt EXCEPT ![t] = @ + 1]
               /\ at' = [at EXCEPT ![t] = "backoff"]
               /\ UNCHANGED outcome
          ELSE /\ outcome' = [outcome EXCEPT ![t] = Outcome[ans]]
               /\ at' = [at EXCEPT ![t] = "idle"]
               /\ UNCHANGED <<timer, attempt>>
  /\ UNCHANGED <<age, pacing, gap>>

(* The end of the backoff: the next attempt waits for its slot. *)
Retry(t) ==
  /\ at[t] = "backoff" /\ timer[t] = 0
  /\ at' = [at EXCEPT ![t] = "slot"]
  /\ UNCHANGED <<age, pacing, timer, attempt, answer, outcome, gap>>

Countdown(n) == IF n = 0 THEN 0 ELSE n - 1

(* Time passes while some sleep or interval is not over. *)
Tick ==
  /\ age < Interval \/ \E t \in Thread : timer[t] > 0
  /\ age' = IF age < Interval THEN age + 1 ELSE age
  /\ timer' = [t \in Thread |-> Countdown(timer[t])]
  /\ UNCHANGED <<pacing, at, attempt, answer, outcome, gap>>

-----------------------------------------------------------------------------
(* No request was started yet: the first slot does not wait. *)
HttpInit ==
  /\ age = Interval
  /\ pacing = Nobody
  /\ at = [t \in Thread |-> "idle"]
  /\ timer = [t \in Thread |-> 0]
  /\ attempt = [t \in Thread |-> 0]
  /\ answer = [t \in Thread |-> Nobody]
  /\ outcome = [t \in Thread |-> Nobody]
  /\ gap = Interval

Step(t) == Acquire(t) \/ TakeSlot(t) \/ Receive(t) \/ Retry(t)

HttpNext == Tick \/ \E t \in Thread : Begin(t) \/ Step(t)

HttpSpec == HttpInit /\ [][HttpNext]_httpVars

(* Sleeps end, sends return within their timeout, and the threading lock  *)
(* is granted to a thread that keeps asking.                               *)
FairHttpSpec == HttpSpec /\ WF_httpVars(Tick) /\ \A t \in Thread : SF_httpVars(Step(t))

-----------------------------------------------------------------------------
(* Properties *)

(* Two slots are never closer than the interval, whichever threads and    *)
(* retries they belong to.                                                 *)
SlotsApart == gap = Interval

(* Every request returns or raises. *)
CallsEnd == \A t \in Thread : at[t] # "idle" ~> at[t] = "idle"
=============================================================================

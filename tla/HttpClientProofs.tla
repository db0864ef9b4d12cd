-------------------------- MODULE HttpClientProofs --------------------------
(***************************************************************************)
(* Two slots of the client are never closer than the interval, for any     *)
(* number of threads, interval, backoff and number of retries.             *)
(***************************************************************************)
EXTENDS HttpClient, TLAPS

(* The lock is held exactly by the thread that sleeps out the interval,    *)
(* and what is left of its sleep is what is left of the interval.          *)
SleepCoversInterval ==
  \A t \in Thread :
    /\ at[t] = "pace" <=> pacing = t
    /\ at[t] = "pace" => timer[t] = Interval - age

(* The values of timers are left open: only their domain matters. *)
PacingInv ==
  /\ age \in 0 .. Interval
  /\ DOMAIN timer = Thread /\ DOMAIN at = Thread
  /\ timer = [t \in Thread |-> timer[t]]
  /\ at = [t \in Thread |-> at[t]]
  /\ SleepCoversInterval
  /\ SlotsApart

(* The first state: no slot was taken. *)
LEMMA InitPacing == HttpInit => PacingInv
  BY ConfigAssumption DEF HttpInit, PacingInv, SleepCoversInterval, SlotsApart

(* Every step of a thread and of the clock keeps the invariant. *)
LEMMA NextPacing == PacingInv /\ [HttpNext]_httpVars => PacingInv'
<1> SUFFICES ASSUME PacingInv, [HttpNext]_httpVars PROVE PacingInv'
  OBVIOUS
<1> USE ConfigAssumption
<1>1. CASE Tick
  <2>1. age' \in 0 .. Interval /\ gap' = Interval
    BY <1>1 DEF Tick, PacingInv, SlotsApart
  <2>2. ASSUME NEW t \in Thread, at[t] = "pace"
        PROVE  timer'[t] = Interval - age'
    BY <1>1, <2>2 DEF Tick, Countdown, PacingInv, SleepCoversInterval
  <2>3. /\ DOMAIN timer' = Thread
        /\ timer' = [t \in Thread |-> timer'[t]]
        /\ at' = at /\ pacing' = pacing
    BY <1>1 DEF Tick
  <2> QED
    BY <2>1, <2>2, <2>3 DEF PacingInv, SleepCoversInterval, SlotsApart
<1>2. ASSUME NEW t \in Thread, Begin(t) PROVE PacingInv'
  BY <1>2 DEF Begin, PacingInv, SleepCoversInterval, SlotsApart
<1>3. ASSUME NEW t \in Thread, Acquire(t) PROVE PacingInv'
  BY <1>3 DEF Acquire, PacingInv, SleepCoversInterval, SlotsApart
<1>4. ASSUME NEW t \in Thread, TakeSlot(t) PROVE PacingInv'
  <2>1. pacing = t /\ age = Interval
    BY <1>4 DEF TakeSlot, PacingInv, SleepCoversInterval
  <2>2. \A u \in Thread : at'[u] # "pace"
    BY <1>4, <2>1 DEF TakeSlot, PacingInv, SleepCoversInterval
  <2> QED
    BY <1>4, <2>1, <2>2 DEF TakeSlot, PacingInv, SleepCoversInterval, SlotsApart
<1>5. ASSUME NEW t \in Thread, Receive(t) PROVE PacingInv'
  <2>1. PICK ans \in Answer :
          \/ /\ timer' = [timer EXCEPT ![t] = Delay(attempt[t])]
             /\ at' = [at EXCEPT ![t] = "backoff"]
          \/ /\ timer' = timer
             /\ at' = [at EXCEPT ![t] = "idle"]
    BY <1>5 DEF Receive
  <2>2. at[t] = "send" /\ age' = age /\ pacing' = pacing /\ gap' = gap
    BY <1>5 DEF Receive
  <2> QED
    BY <2>1, <2>2 DEF PacingInv, SleepCoversInterval, SlotsApart
<1>6. ASSUME NEW t \in Thread, Retry(t) PROVE PacingInv'
  BY <1>6 DEF Retry, PacingInv, SleepCoversInterval, SlotsApart
<1>7. CASE UNCHANGED httpVars
  BY <1>7 DEF httpVars, PacingInv, SleepCoversInterval, SlotsApart
<1> QED
  BY <1>1, <1>2, <1>3, <1>4, <1>5, <1>6, <1>7 DEF HttpNext, Step

(* Slots keep their distance in every behaviour of the client. *)
THEOREM PacingHolds == HttpSpec => []SlotsApart
<1>1. PacingInv => SlotsApart
  BY DEF PacingInv
<1> QED
  BY <1>1, InitPacing, NextPacing, PTL DEF HttpSpec
=============================================================================

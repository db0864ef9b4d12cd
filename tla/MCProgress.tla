----------------------------- MODULE MCProgress -----------------------------
(***************************************************************************)
(* Small instances of three parts that share nothing and whose requests    *)
(* must end: the HTTP client, the administrator's access, and the policy   *)
(* store, which recovers from crashes.  A behaviour is one of one part;    *)
(* the others stay as they started.  The access is taken in two instances: *)
(* one where the PIN changes and a client fails at most once, and one      *)
(* where it stays and a local client fails MaxFailures times, so that      *)
(* failures follow a lockout.                                              *)
(***************************************************************************)
EXTENDS HttpClient, AdminAccess, TLC

CONSTANTS p1, p2, c1

VARIABLES part, table, pending, installed, active, job, todo, old, listing,
          events, place    \* place: pc of the store's processes

Store == INSTANCE PolicyStore WITH
  pc <- place, Policy <- {p1, p2}, Source <- {"s"},
  SourceOf <- p1 :> "s" @@ p2 :> "s", Content <- {c1}, Collected <- {c1},
  Time <- {1}, Importer <- {"i"}, Installer <- {"j"}, Version <- {"v1"},
  Release <- {"r1"}, VersionOf <- "r1" :> "v1",
  Artifact <- "r1" :> (p1 :> c1), ReleaseTime <- 1,
  MaxEvents <- 2

storeVars == <<table, pending, installed, active, place, job, todo, old,
               listing, events>>
allVars == <<part, httpVars, vars, storeVars>>

MCInit ==
  /\ part \in {"client", "pin", "limiter", "store"}
  /\ HttpInit /\ Init /\ Store!Init

Sending(A) == part = "client" /\ A /\ UNCHANGED <<part, vars, storeVars>>
Admitting(A) == part \in {"pin", "limiter"} /\ A /\ UNCHANGED <<part, httpVars, storeVars>>
Keeping(A) == part = "store" /\ A /\ UNCHANGED <<part, httpVars, vars>>

(* The bound on the failures of a client in this instance.                 *)
MayFail(c) ==
  \/ part = "limiter" /\ c \in Local
  \/ failed[c] + Cardinality(Pending(c)) < 1

Access ==
  \/ \E r \in Request, c \in Client, p \in Pin : MayFail(c) /\ Login(r, c, p)
  \/ \E r \in Request : LoginStep(r) \/ WriteStep(r)
  \/ \E c \in Client : LockoutEnds(c)
  \/ /\ part = "pin"
     /\ \/ \E r \in Request, t \in tokens, p, q \in Pin : Change(r, t, p, q)
        \/ \E r \in Request, p \in Pin : Reset(r, p)

MCNext == Sending(HttpNext) \/ Admitting(Access) \/ Keeping(Store!Next)

(* The fairness of the parts, each in its own behaviours.                  *)
MCFairness ==
  /\ WF_allVars(Sending(Tick))
  /\ \A t \in Thread : SF_allVars(Sending(Step(t)))
  /\ \A r \in Request : SF_allVars(Admitting(LoginStep(r) \/ WriteStep(r)))
  /\ \A c \in Client : WF_allVars(Admitting(LockoutEnds(c)))
  /\ SF_allVars(Keeping(Store!ImportStep("i") \/ Store!DeadlockVictim("i")))
  /\ WF_allVars(Keeping(Store!InstallStep("j") \/ Store!DeadlockVictim("j")))
  /\ SF_allVars(Keeping(Store!CompleteImport("i", "s")))

MCSpec == MCInit /\ [][MCNext]_allVars /\ MCFairness

(* PolicyStore: a policy that is gone is inactive in the end.              *)
GoneBecomesInactive == Store!GoneBecomesInactive
=============================================================================

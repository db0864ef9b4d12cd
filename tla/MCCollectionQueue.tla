------------------------- MODULE MCCollectionQueue -------------------------
(***************************************************************************)
(* Small instances of CollectionQueue for TLC.  One run explores several   *)
(* companies: the processes that act in a behaviour.                       *)
(***************************************************************************)
EXTENDS CollectionQueue, TLC

CONSTANTS Companies,  \* sets of processes
          Calm,       \* the companies that meet no fault
          Careful     \* the companies whose faults lose no run
VARIABLE company

\* Runs and workers are interchangeable: no definition names one of them.
Symmetry == Permutations(Runs) \cup Permutations(Workers)

Losing == \/ \E w \in Workers : HardTimeLimit(w) \/ Raise(w)
          \/ \E c \in Clients : ClientLost(c)

CompanyInit == Init /\ company \in Companies
CompanyNext == /\ Next
               /\ \A p \in Procs \ company : pc'[p] = "idle"
               /\ company \in Calm => faults' = 0
               /\ company \in Careful => ~Losing
               /\ UNCHANGED company
CompanySpec == CompanyInit /\ [][CompanyNext]_<<vars, company>>

CompanyFairness ==
  /\ \A c \in Clients : WF_vars(ClientStep(c) \/ Execution(c))
  /\ \A w \in Workers :
       /\ WF_vars(WorkerStep(w) \/ Execution(w))
       /\ WF_vars(w \in company /\ \E m \in Messages : Deliver(w, m))
FairCompanySpec == CompanySpec /\ CompanyFairness

(* With no fault but the loss of workers every run closes.                 *)
EveryCarefulRunCloses == company \in Careful => EveryRunCloses

(* A lost run is replaced if an administrator keeps asking and the clock   *)
(* runs; the other properties of the run do not assume that.               *)
LostRunIsReplacedInTime == company \notin Careful /\ Recovery => LostRunIsReplaced
=============================================================================

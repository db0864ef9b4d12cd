------------------------- MODULE PolicyStoreProofs -------------------------
(***************************************************************************)
(* Proofs about PolicyStore, for every value of its constants: rows never  *)
(* regress, only a proven absence ends a policy, and an activation is      *)
(* whole.                                                                  *)
(***************************************************************************)
EXTENDS PolicyStore, FiniteSetTheorems, TLAPS

-----------------------------------------------------------------------------
(* The inductive invariant *)

Pcs == {"idle", "upserting", "imported", "marking",
        "installing", "inserting", "recorded", "activated"}
Absence == {"imported", "marking"}                \* of an import, after its batch
Switching == {"inserting", "recorded", "activated"}  \* of an installation, after its rows

StoreForm ==
  /\ table \in [Policy -> Row \cup {Absent}]
  /\ installed \in [Version -> Release \cup {None}]
  /\ pc \in [Proc -> Pcs]
  /\ job = [i \in Proc |-> job[i]]
  /\ todo = [i \in Proc |-> todo[i]]
  /\ old = [i \in Proc |-> old[i]]
  /\ pending = [i \in Proc |-> pending[i]]
  /\ listing \in [Source -> SUBSET Policy]

(* What a process wrote are rows, which differ from what anyone else wrote *)
(* and are not older than what is committed; only a mark is inactive.      *)
PendingInv(i) ==
  /\ pending[i] \in [DOMAIN pending[i] -> Row]
  /\ DOMAIN pending[i] \subseteq Policy
  /\ pc[i] \in {"idle", "imported"} => DOMAIN pending[i] = {}
  /\ \A j \in Proc \ {i} : DOMAIN pending[i] \cap DOMAIN pending[j] = {}
  /\ \A p \in DOMAIN pending[i] :
       /\ table[p].there => table[p].seen <= pending[i][p].seen
       /\ pc[i] # "marking" => ~pending[i][p].inactive

(* What an import works on: a batch, then the identities of a complete and *)
(* committed one without invalid records; it marks only rows which that    *)
(* one did not observe and which were not published when it began to.      *)
ImportInv(i) ==
  /\ pc[i] = "upserting" => job[i].content \in Content /\ job[i].at \in Time
  /\ pc[i] \in Absence =>
       i \in Importer /\ job[i].complete /\ ~job[i].invalid /\ ~job[i].dry
  /\ pc[i] = "marking" =>
       \A p \in todo[i] \cup DOMAIN pending[i] :
         /\ p \in Policy /\ table[p].there
         /\ SourceOf[p] = job[i].source /\ p \notin job[i].observed \cup job[i].published

(* An installation has written, or is still to write, the whole artifact.  *)
InstallInv(i) ==
  /\ pc[i] \in Switching \cup {"installing"} =>
       /\ i \in Installer /\ job[i] \in Release
       /\ \A p \in DOMAIN pending[i] :
            p \in DOMAIN Artifact[job[i]] /\ pending[i][p].content = Artifact[job[i]][p]
  /\ pc[i] = "installing" => todo[i] \cup DOMAIN pending[i] = DOMAIN Artifact[job[i]]
  /\ pc[i] \in Switching => DOMAIN Artifact[job[i]] \subseteq DOMAIN pending[i]

(* One installation is active, and one installer at a time is about to     *)
(* change which.                                                           *)
After(i) == (active \ old[i]) \cup {VersionOf[job[i]]}
SwitchInv(i) ==
  pc[i] = "activated" =>
    /\ OneActive(After(i))
    /\ \A j \in Installer \ {i} : pc[j] # "activated"

ProcInv(i) == PendingInv(i) /\ ImportInv(i) /\ InstallInv(i) /\ SwitchInv(i)

StoreInv ==
  /\ StoreForm
  /\ OneActive(active)
  /\ \A i \in Proc : ProcInv(i)

-----------------------------------------------------------------------------
(* Rows *)

LEMMA LaterOfTwo ==
  ASSUME NEW s \in Nat, NEW t \in Nat
  PROVE  Later(s, t) \in {s, t} /\ s <= Later(s, t)
  BY DEF Later

LEMMA UpsertedRow ==
  ASSUME NEW row \in Row \cup {Absent}, NEW content \in Content, NEW at \in Time
  PROVE  /\ Upserted(row, content, at) \in Row
         /\ Upserted(row, content, at).content = content
         /\ ~Upserted(row, content, at).inactive
         /\ row.there => row.seen <= Upserted(row, content, at).seen
<1>1. Time \subseteq Nat
  BY StoreAssumption
<1>2. CASE row = Absent
  <2>1. ~row.there
    BY <1>2 DEF Absent
  <2>2. Upserted(row, content, at) = [there |-> TRUE, content |-> content, inactive |-> FALSE, seen |-> at]
    BY <2>1 DEF Upserted
  <2> QED
    BY <2>1, <2>2 DEF Row
<1>3. CASE row \in Row
  <2>1. row.there /\ row.seen \in Time
    BY <1>3 DEF Row
  <2> DEFINE seen == Later(row.seen, at)
  <2>2. seen \in Time /\ row.seen <= seen
    BY <1>1, <2>1, LaterOfTwo
  <2>3. Upserted(row, content, at) = [there |-> TRUE, content |-> content, inactive |-> FALSE, seen |-> seen]
    BY <2>1 DEF Upserted
  <2> HIDE DEF seen
  <2> QED
    BY <2>2, <2>3 DEF Row
<1> QED
  BY <1>2, <1>3

LEMMA MarkedRow ==
  ASSUME NEW row \in Row
  PROVE  /\ [row EXCEPT !.inactive = TRUE] \in Row
         /\ [row EXCEPT !.inactive = TRUE].seen = row.seen
  BY DEF Row

LEMMA StoredRow ==
  ASSUME NEW row \in Row \cup {Absent}, row.there
  PROVE  row \in Row
  BY DEF Absent

LEMMA SeenIsTime == ASSUME NEW row \in Row PROVE row.seen \in Nat /\ row.there
  BY StoreAssumption DEF Row

-----------------------------------------------------------------------------
(* Steps of one process *)

OthersStay(i) ==
  \A q \in Proc \ {i} :
    /\ pc'[q] = pc[q] /\ job'[q] = job[q] /\ todo'[q] = todo[q] /\ old'[q] = old[q]
    /\ pending'[q] = pending[q]

(* What another has written and not committed is not touched. *)
LeavesLocked(i, q) ==
  /\ DOMAIN pending'[i] \cap DOMAIN pending[q] = {}
  /\ \A p \in DOMAIN pending[q] : table'[p] = table[p]
  /\ \A p \in Policy : table[p].there => table'[p].there

LeavesSwitch(i, q) ==
  pc[q] = "activated" => active' = active /\ (i \in Installer => pc'[i] # "activated")

LEMMA OtherKeeps ==
  ASSUME NEW i \in Proc, NEW q \in Proc \ {i}, StoreInv,
         OthersStay(i), LeavesLocked(i, q), LeavesSwitch(i, q)
  PROVE  ProcInv(q)'
<1>1. ProcInv(q)
  BY DEF StoreInv
<1>2. /\ pc'[q] = pc[q] /\ job'[q] = job[q] /\ todo'[q] = todo[q] /\ old'[q] = old[q]
      /\ pending'[q] = pending[q]
  BY DEF OthersStay
<1>3. PendingInv(q)'
  <2>1. \A j \in Proc \ {q} : DOMAIN pending[q] \cap DOMAIN pending'[j] = {}
    <3> TAKE j \in Proc \ {q}
    <3>1. CASE j = i
      BY <3>1 DEF LeavesLocked
    <3>2. CASE j # i
      BY <1>1, <3>2 DEF OthersStay, ProcInv, PendingInv
    <3> QED
      BY <3>1, <3>2
  <2>2. \A p \in DOMAIN pending[q] : table'[p] = table[p]
    BY DEF LeavesLocked
  <2> QED
    BY <1>1, <1>2, <2>1, <2>2 DEF ProcInv, PendingInv
<1>4. ImportInv(q)'
  BY <1>1, <1>2 DEF ProcInv, ImportInv, LeavesLocked
<1>5. InstallInv(q)'
  BY <1>1, <1>2 DEF ProcInv, InstallInv
<1>6. SwitchInv(q)'
  <2> SUFFICES ASSUME pc[q] = "activated"
               PROVE  /\ OneActive(After(q)')
                      /\ \A j \in Installer \ {q} : pc'[j] # "activated"
    BY <1>2 DEF SwitchInv, OneActive
  <2>1. After(q)' = After(q)
    BY <1>2 DEF LeavesSwitch, After
  <2>2. OneActive(After(q)) /\ \A j \in Installer \ {q} : pc[j] # "activated"
    BY <1>1 DEF ProcInv, SwitchInv
  <2>3. \A j \in Installer \ {q} : pc'[j] # "activated"
    BY <2>2 DEF OthersStay, LeavesSwitch, Proc
  <2> QED
    BY <2>1, <2>2, <2>3
<1> QED
  BY <1>3, <1>4, <1>5, <1>6 DEF ProcInv

(* A step that commits nothing. *)
LEMMA StepKeeps ==
  ASSUME NEW i \in Proc, StoreInv, StoreForm', OthersStay(i), ProcInv(i)',
         table' = table, active' = active,
         pc'[i] = "activated" => \A q \in Installer \ {i} : pc[q] # "activated"
  PROVE  StoreInv'
<1>1. ASSUME NEW q \in Proc \ {i} PROVE ProcInv(q)'
  <2>1. LeavesLocked(i, q)
    <3>1. DOMAIN pending'[i] \cap DOMAIN pending'[q] = {}
      BY DEF ProcInv, PendingInv
    <3> QED
      BY <3>1 DEF LeavesLocked, OthersStay
  <2>2. LeavesSwitch(i, q)
    <3>1. pc[q] = "activated" => q \in Installer
      BY DEF StoreInv, ProcInv, InstallInv, Switching
    <3> QED
      BY <3>1 DEF LeavesSwitch
  <2> QED
    BY <2>1, <2>2, OtherKeeps
<1>2. OneActive(active)'
  BY DEF StoreInv, OneActive
<1> QED
  BY <1>1, <1>2 DEF StoreInv

LEMMA NothingWritten ==
  DOMAIN <<>> = {} /\ <<>> \in [{} -> Row]
  OBVIOUS

(* The end of a job, with or without what it wrote.                        *)
LEMMA FinishKeeps ==
  ASSUME NEW i \in Proc, StoreInv, Finish(i), Discard(i),
         UNCHANGED table \/ Publish(i),
         installed' \in [Version -> Release \cup {None}], UNCHANGED listing,
         OneActive(active'), active' # active => pc[i] = "activated"
  PROVE  StoreInv'
<1>1. /\ pc' = [pc EXCEPT ![i] = "idle"] /\ job' = [job EXCEPT ![i] = None]
      /\ todo' = [todo EXCEPT ![i] = {}] /\ old' = [old EXCEPT ![i] = {}]
      /\ pending' = [pending EXCEPT ![i] = <<>>]
  BY DEF Finish, Goto, Discard
<1>2. StoreForm
  BY DEF StoreInv
<1>3. pc'[i] = "idle" /\ pending'[i] = <<>> /\ OthersStay(i)
  BY <1>1, <1>2 DEF StoreForm, OthersStay
<1>4. \A p \in Policy : table'[p] = table[p] \/ (p \in DOMAIN pending[i] /\ table'[p] = pending[i][p])
  BY DEF Publish, Seen
<1>5. StoreForm'
  <2>1. table' \in [Policy -> Row \cup {Absent}]
    <3>1. \A p \in DOMAIN pending[i] : pending[i][p] \in Row
      BY DEF StoreInv, ProcInv, PendingInv
    <3>2. \A p \in Policy : table'[p] \in Row \cup {Absent}
      BY <1>2, <1>4, <3>1 DEF StoreForm
    <3>3. table' = [p \in Policy |-> table'[p]]
      BY <1>2 DEF StoreForm, Publish
    <3> QED
      BY <3>2, <3>3
  <2>2. pc' \in [Proc -> Pcs]
    BY <1>1, <1>2 DEF StoreForm, Pcs
  <2>3. /\ job' = [q \in Proc |-> job'[q]] /\ todo' = [q \in Proc |-> todo'[q]]
        /\ old' = [q \in Proc |-> old'[q]] /\ pending' = [q \in Proc |-> pending'[q]]
    BY <1>1, <1>2 DEF StoreForm
  <2> QED
    BY <1>2, <2>1, <2>2, <2>3 DEF StoreForm
<1>6. ProcInv(i)'
  BY <1>3, NothingWritten DEF ProcInv, PendingInv, ImportInv, InstallInv, SwitchInv, Absence, Switching
<1>7. ASSUME NEW q \in Proc \ {i} PROVE ProcInv(q)'
  <2>1. PendingInv(q) /\ InstallInv(q)
    BY DEF StoreInv, ProcInv
  <2>2. LeavesLocked(i, q)
    <3>1. \A p \in DOMAIN pending[i] : pending[i][p].there
      BY SeenIsTime DEF StoreInv, ProcInv, PendingInv
    <3> QED
      BY <1>3, <1>4, <2>1, <3>1, NothingWritten DEF LeavesLocked, PendingInv
  <2>3. LeavesSwitch(i, q)
    <3>1. pc[q] = "activated" => q \in Installer
      BY <2>1 DEF InstallInv, Switching
    <3>2. pc[i] = "activated" => i \in Installer /\ \A j \in Installer \ {i} : pc[j] # "activated"
      BY DEF StoreInv, ProcInv, InstallInv, SwitchInv, Switching
    <3> QED
      BY <1>3, <3>1, <3>2 DEF LeavesSwitch
  <2> QED
    BY <1>3, <2>2, <2>3, OtherKeeps
<1> QED
  BY <1>5, <1>6, <1>7 DEF StoreInv

-----------------------------------------------------------------------------
(* Writes *)

(* A row is written by a process, while nobody else holds it: what the     *)
(* process wrote before is still there, and it has one row more.           *)
LEMMA WriteKeeps ==
  ASSUME NEW i \in Proc, NEW p \in Policy, NEW row \in Row, StoreInv,
         ~LockedFor(i, p), Write(i, p, row),
         table[p].there => table[p].seen <= row.seen,
         pc[i] # "marking" => ~row.inactive,
         pc[i] \notin {"idle", "imported"}, UNCHANGED <<table, pc>>
  PROVE  /\ PendingInv(i)'
         /\ DOMAIN pending'[i] = DOMAIN pending[i] \cup {p}
         /\ pending'[i][p] = row
         /\ \A q \in DOMAIN pending[i] \ {p} : pending'[i][q] = pending[i][q]
         /\ \A j \in Proc \ {i} : pending'[j] = pending[j]
         /\ pending' = [j \in Proc |-> pending'[j]]
<1>1. pending = [j \in Proc |-> pending[j]] /\ PendingInv(i)
  BY DEF StoreInv, StoreForm, ProcInv
<1>2. /\ pending'[i] = [q \in DOMAIN pending[i] \cup {p} |-> IF q = p THEN row ELSE pending[i][q]]
      /\ \A j \in Proc \ {i} : pending'[j] = pending[j]
      /\ pending' = [j \in Proc |-> pending'[j]]
  BY <1>1 DEF Write
<1>3. /\ DOMAIN pending'[i] = DOMAIN pending[i] \cup {p}
      /\ pending'[i][p] = row
      /\ \A q \in DOMAIN pending[i] \ {p} : pending'[i][q] = pending[i][q]
      /\ pending'[i] = [q \in DOMAIN pending'[i] |-> pending'[i][q]]
  BY <1>2
<1>4. pending'[i] \in [DOMAIN pending'[i] -> Row]
  <2>1. \A q \in DOMAIN pending'[i] : pending'[i][q] \in Row
    BY <1>1, <1>3 DEF PendingInv
  <2> QED
    BY <1>3, <2>1
<1>5. \A j \in Proc \ {i} : DOMAIN pending'[i] \cap DOMAIN pending'[j] = {}
  BY <1>1, <1>2, <1>3 DEF PendingInv, LockedFor
<1>6. \A q \in DOMAIN pending'[i] :
        /\ table[q].there => table[q].seen <= pending'[i][q].seen
        /\ pc[i] # "marking" => ~pending'[i][q].inactive
  BY <1>1, <1>3 DEF PendingInv
<1>7. PendingInv(i)'
  BY <1>1, <1>3, <1>4, <1>5, <1>6 DEF PendingInv
<1> QED
  BY <1>2, <1>3, <1>7

(* One more row of a batch or a release. *)
LEMMA UpsertKeeps ==
  ASSUME NEW i \in Proc, NEW p \in Policy, StoreInv,
         NEW content \in Content, NEW at \in Time,
         pc[i] \in {"upserting", "installing"}, p \in todo[i],
         ~LockedFor(i, p), Write(i, p, Upserted(table[p], content, at)),
         pc[i] = "installing" => p \in DOMAIN Artifact[job[i]] /\ content = Artifact[job[i]][p],
         todo' = [todo EXCEPT ![i] = @ \ {p}],
         UNCHANGED <<table, installed, active, pc, job, old, listing>>
  PROVE  StoreInv'
<1> DEFINE row == Upserted(table[p], content, at)
<1>1. StoreForm /\ ProcInv(i)
  BY DEF StoreInv
<1>2. row \in Row /\ row.content = content /\ ~row.inactive
      /\ (table[p].there => table[p].seen <= row.seen)
  BY <1>1, UpsertedRow DEF StoreForm
<1>3. Write(i, p, row)
  OBVIOUS
<1> HIDE DEF row
<1>4. /\ PendingInv(i)'
      /\ DOMAIN pending'[i] = DOMAIN pending[i] \cup {p}
      /\ pending'[i][p] = row
      /\ \A q \in DOMAIN pending[i] \ {p} : pending'[i][q] = pending[i][q]
      /\ \A j \in Proc \ {i} : pending'[j] = pending[j]
      /\ pending' = [j \in Proc |-> pending'[j]]
  BY <1>2, <1>3, WriteKeeps
<1>5. /\ todo'[i] = todo[i] \ {p}
      /\ \A j \in Proc \ {i} : todo'[j] = todo[j]
      /\ todo' = [j \in Proc |-> todo'[j]]
  BY <1>1 DEF StoreForm
<1>6. StoreForm'
  BY <1>1, <1>4, <1>5 DEF StoreForm
<1>7. ImportInv(i)'
  BY <1>1 DEF ProcInv, ImportInv, Absence
<1>8. InstallInv(i)'
  <2>1. \A q \in DOMAIN pending'[i] : pc[i] = "installing" =>
          q \in DOMAIN Artifact[job[i]] /\ pending'[i][q].content = Artifact[job[i]][q]
    BY <1>1, <1>2, <1>4 DEF ProcInv, InstallInv
  <2>2. pc[i] = "installing" => todo'[i] \cup DOMAIN pending'[i] = DOMAIN Artifact[job[i]]
    BY <1>1, <1>4, <1>5 DEF ProcInv, InstallInv
  <2>3. pc[i] = "installing" => i \in Installer /\ job[i] \in Release
    BY <1>1 DEF ProcInv, InstallInv
  <2> QED
    BY <2>1, <2>2, <2>3 DEF InstallInv, Switching
<1>9. SwitchInv(i)'
  BY DEF SwitchInv
<1> QED
  BY <1>4, <1>5, <1>6, <1>7, <1>8, <1>9, StepKeeps DEF OthersStay, ProcInv

-----------------------------------------------------------------------------
(* Imports *)

LEMMA InitStore == Init => StoreInv
<1> SUFFICES ASSUME Init PROVE StoreInv
  OBVIOUS
<1>1. StoreForm
  <2>1. listing \in [Source -> SUBSET Policy]
    BY DEF Init, PoliciesOf
  <2> QED
    BY <2>1 DEF Init, StoreForm, Pcs
<1>2. OneActive(active)
  BY FS_EmptySet DEF Init, OneActive
<1>3. \A i \in Proc : ProcInv(i)
  BY NothingWritten DEF Init, ProcInv, PendingInv, ImportInv, InstallInv, SwitchInv, Absence, Switching
<1> QED
  BY <1>1, <1>2, <1>3 DEF StoreInv

(* A process that begins or goes on, and writes nothing.                   *)
LEMMA MoveKeeps ==
  ASSUME NEW i \in Proc, StoreInv, NEW where \in Pcs, Goto(i, where),
         job' = [job EXCEPT ![i] = job'[i]], todo' = [todo EXCEPT ![i] = todo'[i]],
         old' = [old EXCEPT ![i] = old'[i]],
         UNCHANGED <<table, pending, installed, active, listing>>,
         where \in {"idle", "imported"} => DOMAIN pending[i] = {},
         where # "marking" => pc[i] # "marking",
         ImportInv(i)', InstallInv(i)', SwitchInv(i)'
  PROVE  StoreInv'
<1>1. StoreForm /\ ProcInv(i)
  BY DEF StoreInv
<1>2. pc'[i] = where /\ OthersStay(i)
  BY <1>1 DEF StoreForm, Goto, OthersStay
<1>3. StoreForm'
  <2>1. pc' \in [Proc -> Pcs]
    BY <1>1 DEF StoreForm, Goto
  <2>2. /\ job' = [q \in Proc |-> job'[q]] /\ todo' = [q \in Proc |-> todo'[q]]
        /\ old' = [q \in Proc |-> old'[q]]
    BY <1>1 DEF StoreForm
  <2> QED
    BY <1>1, <2>1, <2>2 DEF StoreForm
<1>4. PendingInv(i)'
  BY <1>1, <1>2 DEF ProcInv, PendingInv
<1>5. pc'[i] = "activated" => \A q \in Installer \ {i} : pc[q] # "activated"
  BY <1>2 DEF SwitchInv, OthersStay, Proc
<1> QED
  BY <1>2, <1>3, <1>4, <1>5, StepKeeps DEF ProcInv

LEMMA ImportBegins ==
  ASSUME NEW i \in Importer, NEW s \in Source, NEW b \in Batches(s), StoreInv, BeginImport(i, b)
  PROVE  StoreInv'
<1>1. StoreForm /\ ProcInv(i) /\ i \in Proc /\ pc[i] = "idle" /\ DOMAIN pending[i] = {}
  BY DEF StoreInv, ProcInv, PendingInv, BeginImport, Proc
<1>2. UNCHANGED <<table, pending, installed, active, listing>>
  BY DEF BeginImport
<1>3. CASE Accepted(b)
  <2>1. /\ Goto(i, "upserting") /\ job' = [job EXCEPT ![i] = b]
        /\ todo' = [todo EXCEPT ![i] = b.items \ Published] /\ UNCHANGED old
    BY <1>3 DEF BeginImport
  <2>2. pc'[i] = "upserting" /\ job'[i] = b
    BY <1>1, <2>1 DEF StoreForm, Goto
  <2>3. b.content \in Content /\ b.at \in Time
    BY StoreAssumption DEF Batches, BatchOf
  <2>4. ImportInv(i)' /\ InstallInv(i)' /\ SwitchInv(i)'
    BY <2>2, <2>3 DEF ImportInv, InstallInv, SwitchInv, Absence, Switching
  <2>5. /\ job' = [job EXCEPT ![i] = job'[i]] /\ todo' = [todo EXCEPT ![i] = todo'[i]]
        /\ old' = [old EXCEPT ![i] = old'[i]]
    BY <1>1, <2>1 DEF StoreForm
  <2> QED
    BY <1>1, <1>2, <2>1, <2>4, <2>5, MoveKeeps DEF Pcs
<1>4. CASE ~Accepted(b)
  <2>1. Finish(i)
    BY <1>4 DEF BeginImport
  <2>2. pc'[i] = "idle"
    BY <1>1, <2>1 DEF StoreForm, Finish, Goto
  <2>3. ImportInv(i)' /\ InstallInv(i)' /\ SwitchInv(i)'
    BY <2>2 DEF ImportInv, InstallInv, SwitchInv, Absence, Switching
  <2>4. /\ job' = [job EXCEPT ![i] = job'[i]] /\ todo' = [todo EXCEPT ![i] = todo'[i]]
        /\ old' = [old EXCEPT ![i] = old'[i]]
    BY <1>1, <2>1 DEF StoreForm, Finish
  <2> QED
    BY <1>1, <1>2, <2>1, <2>3, <2>4, MoveKeeps DEF Pcs, Finish
<1> QED
  BY <1>3, <1>4

LEMMA ImportRowKeeps ==
  ASSUME NEW i \in Importer, NEW p \in Policy, StoreInv, ImportRow(i, p)
  PROVE  StoreInv'
<1>1. i \in Proc /\ ProcInv(i) /\ pc[i] = "upserting"
  BY DEF StoreInv, Proc, ImportRow
<1>2. job[i].content \in Content /\ job[i].at \in Time
  BY <1>1 DEF ProcInv, ImportInv
<1> DEFINE content == job[i].content
           at == job[i].at
<1>3. /\ p \in todo[i] /\ ~LockedFor(i, p) /\ Write(i, p, Upserted(table[p], content, at))
      /\ todo' = [todo EXCEPT ![i] = @ \ {p}]
      /\ UNCHANGED <<table, installed, active, pc, job, old, listing>>
  BY DEF ImportRow
<1>4. content \in Content /\ at \in Time
  BY <1>2
<1> HIDE DEF content, at
<1> QED
  BY <1>1, <1>3, <1>4, UpsertKeeps

LEMMA ImportCommits ==
  ASSUME NEW i \in Importer, StoreInv, CommitImport(i)
  PROVE  StoreInv'
<1>1. StoreForm /\ ProcInv(i) /\ i \in Proc /\ OneActive(active)
  BY DEF StoreInv, Proc
<1>2. /\ pc[i] = "upserting" /\ todo[i] = {} /\ Discard(i)
      /\ UNCHANGED <<installed, active, listing>>
      /\ UNCHANGED table \/ Publish(i)
  BY DEF CommitImport
<1>3. CASE ~LifecycleIsComplete(job[i])
  <2>1. Finish(i)
    BY <1>3 DEF CommitImport
  <2> QED
    BY <1>1, <1>2, <2>1, FinishKeeps DEF StoreForm
<1>4. CASE LifecycleIsComplete(job[i])
  <2>1. /\ pc' = [pc EXCEPT ![i] = "imported"] /\ job' = [job EXCEPT ![i] = Identities(job[i])]
        /\ UNCHANGED <<todo, old>> /\ pending' = [pending EXCEPT ![i] = <<>>]
    BY <1>4 DEF CommitImport, Goto, Discard
  <2>2. pc'[i] = "imported" /\ pending'[i] = <<>> /\ job'[i] = Identities(job[i]) /\ OthersStay(i)
    BY <1>1, <2>1 DEF StoreForm, OthersStay
  <2>3. \A p \in Policy : table'[p] = table[p] \/ (p \in DOMAIN pending[i] /\ table'[p] = pending[i][p])
    BY <1>2 DEF Publish, Seen
  <2>4. \A p \in DOMAIN pending[i] : pending[i][p] \in Row /\ pending[i][p].there
    BY <1>1, SeenIsTime DEF ProcInv, PendingInv
  <2>5. StoreForm'
    <3>1. \A p \in Policy : table'[p] \in Row \cup {Absent}
      BY <1>1, <2>3, <2>4 DEF StoreForm
    <3>2. table' = [p \in Policy |-> table'[p]]
      BY <1>1, <1>2 DEF StoreForm, Publish
    <3>3. table' \in [Policy -> Row \cup {Absent}]
      BY <3>1, <3>2
    <3>4. pc' \in [Proc -> Pcs]
      BY <1>1, <2>1 DEF StoreForm, Pcs
    <3>5. /\ job' = [q \in Proc |-> job'[q]] /\ pending' = [q \in Proc |-> pending'[q]]
      BY <1>1, <2>1 DEF StoreForm
    <3> QED
      BY <1>1, <1>2, <2>1, <3>3, <3>4, <3>5 DEF StoreForm
  <2>6. job'[i].complete /\ ~job'[i].invalid /\ ~job'[i].dry
    BY <1>4, <2>2 DEF LifecycleIsComplete, Identities
  <2>7. ProcInv(i)'
    BY <2>2, <2>6, NothingWritten DEF ProcInv, PendingInv, ImportInv, InstallInv, SwitchInv, Absence, Switching
  <2>8. ASSUME NEW q \in Proc \ {i} PROVE ProcInv(q)'
    <3>1. PendingInv(q)
      BY DEF StoreInv, ProcInv
    <3>2. LeavesLocked(i, q)
      BY <1>1, <2>2, <2>3, <2>4, <3>1, NothingWritten DEF LeavesLocked, PendingInv
    <3>3. LeavesSwitch(i, q)
      BY <1>2, <2>2 DEF LeavesSwitch
    <3> QED
      BY <1>1, <2>2, <3>2, <3>3, OtherKeeps
  <2> QED
    BY <1>1, <1>2, <2>5, <2>7, <2>8 DEF StoreInv, OneActive
<1> QED
  BY <1>3, <1>4

LEMMA MarkBegins ==
  ASSUME NEW i \in Importer, StoreInv, BeginMark(i)
  PROVE  StoreInv'
<1>1. StoreForm /\ ProcInv(i) /\ i \in Proc
  BY DEF StoreInv, Proc
<1>2. /\ pc[i] = "imported" /\ Goto(i, "marking")
      /\ todo' = [todo EXCEPT ![i] = Missing(job[i])]
      /\ job' = [job EXCEPT ![i] = Updating(job[i])]
      /\ UNCHANGED <<table, pending, installed, active, old, listing>>
  BY DEF BeginMark
<1>3. /\ pc'[i] = "marking" /\ todo'[i] = Missing(job[i]) /\ job'[i] = Updating(job[i])
      /\ DOMAIN pending[i] = {}
  BY <1>1, <1>2 DEF StoreForm, Goto, ProcInv, PendingInv
<1>4. \A p \in Missing(job[i]) :
        /\ p \in Policy /\ table[p].there
        /\ SourceOf[p] = job'[i].source /\ p \notin job'[i].observed \cup job'[i].published
  BY <1>3 DEF Missing, Updating
<1>5. ImportInv(i)'
  <2>1. job'[i].complete /\ ~job'[i].invalid /\ ~job'[i].dry
    BY <1>1, <1>2, <1>3 DEF ProcInv, ImportInv, Absence, Updating
  <2> QED
    BY <1>2, <1>3, <1>4, <2>1 DEF ImportInv
<1>6. InstallInv(i)' /\ SwitchInv(i)'
  BY <1>3 DEF InstallInv, SwitchInv, Switching
<1>7. /\ job' = [job EXCEPT ![i] = job'[i]] /\ todo' = [todo EXCEPT ![i] = todo'[i]]
      /\ old' = [old EXCEPT ![i] = old'[i]]
  BY <1>1, <1>2 DEF StoreForm
<1> QED
  BY <1>1, <1>2, <1>5, <1>6, <1>7, MoveKeeps DEF Pcs

LEMMA MarkRowKeeps ==
  ASSUME NEW i \in Importer, NEW p \in Policy, StoreInv, MarkRow(i, p)
  PROVE  StoreInv'
<1>1. StoreForm /\ ProcInv(i) /\ i \in Proc
  BY DEF StoreInv, Proc
<1>2. /\ pc[i] = "marking" /\ p \in todo[i] /\ ~LockedFor(i, p)
      /\ todo' = [todo EXCEPT ![i] = @ \ {p}]
      /\ UNCHANGED <<table, installed, active, pc, job, old, listing>>
  BY DEF MarkRow
<1>3. /\ todo'[i] = todo[i] \ {p}
      /\ \A j \in Proc \ {i} : todo'[j] = todo[j]
      /\ todo' = [j \in Proc |-> todo'[j]]
  BY <1>1, <1>2 DEF StoreForm
<1>4. /\ PendingInv(i)' /\ DOMAIN pending'[i] \subseteq DOMAIN pending[i] \cup {p}
      /\ \A j \in Proc \ {i} : pending'[j] = pending[j]
      /\ pending' = [j \in Proc |-> pending'[j]]
  <2>1. CASE table[p].inactive
    <3>1. pending' = pending
      BY <2>1 DEF MarkRow
    <3> QED
      BY <1>1, <1>2, <3>1 DEF ProcInv, PendingInv, StoreForm
  <2>2. CASE ~table[p].inactive
    <3> DEFINE row == [table[p] EXCEPT !.inactive = TRUE]
    <3>1. table[p] \in Row
      BY <1>1, <1>2, StoredRow DEF StoreForm, ProcInv, ImportInv
    <3>2. row \in Row /\ row.seen = table[p].seen /\ row.seen \in Nat
      BY <3>1, MarkedRow, SeenIsTime
    <3>3. Write(i, p, row)
      BY <2>2 DEF MarkRow
    <3> HIDE DEF row
    <3>4. table[p].seen <= row.seen
      BY <3>2
    <3> QED
      BY <1>1, <1>2, <3>2, <3>3, <3>4, WriteKeeps
  <2> QED
    BY <2>1, <2>2
<1>5. StoreForm'
  BY <1>1, <1>2, <1>3, <1>4 DEF StoreForm
<1>6. ImportInv(i)'
  BY <1>1, <1>2, <1>3, <1>4 DEF ProcInv, ImportInv, Absence
<1>7. InstallInv(i)' /\ SwitchInv(i)'
  BY <1>2 DEF InstallInv, SwitchInv, Switching
<1> QED
  BY <1>1, <1>2, <1>3, <1>4, <1>5, <1>6, <1>7, StepKeeps DEF OthersStay, ProcInv

LEMMA MarkCommits ==
  ASSUME NEW i \in Importer, StoreInv, CommitMark(i)
  PROVE  StoreInv'
<1>1. i \in Proc /\ StoreForm /\ OneActive(active)
  BY DEF StoreInv, Proc
<1>2. /\ Publish(i) /\ Discard(i) /\ Finish(i) /\ UNCHANGED <<installed, active, listing>>
  BY DEF CommitMark
<1> QED
  BY <1>1, <1>2, FinishKeeps DEF StoreForm

-----------------------------------------------------------------------------
(* Installations *)

LEMMA InstallBegins ==
  ASSUME NEW i \in Installer, NEW r \in Release, StoreInv, BeginInstall(i, r)
  PROVE  StoreInv'
<1>1. StoreForm /\ ProcInv(i) /\ i \in Proc /\ pc[i] = "idle" /\ DOMAIN pending[i] = {}
  BY DEF StoreInv, ProcInv, PendingInv, BeginInstall, Proc
<1>2. /\ Goto(i, "installing") /\ job' = [job EXCEPT ![i] = r]
      /\ todo' = [todo EXCEPT ![i] = DOMAIN Artifact[r]]
      /\ UNCHANGED <<table, pending, installed, active, old, listing>>
  BY DEF BeginInstall
<1>3. pc'[i] = "installing" /\ job'[i] = r /\ todo'[i] = DOMAIN Artifact[r]
  BY <1>1, <1>2 DEF StoreForm, Goto
<1>4. ImportInv(i)' /\ InstallInv(i)' /\ SwitchInv(i)'
  BY <1>1, <1>2, <1>3 DEF ImportInv, InstallInv, SwitchInv, Absence, Switching
<1>5. /\ job' = [job EXCEPT ![i] = job'[i]] /\ todo' = [todo EXCEPT ![i] = todo'[i]]
      /\ old' = [old EXCEPT ![i] = old'[i]]
  BY <1>1, <1>2 DEF StoreForm
<1> QED
  BY <1>1, <1>2, <1>4, <1>5, MoveKeeps DEF Pcs

LEMMA InstallRowKeeps ==
  ASSUME NEW i \in Installer, NEW p \in Policy, StoreInv, InstallRow(i, p)
  PROVE  StoreInv'
<1>1. i \in Proc /\ ProcInv(i) /\ pc[i] = "installing" /\ p \in todo[i]
  BY DEF StoreInv, Proc, InstallRow
<1>2. p \in DOMAIN Artifact[job[i]] /\ Artifact[job[i]][p] \in Content /\ ReleaseTime \in Time
  BY <1>1, StoreAssumption DEF ProcInv, InstallInv
<1> DEFINE content == Artifact[job[i]][p]
<1>3. /\ p \in todo[i] /\ ~LockedFor(i, p) /\ Write(i, p, Upserted(table[p], content, ReleaseTime))
      /\ todo' = [todo EXCEPT ![i] = @ \ {p}]
      /\ UNCHANGED <<table, installed, active, pc, job, old, listing>>
  BY DEF InstallRow
<1>4. content \in Content /\ content = Artifact[job[i]][p]
  BY <1>2
<1> HIDE DEF content
<1> QED
  BY <1>1, <1>2, <1>3, <1>4, UpsertKeeps

(* The memberships are replaced once all the rows are written.             *)
LEMMA MembershipsKeep ==
  ASSUME NEW i \in Installer, StoreInv, ReplaceMemberships(i),
         pc[i] \in {"installing", "inserting"}, pc[i] = "installing" => todo[i] = {},
         UNCHANGED <<table, installed, active, listing>>
  PROVE  StoreInv'
<1>1. StoreForm /\ ProcInv(i) /\ i \in Proc
  BY DEF StoreInv, Proc
<1>2. Goto(i, "recorded") /\ old' = [old EXCEPT ![i] = active] /\ UNCHANGED <<pending, job, todo>>
  BY DEF ReplaceMemberships
<1>3. pc'[i] = "recorded"
  BY <1>1, <1>2 DEF StoreForm, Goto
<1>4. ImportInv(i)' /\ SwitchInv(i)'
  BY <1>3 DEF ImportInv, SwitchInv, Absence
<1>5. InstallInv(i)'
  BY <1>1, <1>2, <1>3 DEF ProcInv, InstallInv, Switching
<1>6. /\ job' = [job EXCEPT ![i] = job'[i]] /\ todo' = [todo EXCEPT ![i] = todo'[i]]
      /\ old' = [old EXCEPT ![i] = old'[i]]
  BY <1>1, <1>2 DEF StoreForm
<1> QED
  BY <1>1, <1>2, <1>4, <1>5, <1>6, MoveKeeps DEF Pcs

LEMMA RollBackKeeps ==
  ASSUME NEW i \in Proc, StoreInv, RollBack(i), UNCHANGED <<table, installed, active, listing>>
  PROVE  StoreInv'
<1>1. StoreForm /\ OneActive(active)
  BY DEF StoreInv
<1> QED
  BY <1>1, FinishKeeps DEF RollBack, StoreForm

LEMMA RecordKeeps ==
  ASSUME NEW i \in Installer, StoreInv, Record(i) \/ Insert(i)
  PROVE  StoreInv'
<1>1. StoreForm /\ ProcInv(i) /\ i \in Proc
  BY DEF StoreInv, Proc
<1>2. UNCHANGED <<table, installed, active, listing>>
  BY DEF Record, Insert
<1>3. CASE RollBack(i)
  BY <1>1, <1>2, <1>3, RollBackKeeps
<1>4. CASE ReplaceMemberships(i)
  <2>1. pc[i] \in {"installing", "inserting"} /\ (pc[i] = "installing" => todo[i] = {})
    BY DEF Record, Insert
  <2> QED
    BY <1>2, <1>4, <2>1, MembershipsKeep
<1>5. CASE pc[i] = "installing" /\ todo[i] = {} /\ Goto(i, "inserting") /\ UNCHANGED <<pending, job, todo, old>>
  <2>1. pc'[i] = "inserting"
    BY <1>1, <1>5 DEF StoreForm, Goto
  <2>2. ImportInv(i)' /\ SwitchInv(i)'
    BY <2>1 DEF ImportInv, SwitchInv, Absence
  <2>3. InstallInv(i)'
    BY <1>1, <1>5, <2>1 DEF ProcInv, InstallInv, Switching
  <2>4. /\ job' = [job EXCEPT ![i] = job'[i]] /\ todo' = [todo EXCEPT ![i] = todo'[i]]
        /\ old' = [old EXCEPT ![i] = old'[i]]
    BY <1>1, <1>5 DEF StoreForm
  <2> QED
    BY <1>1, <1>2, <1>5, <2>2, <2>3, <2>4, MoveKeeps DEF Pcs
<1> QED
  BY <1>3, <1>4, <1>5 DEF Record, Insert

LEMMA ActivateKeeps ==
  ASSUME NEW i \in Installer, StoreInv, Activate(i)
  PROVE  StoreInv'
<1>1. StoreForm /\ ProcInv(i) /\ i \in Proc
  BY DEF StoreInv, Proc
<1>2. /\ pc[i] = "recorded" /\ ~SwitchLocked(i) /\ UNCHANGED <<table, installed, active, listing>>
  BY DEF Activate
<1>3. CASE ~OneActive(After(i))
  BY <1>1, <1>2, <1>3, RollBackKeeps DEF Activate, After
<1>4. CASE OneActive(After(i))
  <2>1. Goto(i, "activated") /\ UNCHANGED <<pending, job, todo, old>>
    BY <1>4 DEF Activate, After
  <2>2. pc'[i] = "activated" /\ \A j \in Installer \ {i} : pc'[j] = pc[j]
    BY <1>1, <2>1 DEF StoreForm, Goto, Proc
  <2>3. ImportInv(i)'
    BY <2>2 DEF ImportInv, Absence
  <2>4. InstallInv(i)'
    BY <1>1, <1>2, <2>1, <2>2 DEF ProcInv, InstallInv, Switching
  <2>5. SwitchInv(i)'
    <3>1. After(i)' = After(i)
      BY <1>2, <2>1 DEF After
    <3>2. \A j \in Installer \ {i} : pc'[j] # "activated"
      BY <1>2, <2>2 DEF SwitchLocked
    <3> QED
      BY <1>4, <3>1, <3>2 DEF SwitchInv, OneActive
  <2>6. /\ job' = [job EXCEPT ![i] = job'[i]] /\ todo' = [todo EXCEPT ![i] = todo'[i]]
        /\ old' = [old EXCEPT ![i] = old'[i]]
    BY <1>1, <2>1 DEF StoreForm
  <2> QED
    BY <1>1, <1>2, <2>1, <2>3, <2>4, <2>5, <2>6, MoveKeeps DEF Pcs
<1> QED
  BY <1>3, <1>4

LEMMA InstallCommits ==
  ASSUME NEW i \in Installer, StoreInv, CommitInstall(i)
  PROVE  StoreInv'
<1>1. StoreForm /\ ProcInv(i) /\ i \in Proc
  BY DEF StoreInv, Proc
<1>2. /\ pc[i] = "activated" /\ Publish(i) /\ Discard(i) /\ Finish(i) /\ UNCHANGED listing
      /\ installed' = [installed EXCEPT ![VersionOf[job[i]]] = job[i]]
      /\ active' = After(i)
  BY DEF CommitInstall, After
<1>3. job[i] \in Release /\ OneActive(After(i))
  BY <1>1, <1>2 DEF ProcInv, InstallInv, SwitchInv, Switching
<1>4. installed' \in [Version -> Release \cup {None}]
  BY <1>1, <1>2, <1>3, StoreAssumption DEF StoreForm
<1>5. OneActive(active')
  BY <1>2, <1>3
<1> QED
  BY <1>1, <1>2, <1>4, <1>5, FinishKeeps

-----------------------------------------------------------------------------
(* Every step *)

LEMMA IdleKeeps ==
  ASSUME StoreInv, UNCHANGED <<table, pending, installed, active, pc, job, todo, old>>,
         listing' \in [Source -> SUBSET Policy]
  PROVE  StoreInv'
<1>1. StoreForm'
  BY DEF StoreInv, StoreForm
<1>2. ASSUME NEW i \in Proc PROVE ProcInv(i)'
  <2>1. PendingInv(i)'
    BY DEF StoreInv, ProcInv, PendingInv
  <2>2. ImportInv(i)'
    BY DEF StoreInv, ProcInv, ImportInv
  <2>3. InstallInv(i)'
    BY DEF StoreInv, ProcInv, InstallInv
  <2>4. SwitchInv(i)'
    BY DEF StoreInv, ProcInv, SwitchInv, After, OneActive
  <2> QED
    BY <2>1, <2>2, <2>3, <2>4 DEF ProcInv
<1> QED
  BY <1>1, <1>2 DEF StoreInv, OneActive

LEMMA SourceKeeps ==
  ASSUME NEW s \in Source, NEW now \in SUBSET PoliciesOf(s), StoreInv, SourceChanges(s, now)
  PROVE  StoreInv'
<1>1. /\ listing' = [listing EXCEPT ![s] = now]
      /\ UNCHANGED <<table, pending, installed, active, pc, job, todo, old>>
  BY DEF SourceChanges
<1>2. listing' \in [Source -> SUBSET Policy]
  BY <1>1 DEF StoreInv, StoreForm, PoliciesOf
<1> QED
  BY <1>1, <1>2, IdleKeeps

LEMMA NextStore == StoreInv /\ [Next]_vars => StoreInv'
<1> SUFFICES ASSUME StoreInv, [Next]_vars PROVE StoreInv'
  OBVIOUS
<1>1. ASSUME NEW i \in Importer, NEW s \in Source, NEW b \in Batches(s), BeginImport(i, b)
      PROVE  StoreInv'
  BY <1>1, ImportBegins
<1>2. ASSUME NEW i \in Importer, ImportStep(i) PROVE StoreInv'
  BY <1>2, ImportRowKeeps, MarkRowKeeps, ImportCommits, MarkBegins, MarkCommits DEF ImportStep
<1>3. ASSUME NEW i \in Installer, NEW r \in Release, BeginInstall(i, r) PROVE StoreInv'
  BY <1>3, InstallBegins
<1>4. ASSUME NEW i \in Installer, InstallStep(i) PROVE StoreInv'
  BY <1>4, InstallRowKeeps, RecordKeeps, ActivateKeeps, InstallCommits
     DEF InstallStep
<1>5. ASSUME NEW i \in Proc, DeadlockVictim(i) \/ Fail(i) PROVE StoreInv'
  <2>1. RollBack(i) /\ UNCHANGED <<table, installed, active, listing>>
    BY <1>5 DEF DeadlockVictim, Fail, RollBack
  <2> QED
    BY <2>1, RollBackKeeps
<1>6. ASSUME NEW s \in Source, NEW now \in SUBSET PoliciesOf(s), SourceChanges(s, now)
      PROVE  StoreInv'
  BY <1>6, SourceKeeps
<1>7. CASE UNCHANGED vars
  <2>1. listing' \in [Source -> SUBSET Policy]
    BY <1>7 DEF StoreInv, StoreForm, vars
  <2> QED
    BY <1>7, <2>1, IdleKeeps DEF vars
<1> QED
  BY <1>1, <1>2, <1>3, <1>4, <1>5, <1>6, <1>7 DEF Next

LEMMA StoreAlways == Spec => []StoreInv
<1> QED
  BY InitStore, NextStore, PTL DEF Spec

-----------------------------------------------------------------------------
(* What a step may do *)

(* The table changes by the commit of one process only.                    *)
LEMMA OnlyCommits ==
  ASSUME StoreInv, [Next]_vars, ~UNCHANGED table
  PROVE  \E i \in Proc : Publish(i)
<1>1. ASSUME NEW i \in Importer, ImportStep(i) PROVE Publish(i)
  BY <1>1 DEF ImportStep, ImportRow, MarkRow, CommitImport, BeginMark, CommitMark
<1>2. ASSUME NEW i \in Installer, InstallStep(i) PROVE Publish(i)
  BY <1>2 DEF InstallStep, InstallRow, Record, Insert, Activate, CommitInstall
<1>3. \A i \in Proc : ~DeadlockVictim(i) /\ ~Fail(i)
  BY DEF DeadlockVictim, Fail
<1>4. /\ \A i \in Importer, s \in Source : \A b \in Batches(s) : ~BeginImport(i, b)
      /\ \A i \in Installer, r \in Release : ~BeginInstall(i, r)
      /\ \A s \in Source : \A now \in SUBSET PoliciesOf(s) : ~SourceChanges(s, now)
      /\ ~UNCHANGED vars
  BY DEF BeginImport, BeginInstall, SourceChanges, vars
<1> QED
  BY <1>1, <1>2, <1>3, <1>4 DEF Next, Proc

(* A row is what it was, or what one process wrote of it.                  *)
LEMMA RowsChangeByCommit ==
  ASSUME StoreInv, [Next]_vars, NEW p \in Policy
  PROVE  \/ table'[p] = table[p]
         \/ \E i \in Proc : p \in DOMAIN pending[i] /\ table'[p] = pending[i][p]
BY OnlyCommits DEF Publish, Seen

(* Whatever imports and installations run at once, last_seen_at of a row   *)
(* never goes back and no row is deleted.                                  *)
THEOREM SeenNeverRegresses == Spec => RowsNeverRegress
<1>1. ASSUME StoreInv, [Next]_vars, NEW p \in Policy, table[p].there
      PROVE  table'[p].there /\ table'[p].seen >= table[p].seen
  <2>1. table[p] \in Row
    BY <1>1, StoredRow DEF StoreInv, StoreForm
  <2>2. table[p].seen \in Nat
    BY <2>1, SeenIsTime
  <2>3. CASE table'[p] = table[p]
    BY <1>1, <2>2, <2>3
  <2>4. ASSUME NEW i \in Proc, p \in DOMAIN pending[i], table'[p] = pending[i][p]
        PROVE  table'[p].there /\ table'[p].seen >= table[p].seen
    <3>1. pending[i][p] \in Row /\ table[p].seen <= pending[i][p].seen
      BY <1>1, <2>4 DEF StoreInv, ProcInv, PendingInv
    <3>2. pending[i][p].there /\ pending[i][p].seen \in Nat
      BY <3>1, SeenIsTime
    <3> QED
      BY <2>2, <2>4, <3>1, <3>2
  <2> QED
    BY <1>1, <2>3, <2>4, RowsChangeByCommit
<1>2. StoreInv /\ [Next]_vars =>
        [\A p \in Policy : table[p].there => table'[p].there /\ table'[p].seen >= table[p].seen]_vars
  BY <1>1
<1> QED
  BY <1>2, StoreAlways, PTL DEF Spec, RowsNeverRegress

(* A policy is made inactive only by an import that, after a complete and  *)
(* committed batch of the policy's source without invalid records, did not *)
(* observe it, and only if it was not published when the UPDATE began.     *)
THEOREM AbsenceIsProven == Spec => OnlyProvenAbsence
<1>1. ASSUME StoreInv, [Next]_vars, NEW p \in Policy,
             table[p].there, ~table[p].inactive, table'[p].inactive
      PROVE  \E i \in Importer :
               /\ pc[i] = "marking"
               /\ job[i].complete /\ ~job[i].invalid /\ ~job[i].dry
               /\ p \in PoliciesOf(job[i].source) \ job[i].observed
               /\ p \notin job[i].published
  <2>1. PICK i \in Proc : p \in DOMAIN pending[i] /\ table'[p] = pending[i][p]
    BY <1>1, RowsChangeByCommit
  <2>2. PendingInv(i) /\ ImportInv(i)
    BY <1>1 DEF StoreInv, ProcInv
  <2>3. pc[i] = "marking"
    BY <1>1, <2>1, <2>2 DEF PendingInv
  <2>4. i \in Importer /\ job[i].complete /\ ~job[i].invalid /\ ~job[i].dry
    BY <2>2, <2>3 DEF ImportInv, Absence
  <2>5. p \in PoliciesOf(job[i].source) \ job[i].observed /\ p \notin job[i].published
    BY <2>1, <2>2, <2>3 DEF ImportInv, PoliciesOf
  <2> QED
    BY <2>3, <2>4, <2>5
<1>2. StoreInv /\ [Next]_vars =>
        [\A p \in Policy :
           table[p].there /\ ~table[p].inactive /\ table'[p].inactive =>
             \E i \in Importer :
               /\ pc[i] = "marking"
               /\ job[i].complete /\ ~job[i].invalid /\ ~job[i].dry
               /\ p \in PoliciesOf(job[i].source) \ job[i].observed
               /\ p \notin job[i].published]_vars
  BY <1>1
<1> QED
  BY <1>2, StoreAlways, PTL DEF Spec, OnlyProvenAbsence

(* The active installation changes by a commit of an installer only.       *)
LEMMA OnlyInstallersSwitch ==
  ASSUME StoreInv, [Next]_vars, active' # active
  PROVE  \E i \in Installer : CommitInstall(i)
<1>1. ASSUME NEW i \in Importer PROVE ~ImportStep(i)
  BY DEF ImportStep, ImportRow, MarkRow, CommitImport, BeginMark, CommitMark
<1>2. ASSUME NEW i \in Installer, InstallStep(i) PROVE CommitInstall(i)
  BY <1>2 DEF InstallStep, InstallRow, Record, Insert, Activate
<1>3. \A i \in Proc : ~DeadlockVictim(i) /\ ~Fail(i)
  BY DEF DeadlockVictim, Fail
<1>4. /\ \A i \in Importer, s \in Source : \A b \in Batches(s) : ~BeginImport(i, b)
      /\ \A i \in Installer, r \in Release : ~BeginInstall(i, r)
      /\ \A s \in Source : \A now \in SUBSET PoliciesOf(s) : ~SourceChanges(s, now)
      /\ ~UNCHANGED vars
  BY DEF BeginImport, BeginInstall, SourceChanges, vars
<1> QED
  BY <1>1, <1>2, <1>3, <1>4 DEF Next

(* A release becomes visible in one step, with every one of its rows and   *)
(* the fields of its artifact, and no other release is active then.        *)
THEOREM ActivationsAreWhole == Spec => ActivationIsWhole
<1>1. ASSUME StoreInv, [Next]_vars, NEW r \in Release,
             installed'[VersionOf[r]] = r, VersionOf[r] \in active' \ active
      PROVE  \A p \in DOMAIN Artifact[r] :
               p \in Visible' /\ table'[p].content = Artifact[r][p]
  <2>1. PICK i \in Installer : CommitInstall(i)
    BY <1>1, OnlyInstallersSwitch
  <2>2. i \in Proc /\ StoreForm /\ ProcInv(i) /\ pc[i] = "activated"
    BY <1>1, <2>1 DEF StoreInv, Proc, CommitInstall
  <2>3. /\ installed' = [installed EXCEPT ![VersionOf[job[i]]] = job[i]]
        /\ active' = After(i) /\ table' = [p \in Policy |-> Seen(i, p)]
    BY <2>1 DEF CommitInstall, After, Publish
  <2>4. VersionOf[r] = VersionOf[job[i]]
    BY <1>1, <2>3 DEF After
  <2>5. VersionOf[r] \in Version /\ r # None
    BY StoreAssumption
  <2>6. job[i] = r
    BY <1>1, <2>2, <2>3, <2>4, <2>5 DEF StoreForm
  <2>7. /\ DOMAIN Artifact[r] = DOMAIN pending[i]
        /\ \A p \in DOMAIN pending[i] : pending[i][p].content = Artifact[r][p]
    BY <2>2, <2>6 DEF ProcInv, InstallInv, Switching
  <2>8. \A p \in DOMAIN pending[i] : pending[i][p].there /\ ~pending[i][p].inactive
    BY <2>2, SeenIsTime DEF ProcInv, PendingInv
  <2>9. \A p \in DOMAIN pending[i] : p \in Policy /\ table'[p] = pending[i][p]
    BY <2>2, <2>3 DEF ProcInv, PendingInv, Seen
  <2>10. DOMAIN Artifact[r] \subseteq Published'
    BY <1>1, <2>5 DEF Published
  <2>11. DOMAIN Artifact[r] \subseteq Visible'
    BY <2>7, <2>8, <2>9, <2>10 DEF Visible
  <2> QED
    BY <2>7, <2>9, <2>11
<1>2. StoreInv /\ [Next]_vars => Cardinality(active') <= 1
  BY NextStore DEF StoreInv, OneActive
<1>3. StoreInv /\ [Next]_vars =>
        [/\ Cardinality(active') <= 1
         /\ \A r \in Release :
              installed'[VersionOf[r]] = r /\ VersionOf[r] \in active' \ active =>
                \A p \in DOMAIN Artifact[r] :
                  /\ p \in Visible'
                  /\ table'[p].content = Artifact[r][p]]_vars
  BY <1>1, <1>2
<1> QED
  BY <1>3, StoreAlways, PTL DEF Spec, ActivationIsWhole
=============================================================================

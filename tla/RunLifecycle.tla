---------------------------- MODULE RunLifecycle ----------------------------
(***************************************************************************)
(* What the collection queue promises about runs, whoever writes the rows  *)
(* and in whatever order: a run is requested once, only moves forward, and *)
(* a source has at most one run that is not closed.  Which terminal status *)
(* a closed run shows is left open.                                        *)
(***************************************************************************)
CONSTANTS Runs, Sources

VARIABLES
  phase,   \* "absent", "queued", "running" or "closed"
  source   \* the source of each requested run

lifecycleVars == <<phase, source>>

Open(s) == {r \in DOMAIN source : source[r] = s /\ phase[r] # "closed"}

Init == /\ phase = [r \in Runs |-> "absent"]
        /\ source = << >>

\* A run is requested for a source that has no open run.
Request(r, s, first) ==
  /\ phase[r] = "absent"
  /\ Open(s) = {}
  /\ phase' = [phase EXCEPT ![r] = first]
  /\ source' = [q \in DOMAIN source \cup {r} |-> IF q = r THEN s ELSE source[q]]

Claim(r) == /\ phase[r] = "queued"
            /\ phase' = [phase EXCEPT ![r] = "running"]
            /\ UNCHANGED source

Close(r) == /\ phase[r] \in {"queued", "running"}
            /\ phase' = [phase EXCEPT ![r] = "closed"]
            /\ UNCHANGED source

Next == \E r \in Runs : \/ \E s \in Sources, first \in {"queued", "running"} :
                             Request(r, s, first)
                        \/ Claim(r)
                        \/ Close(r)

Spec == Init /\ [][Next]_lifecycleVars

=============================================================================

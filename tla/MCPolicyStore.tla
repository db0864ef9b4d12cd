--------------------------- MODULE MCPolicyStore ---------------------------
(***************************************************************************)
(* Small instances of PolicyStore for TLC: two policies of one source,     *)
(* four releases of two versions.                                          *)
(***************************************************************************)
EXTENDS PolicyStore, TLC

CONSTANTS p1, p2, c1, c2

TwoPolicies == p1 :> "s" @@ p2 :> "s"

\* Three releases of one version, two of them without a policy in common,
\* and another version beside them.
FourArtifacts == "r1" :> (p1 :> c1) @@ "r2" :> (p2 :> c1)
              @@ "r3" :> (p1 :> c1 @@ p2 :> c1) @@ "r4" :> (p2 :> c1)
FourVersions == [r \in {"r1", "r3", "r4"} |-> "v1"] @@ "r2" :> "v2"

OneArtifact == "r1" :> (p1 :> c1)
OneVersion == "r1" :> "v1"

Installers == Permutations(Installer)

\* The source may stop listing p2, which releases of both versions hold.
Listed == listing'["s"] \in {{p1, p2}, {p1}}
StoreSpec == Init /\ [][Next /\ Listed]_vars
=============================================================================

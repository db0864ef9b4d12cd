----------------------------- MODULE MCRegional -----------------------------
(***************************************************************************)
(* Small instances of the regional collection for TLC.  The checkpoint     *)
(* file and the Raw documents of a source are written either by browser    *)
(* captures and imports, one process at a time or two at once, or by the   *)
(* HTTP script: the style says which.                                      *)
(***************************************************************************)
EXTENDS RegionalCollection, TLC

CONSTANTS a, b, c, gone, w1, w2

OnePage == << <<a, b>> >>
TwoPages == << <<a, b>>, <<b, c>> >>
GoneBefore == {gone, a}
Listings == {<<1, 2, 3>>, <<1, 3, 2>>, <<1, 2>>, <<1, 2, 3, 4, 5>>, <<2, 3, 1, 4, 5>>}
Both == Permutations({w1, w2})

\* One process at a time takes no file of captures: those are together's.
Filing == \E w \in Writers : task'[w] # Idle /\ task'[w].kind = "file"

\* One process at a time: the audit follows an import, and the second import
\* follows an audit that found a change.
Ordered == /\ audits' = 1 => imports' >= 1
           /\ imports' = 2 => audits' = 1 /\ audit' # {}

\* What two processes at once are kept to: plain captures and one import.
Plain == /\ \A w \in Writers : task'[w] # Idle => task'[w].kind \in {"capture", "file"}
         /\ imports' <= 1 /\ audits' = 0

RegionalInit ==
  /\ CollectionInit
  /\ style # "http" => listing = <<1, 2>>
RegionalNext ==
  /\ CollectionNext
  /\ style = "alone" => Cardinality(AtWork') <= 1 /\ ~Filing /\ Ordered
  /\ style = "together" => Plain
RegionalSpec == RegionalInit /\ [][RegionalNext]_collectionVars
=============================================================================

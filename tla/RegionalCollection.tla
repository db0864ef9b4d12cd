-------------------------- MODULE RegionalCollection --------------------------
(***************************************************************************)
(* The two ways a regional source is collected, over its one checkpoint    *)
(* file and its Raw documents: browser captures and imports of them        *)
(* (RegionalCheckpoint), or the HTTP script (HttpTraversal).  The style    *)
(* says which of them a source has; "http" is the script.                  *)
(***************************************************************************)
EXTENDS RegionalCheckpoint, HttpTraversal

CONSTANT Styles

VARIABLE style

captureVars == <<task, importer, imports, audit, audits, active, crowded>>
collectionVars == <<vars, walkVars, style>>

CollectionInit == style \in Styles /\ Init /\ TraversalInit

ByCaptures == style # "http" /\ Next /\ UNCHANGED walkVars
ByHttp == style = "http" /\ TraversalNext /\ UNCHANGED captureVars
CollectionNext == UNCHANGED style /\ (ByCaptures \/ ByHttp)

CollectionSpec == CollectionInit /\ [][CollectionNext]_collectionVars

(* Both collections have their types, and build no checkpoint they would   *)
(* refuse to load.                                                         *)
TypesOK == TypeOK /\ TraversalTypeOK
=============================================================================

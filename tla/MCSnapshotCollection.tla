------------------------ MODULE MCSnapshotCollection ------------------------
(***************************************************************************)
(* Small instances, for TLC, of the two ways in which Raw documents are    *)
(* collected and replayed: page by page through a list that changes        *)
(* (SnapshotCollection), and with several pages of one policy              *)
(* (SupplementalBundle).  A behaviour is of one of them.                   *)
(***************************************************************************)
EXTENDS SnapshotCollection, SupplementalBundle, TLC

VARIABLE part

Items4 == 1 .. 4
Three == <<1, 2, 3>>

OnDays(a, b) == [ranges |-> {<<a, b>>}, word |-> "unknown"]
InWords(word) == [ranges |-> {}, word |-> word]
Shown(shows, period) == [title |-> TRUE, status |-> Nil, shows |-> shows, period |-> period]
Tabs == {Shown({"youth", "method"}, OnDays(1, 1)), Shown({"youth"}, InWords("closed")),
         Shown({"method"}, OnDays(2, 2)), Shown({"method"}, InWords("open"))}
Foreign == [Shown({"youth", "method"}, InWords("open")) EXCEPT !.title = FALSE]
Kinds == [pages |-> {Shown({"youth", "method"}, OnDays(1, 1)), Foreign,
                     [Shown({"youth", "method"}, OnDays(1, 2)) EXCEPT !.status = "closed"]},
          tabs |-> Tabs,
          cards |-> {[Shown({"youth"}, InWords("unknown")) EXCEPT !.status = "open"],
                     Shown({"method"}, Nil), Foreign}]

BothInit == part \in {"snapshot", "bundle"} /\ Init /\ BundleInit
            /\ (part = "snapshot" => kind = "pages")
BothNext ==
  /\ UNCHANGED part
  /\ \/ part = "snapshot" /\ Next /\ UNCHANGED bundleVars
     \/ part = "bundle" /\ BundleNext /\ UNCHANGED vars
BothSpec == BothInit /\ [][BothNext]_<<part, vars, bundleVars>>
=============================================================================

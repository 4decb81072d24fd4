----------------------------- MODULE MCWorkspace ------------------------------
(* Two connections and one yet to be made, and another database of the first. *)
EXTENDS Workspace, TLC
CONSTANTS c1, c2, c3, d1
MCParent == c1 :> c1 @@ c2 :> c2 @@ c3 :> c3 @@ d1 :> c1

MCVisits == {<<d1, d1>>, <<c2, c1>>}
=============================================================================

------------------------ MODULE MCConnectionManager ------------------------
(* Small instances of ConnectionManager: a postgres connection c1 with one
   runtime database d1, and a connection c2 whose Close waits for nobody. *)
EXTENDS ConnectionManagerRefinement, TLC

CONSTANTS c1, c2, d1

OnlyC1 == [d \in {} |-> c1]
MCParent == d1 :> c1
ReqSymmetry == Permutations(Req)
=============================================================================

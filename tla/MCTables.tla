------------------------------- MODULE MCTables -------------------------------
(* The tables of a database, the folders of the connections and their      *)
(* health share nothing: a session works with one of them.                 *)
EXTENDS Tables, ConnectionFolders, ConnectionHealth
CONSTANTS a, b, c, d
VARIABLE screen

(* Two tables of two rows, with room for a third, on pages of one or two.  *)
MCRows == 1..3
MCFirstRows == {1, 2}
MCFilters == {{2, 3}}

(* Two folders beside each other, nested, one with a second to come, or    *)
(* nothing at all.                                                         *)
MCFolderNames == <<a, b>>
MCCardList == <<c, d>>
NoBoard ==
  [tree |-> [f \in {} |-> Root], order |-> [f \in {} |-> 0], home |-> [f \in {} |-> Root], place |-> [f \in {} |-> 0]]
MCBoards ==
  {NoBoard,
   [tree |-> (a :> Root @@ b :> Root), order |-> (a :> 1 @@ b :> 2),
    home |-> (c :> a @@ d :> Root), place |-> (c :> 1 @@ d :> 0)],
   [tree |-> (a :> Root @@ b :> a), order |-> (a :> 1 @@ b :> 1),
    home |-> (c :> b @@ d :> b), place |-> (c :> 0 @@ d :> 1)],
   [tree |-> (a :> Root), order |-> (a :> 1),
    home |-> (c :> a @@ d :> a), place |-> (c :> 2 @@ d :> 1)]}

(* Two connections, one answer old, or one with a second to come.          *)
Healthy(n) == [status |-> "healthy", checking |-> FALSE, at |-> n]
MCCaches ==
  {[cache |-> (c :> Healthy(1) @@ d :> Healthy(2)), horizon |-> 1, life |-> (c :> "kept" @@ d :> "kept")],
   [cache |-> (c :> Healthy(2)), horizon |-> 0, life |-> (c :> "kept" @@ d :> "unborn")]}

AnyOf(S) == CHOOSE x \in S : TRUE
MCInit ==
  /\ Init /\ FoldersInit /\ HealthInit /\ screen \in {"tables", "folders", "health"}
  /\ screen # "folders" => kept = NoBoard
  /\ screen # "health" => cache = AnyOf(Caches).cache
MCNext ==
  \/ screen = "tables" /\ Next /\ UNCHANGED <<boardVars, healthVars, screen>>
  \/ screen = "folders" /\ FoldersNext /\ UNCHANGED <<vars, healthVars, screen>>
  \/ screen = "health" /\ HealthNext /\ UNCHANGED <<vars, boardVars, screen>>
MCSpec == MCInit /\ [][MCNext]_<<vars, boardVars, healthVars, screen>>
=============================================================================

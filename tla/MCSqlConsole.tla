---------------------------- MODULE MCSqlConsole ----------------------------
(* Small instances of SqlConsole: a console that mounts over a history of    *)
(* before is empty, one that mounts with a draft finds no history; analyze   *)
(* runs what was taken from the history.                                     *)
EXTENDS SqlConsole

MCInit == Init /\ \A t \in Tabs : (log = <<>>) = (tab[t].editor # Empty)
MCNext == Next /\ \A r \in Runs : run'[r].kind = "analyze" => run'[r].command = Foreign
MCSpec == MCInit /\ [][MCNext]_vars
=============================================================================

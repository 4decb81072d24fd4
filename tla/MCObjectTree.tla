----------------------------- MODULE MCObjectTree -----------------------------
(* Two schemas with a table, and three keys on two masters, of which the    *)
(* second comes and goes.                                                  *)
EXTENDS ObjectTree
MCKeyspace == <<"a1", "b1", "a2">>
MCVolatile == {"b1"}
MCPatterns == {{"b1", "a2"}}
MCNodes == {{"a1", "b1"}}
=============================================================================

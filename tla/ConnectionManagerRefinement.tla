-------------------- MODULE ConnectionManagerRefinement --------------------
(* ConnectionManager implements ConnectorCache: locks, calls in flight, dials,
   cooldowns and closes are its own affair. *)
EXTENDS ConnectionManager

Cache == INSTANCE ConnectorCache WITH
  root <- [r \in Req |-> IF key[r] = None THEN None ELSE Root(key[r])],
  served <- [r \in Req |-> IF got[r] = None THEN None ELSE version[got[r]]]

(* What a request is given is what the abstract cache may give it: settings the
   connection had, not replaced when an edit was answered before the request
   began, unless they have been stored again since. *)
ServesLikeTheAbstractCache == Cache!Spec
=============================================================================

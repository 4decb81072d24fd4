--------------------------- MODULE ConnectorCache ---------------------------
(***************************************************************************)
(* What the connection manager promises the handlers, with no cache, lock  *)
(* or dial in sight: a request is served a connector opened with settings  *)
(* its connection really had, and never with settings that were no longer  *)
(* stored when an edit was answered before the request began.  Storing an  *)
(* older copy of the settings makes them current again, for everyone.      *)
(***************************************************************************)
CONSTANTS Req, Conns, Initial, Absent, None

Versions == Req \cup {Initial}

VARIABLES
  config,    \* the settings of each connection, named by who stored them
  written,   \* every version a connection has had
  retired,   \* versions that were replaced when an edit was last answered
  root,      \* the connection a request is about, None before it begins
  before,    \* what was retired when the request began and not restored since
  served     \* the version a request was given

vars == <<config, written, retired, root, before, served>>

Init ==
  /\ config = [c \in Conns |-> Initial]
  /\ written = [c \in Conns |-> {Initial}]
  /\ retired = [c \in Conns |-> {}]
  /\ root = [r \in Req |-> None]
  /\ before = [r \in Req |-> {}]
  /\ served = [r \in Req |-> None]

Ask(r, c) ==
  /\ root[r] = None
  /\ root' = [root EXCEPT ![r] = c]
  /\ before' = [before EXCEPT ![r] = retired[c]]
  /\ UNCHANGED <<config, written, retired, served>>

(* New settings, or none at all after a delete. *)
Edit(w, c) ==
  /\ root[w] = c /\ config[c] # Absent
  /\ \/ /\ w \notin written[c]
        /\ config' = [config EXCEPT ![c] = w]
        /\ written' = [written EXCEPT ![c] = @ \cup {w}]
     \/ /\ config' = [config EXCEPT ![c] = Absent]
        /\ UNCHANGED written
  /\ UNCHANGED <<retired, root, before, served>>

(* A copy read earlier is stored again. *)
PutBack(c, v) ==
  /\ config[c] # Absent /\ v \in written[c]
  /\ config' = [config EXCEPT ![c] = v]
  /\ retired' = [retired EXCEPT ![c] = @ \ {v}]
  /\ before' = [r \in Req |-> IF root[r] = c THEN before[r] \ {v} ELSE before[r]]
  /\ UNCHANGED <<written, root, served>>

(* An edit is answered: only what is stored now may still be given. *)
Answer(c) ==
  /\ retired' = [retired EXCEPT ![c] = written[c] \ {config[c]}]
  /\ UNCHANGED <<config, written, root, before, served>>

Serve(r, v) ==
  /\ root[r] \in Conns /\ served[r] = None
  /\ v \in written[root[r]] \ before[r]
  /\ served' = [served EXCEPT ![r] = v]
  /\ UNCHANGED <<config, written, retired, root, before>>

Next ==
  \/ \E r \in Req, c \in Conns : Ask(r, c) \/ Edit(r, c)
  \/ \E c \in Conns : Answer(c) \/ \E v \in Versions : PutBack(c, v)
  \/ \E r \in Req, v \in Versions : Serve(r, v)

Spec == Init /\ [][Next]_vars
=============================================================================

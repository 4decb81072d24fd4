-------------------------- MODULE ConfigStoreProofs -------------------------
(***************************************************************************)
(* What holds of ConfigStore for any number of handlers, connections,      *)
(* folders and links, and whatever file the process first reads; and of    *)
(* what the browser makes of it: of ConnectionFolders, the list that shows *)
(* those folders, for any boards, gestures and losses, and of Workspace,   *)
(* the tabs on those connections, for any connections, objects and visits. *)
(***************************************************************************)
EXTENDS ConfigStore, ConnectionFolders, Workspace, SubsequenceProofs, FiniteSetTheorems, TLAPS

LEMMA TreeIs ==
  ASSUME NEW t
  PROVE  t \in Trees <=> /\ t = [f \in DOMAIN t |-> t[f]]
                         /\ DOMAIN t \subseteq Folders
                         /\ \A f \in DOMAIN t : t[f] \in Folders \cup {Root}
BY DEF Trees

LEMMA PartialIs ==
  ASSUME NEW D, NEW R, NEW g
  PROVE  g \in Partial(D, R) <=> /\ g = [x \in DOMAIN g |-> g[x]]
                                 /\ DOMAIN g \subseteq D
                                 /\ \A x \in DOMAIN g : g[x] \in R
BY DEF Partial
-----------------------------------------------------------------------------
(* The tree. *)

(* Hanging folders below one that is not within any of them keeps a forest: *)
(* of a set closed upwards in the new tree, what lies outside the moved     *)
(* branches is closed upwards in the old one.                               *)
LEMMA HangKeepsForest ==
  ASSUME NEW t \in Trees, Forest(t),
         NEW M \in SUBSET Folders, NEW p, MayHang(t, M, p)
  PROVE  Forest(Hang(t, M, p))
<1> DEFINE u == Hang(t, M, p)
<1>1. DOMAIN u = DOMAIN t /\ \A f \in DOMAIN t : u[f] = IF f \in M THEN p ELSE t[f]
  BY DEF Hang
<1>2. ParentsExist(u)
  BY <1>1 DEF Forest, ParentsExist, FolderExists, MayHang
<1>3. ASSUME NEW S \in SUBSET DOMAIN u, NEW g \in S, \A x \in S : u[x] \in S
      PROVE  FALSE
  <2> DEFINE Out == {x \in S : \A f \in M : ~ IsWithinFolder(t, x, f)}
  <2>1. \A f \in M : IsWithinFolder(t, f, f)
    BY DEF IsWithinFolder
  <2>2. \A x \in Out : t[x] \in Out
    <3> SUFFICES ASSUME NEW x \in Out
                 PROVE  t[x] \in Out
      OBVIOUS
    <3>1. x \notin M
      BY <2>1
    <3>2. t[x] \in S
      BY <1>1, <1>3, <3>1
    <3>3. ASSUME NEW f \in M, IsWithinFolder(t, t[x], f)
          PROVE  IsWithinFolder(t, x, f)
      BY <1>1, <3>3 DEF IsWithinFolder
    <3> QED
      BY <3>2, <3>3
  <2>3. Out # {}
    <3>1. CASE \E x \in S : x \in M
      <4>1. p \in S
        BY <1>1, <1>3, <3>1
      <4> QED
        BY <4>1 DEF MayHang
    <3>2. CASE \A x \in S : x \notin M
      <4>1. \A x \in S : t[x] \in S
        BY <1>1, <1>3, <3>2
      <4> QED
        BY <1>1, <4>1 DEF Forest, Acyclic, NeverComesOut
    <3> QED
      BY <3>1, <3>2
  <2>4. Out \in SUBSET DOMAIN t
    BY <1>1
  <2> QED
    BY <2>2, <2>3, <2>4 DEF Forest, Acyclic, NeverComesOut
<1>4. Acyclic(u)
  BY <1>3 DEF Acyclic, NeverComesOut
<1> QED
  BY <1>2, <1>4 DEF Forest

LEMMA AddKeepsForest ==
  ASSUME NEW t \in Trees, Forest(t),
         NEW f \in Folders, f \notin DOMAIN t, NEW p, FolderExists(t, p)
  PROVE  Forest(AddFolder(t, f, p))
<1> DEFINE u == AddFolder(t, f, p)
<1>1. /\ DOMAIN u = DOMAIN t \cup {f}
      /\ u[f] = p
      /\ \A x \in DOMAIN t : u[x] = t[x]
  BY DEF AddFolder
<1>2. ParentsExist(u)
  BY <1>1 DEF Forest, ParentsExist, FolderExists
<1>3. ASSUME NEW S \in SUBSET DOMAIN u, NEW g \in S, \A x \in S : u[x] \in S
      PROVE  FALSE
  <2> DEFINE Old == S \ {f}
  <2>1. \A x \in Old : t[x] \in Old
    BY <1>1, <1>3, FolderAssumption DEF Forest, ParentsExist, FolderExists
  <2>2. Old # {}
    BY <1>1, <1>3, FolderAssumption DEF FolderExists
  <2> QED
    BY <1>1, <2>1, <2>2 DEF Forest, Acyclic, NeverComesOut
<1>4. Acyclic(u)
  BY <1>3 DEF Acyclic, NeverComesOut
<1> QED
  BY <1>2, <1>4 DEF Forest

(* Lifting what a folder held keeps a forest: a set closed upwards without  *)
(* the folder is closed upwards with it.                                    *)
LEMMA RemoveKeepsForest ==
  ASSUME NEW t \in Trees, Forest(t), NEW f \in DOMAIN t
  PROVE  Forest(RemoveFolder(t, f))
<1> DEFINE u == RemoveFolder(t, f)
<1>1. /\ DOMAIN u = DOMAIN t \ {f}
      /\ \A x \in DOMAIN u : u[x] = IF t[x] = f THEN t[f] ELSE t[x]
  BY DEF RemoveFolder, Lifted
<1>2. t[f] # f
  <2>1. SUFFICES ASSUME t[f] = f
                 PROVE  NeverComesOut(t, f)
    BY DEF Forest, Acyclic
  <2> QED
    BY <2>1, {f} \in SUBSET DOMAIN t DEF NeverComesOut
<1>3. ParentsExist(u)
  BY <1>1, <1>2 DEF Forest, ParentsExist, FolderExists
<1>4. ASSUME NEW S \in SUBSET DOMAIN u, NEW g \in S, \A x \in S : u[x] \in S
      PROVE  FALSE
  <2>1. CASE \E x \in S : t[x] = f
    <3> DEFINE With == S \cup {f}
    <3>1. t[f] \in S
      BY <1>1, <1>4, <2>1
    <3>2. \A x \in With : t[x] \in With
      BY <1>1, <1>4, <3>1
    <3>3. With \in SUBSET DOMAIN t
      BY <1>1
    <3> QED
      BY <3>2, <3>3 DEF Forest, Acyclic, NeverComesOut
  <2>2. CASE \A x \in S : t[x] # f
    <3>1. \A x \in S : t[x] \in S
      BY <1>1, <1>4, <2>2
    <3> QED
      BY <1>1, <1>4, <3>1 DEF Forest, Acyclic, NeverComesOut
  <2> QED
    BY <2>1, <2>2
<1>5. Acyclic(u)
  BY <1>4 DEF Acyclic, NeverComesOut
<1> QED
  BY <1>3, <1>5 DEF Forest

(* Mending one folder finds it and loses no other. *)
LEMMA NormalizeFinds ==
  ASSUME NEW t \in Trees, NEW f \in DOMAIN t
  PROVE  /\ ~ IsLost(NormalizeFolder(t, f), f)
         /\ \A g \in DOMAIN t : ~ IsLost(t, g) => ~ IsLost(NormalizeFolder(t, f), g)
<1> DEFINE u == NormalizeFolder(t, f)
<1>1. /\ DOMAIN u = DOMAIN t
      /\ u[f] = IF IsLost(t, f) THEN Root ELSE t[f]
      /\ \A x \in DOMAIN t \ {f} : u[x] = t[x]
  BY DEF NormalizeFolder, Trees
<1>2. Root \notin DOMAIN t
  BY FolderAssumption DEF Trees
<1>3. ASSUME NEW g \in DOMAIN t, NeverComesOut(u, g)
      PROVE  NeverComesOut(t, g) /\ (g = f => u[f] = t[f])
  <2>1. PICK S \in SUBSET DOMAIN u : g \in S /\ \A x \in S : u[x] \in S
    BY <1>3 DEF NeverComesOut
  <2>2. \A x \in S : u[x] = t[x]
    BY <1>1, <1>2, <2>1
  <2>3. NeverComesOut(t, g)
    BY <1>1, <2>1, <2>2 DEF NeverComesOut
  <2> QED
    BY <1>1, <2>1, <2>2, <2>3
<1>4. ~ IsLost(u, f)
  <2>1. FolderExists(u, u[f])
    BY <1>1 DEF IsLost, FolderExists
  <2>2. ~ NeverComesOut(u, f)
    <3> SUFFICES ASSUME NeverComesOut(u, f)
                 PROVE  FALSE
      OBVIOUS
    <3>1. NeverComesOut(t, f) /\ u[f] = t[f]
      BY <1>3
    <3>2. u[f] = Root
      BY <1>1, <3>1 DEF IsLost
    <3> QED
      BY <1>1, <1>2, <3>2 DEF NeverComesOut
  <2> QED
    BY <2>1, <2>2 DEF IsLost
<1>5. ASSUME NEW g \in DOMAIN t, ~ IsLost(t, g)
      PROVE  ~ IsLost(u, g)
  <2>1. FolderExists(u, u[g])
    BY <1>1, <1>5 DEF IsLost, FolderExists
  <2>2. ~ NeverComesOut(u, g)
    BY <1>3, <1>5 DEF IsLost
  <2> QED
    BY <2>1, <2>2 DEF IsLost
<1> QED
  BY <1>4, <1>5
-----------------------------------------------------------------------------
(* The state stays well formed. *)

LEMMA MemoryFits ==
  Memory \in Files <=> /\ tree \in Trees /\ place \in Placements
                       /\ cred \in Partial(Conns, Credentials)
                       /\ links \in Partial(Links, Ends)
                       /\ DOMAIN cred = DOMAIN place
BY DEF Memory, Files

LEMMA NextMemoryFits ==
  Memory' \in Files <=> /\ tree' \in Trees /\ place' \in Placements
                        /\ cred' \in Partial(Conns, Credentials)
                        /\ links' \in Partial(Links, Ends)
                        /\ DOMAIN cred' = DOMAIN place'
BY DEF Memory, Files

LEMMA GotoFits ==
  ASSUME TypeOK, NEW r \in Req, phase = "up", phase' = "up",
         NEW l \in Labels, NEW j, JobFits(l, j), Goto(r, l, j)
  PROVE  /\ pc' \in [Req -> Labels] /\ DOMAIN job' = Req
         /\ \A q \in Req : JobFits(pc'[q], job'[q]) /\ (phase' # "up" => pc'[q] = "idle")
BY DEF TypeOK, Goto

(* What a handler leaves of a well-formed state when the memory it leaves  *)
(* fits and so does what it goes on with.                                  *)
LEMMA HandlerFits ==
  ASSUME TypeOK, NEW r \in Req, phase = "up", UNCHANGED <<phase, todo>>,
         NEW l \in Labels, NEW j, JobFits(l, j), Goto(r, l, j),
         Memory' \in Files, file' \in Files \cup {Torn},
         issued' \subseteq Conns \cup Folders \cup Links,
         saved' \in {"loaded", "saved", "failed"},
         promised' \in [Conns -> {"nothing", "present", "absent"}]
  PROVE  TypeOK'
<1>1. todo' \subseteq DOMAIN tree' /\ (phase' # "loading" => todo' = {})
  BY DEF TypeOK
<1>2. /\ pc' \in [Req -> Labels] /\ DOMAIN job' = Req
      /\ \A q \in Req : JobFits(pc'[q], job'[q]) /\ (phase' # "up" => pc'[q] = "idle")
  BY GotoFits
<1> QED
  BY <1>1, <1>2 DEF TypeOK

(* The same for a handler that changes the memory and has it to save. *)
LEMMA ChangeFits ==
  ASSUME TypeOK, NEW r \in Req, NEW l, NEW j \in Answers, Changes(r, l, j),
         Memory' \in Files,
         issued' \subseteq Conns \cup Folders \cup Links,
         promised' \in [Conns -> {"nothing", "present", "absent"}]
  PROVE  TypeOK'
<1>1. JobFits("changed", j) /\ "changed" \in Labels
  BY DEF JobFits, Labels
<1>2. /\ phase = "up" /\ UNCHANGED <<phase, todo, file, saved>> /\ Goto(r, "changed", j)
  BY DEF Changes, At
<1>3. file' \in Files \cup {Torn} /\ saved' \in {"loaded", "saved", "failed"}
  BY <1>2 DEF TypeOK
<1> QED
  BY <1>1, <1>2, <1>3, HandlerFits

LEMMA NewFits ==
  ASSUME TypeOK, NEW id \in Conns \cup Folders \cup Links, New(id)
  PROVE  issued' \subseteq Conns \cup Folders \cup Links
BY DEF TypeOK, New

LEMMA EmptyFits == Empty.tree \in Trees /\ Empty.place \in Placements
                   /\ Empty.cred \in Partial(Conns, Credentials)
                   /\ Empty.links \in Partial(Links, Ends)
                   /\ DOMAIN Empty.cred = DOMAIN Empty.place /\ DOMAIN Empty.tree = {}
                   /\ DOMAIN Empty.place = {}
<1>1. \A D, R, v : [x \in {} |-> v] \in [{} -> R] /\ {} \in SUBSET D
  OBVIOUS
<1>2. [f \in {} |-> Root] \in Trees
  BY <1>1 DEF Trees
<1>3. \A D, R, v : [x \in {} |-> v] \in Partial(D, R)
  BY <1>1 DEF Partial
<1> QED
  BY <1>2, <1>3 DEF Empty, Placements

LEMMA InitTypeOK == Init => TypeOK
<1> SUFFICES ASSUME Init
             PROVE  TypeOK
  OBVIOUS
<1>1. PICK t \in Trees, p \in Placements, k \in Credentials :
        file = Contents(t, p, k) /\ issued = (Named(t) \cup Named(p)) \ {Root}
  BY DEF Init
<1>2. [c \in DOMAIN p |-> k] \in Partial(Conns, Credentials)
  BY PartialIs DEF Placements
<1>3. [l \in {} |-> None] \in Partial(Links, Ends)
  BY EmptyFits DEF Empty
<1>4. file \in Files
  BY <1>1, <1>2, <1>3 DEF Contents, Files
<1>5. issued \subseteq Conns \cup Folders \cup Links
  BY <1>1, TreeIs, PartialIs DEF Named, Placements
<1>6. Memory \in Files
  BY EmptyFits, MemoryFits DEF Init
<1>7. \A r \in Req : JobFits(pc[r], job[r])
  BY DEF Init, JobFits
<1> QED
  BY <1>4, <1>5, <1>6, <1>7, EmptyFits DEF Init, TypeOK, Labels

LEMMA NextTypeOK == TypeOK /\ [Next]_vars => TypeOK'
<1> SUFFICES ASSUME TypeOK, [Next]_vars
             PROVE  TypeOK'
  OBVIOUS
<1> USE MemoryFits, NextMemoryFits
<1>0. /\ tree \in Trees /\ place \in Placements /\ cred \in Partial(Conns, Credentials)
      /\ links \in Partial(Links, Ends) /\ DOMAIN cred = DOMAIN place
  BY DEF TypeOK
<1>1. CASE Load
  <2>1. Memory' \in Files
    BY <1>1 DEF Load, TypeOK, Files
  <2> QED
    BY <1>1, <2>1 DEF Load, TypeOK
<1>2. ASSUME NEW f \in Folders, Normalize(f)
      PROVE  TypeOK'
  <2>1. tree' \in Trees /\ DOMAIN tree' = DOMAIN tree
    <3>1. tree' = [g \in DOMAIN tree |-> IF g = f /\ IsLost(tree, f) THEN Root ELSE tree[g]]
      BY <1>0, <1>2, TreeIs DEF Normalize, NormalizeFolder
    <3> QED
      BY <1>0, <3>1, TreeIs
  <2>2. Memory' \in Files
    BY <1>0, <1>2, <2>1 DEF Normalize
  <2> QED
    BY <1>2, <2>1, <2>2 DEF Normalize, TypeOK
<1>3. CASE Serve
  <2>1. place' \in Placements /\ DOMAIN place' = DOMAIN place
    BY <1>0, <1>3, PartialIs DEF Serve, Placements
  <2>2. Memory' \in Files
    BY <1>0, <1>3, <2>1 DEF Serve
  <2> QED
    BY <1>3, <2>2 DEF Serve, TypeOK
<1>4. CASE Stop
  <2>1. Memory' \in Files
    BY <1>4, EmptyFits DEF Stop
  <2>2. \A r \in Req : JobFits(pc'[r], job'[r]) /\ pc'[r] = "idle"
    BY <1>4 DEF Stop, JobFits
  <2> QED
    BY <1>4, <2>1, <2>2 DEF Stop, TypeOK, Labels
<1>5. ASSUME NEW r \in Req, Handler(r)
      PROVE  TypeOK'
  <2>1. ASSUME NEW c \in Conns, NEW k \in Credentials, Create(r, c, k)
        PROVE  TypeOK'
    <3>1. place' \in Placements /\ DOMAIN place' = DOMAIN place \cup {c}
      BY <1>0, <2>1, PartialIs DEF Create, Placements
    <3>2. cred' \in Partial(Conns, Credentials) /\ DOMAIN cred' = DOMAIN place \cup {c}
      BY <1>0, <2>1, PartialIs DEF Create
    <3>3. Memory' \in Files
      BY <1>0, <2>1, <3>1, <3>2 DEF Create
    <3>4. Changes(r, "idle", [says |-> "present", conn |-> c]) /\ New(c) /\ UNCHANGED promised
      BY <2>1 DEF Create, Quietly
    <3> QED
      BY <3>3, <3>4, ChangeFits, NewFits DEF Answers, TypeOK
  <2>2. ASSUME NEW c \in Conns, Copy(r, c)
        PROVE  TypeOK'
    <3> DEFINE j == [conn |-> c, place |-> place[c], cred |-> cred[c]]
    <3>1. JobFits("copied", j) /\ "copied" \in Labels
      BY <1>0, <2>2, PartialIs DEF JobFits, Copies, Labels, Copy, Placements
    <3>2. phase = "up" /\ Goto(r, "copied", j) /\ UNCHANGED <<phase, memory, file, todo, issued, saved, promised>>
      BY <2>2 DEF Copy, At
    <3> QED
      BY <1>0, <3>1, <3>2, HandlerFits DEF TypeOK, memory
  <2>3. ASSUME NEW k \in Credentials, StoreCopy(r, k)
        PROVE  TypeOK'
    <3>1. job[r] \in Copies
      BY <2>3 DEF StoreCopy, Changes, At, TypeOK, JobFits
    <3>2. place' \in Placements /\ DOMAIN place' = DOMAIN place
      BY <1>0, <2>3, <3>1, PartialIs DEF StoreCopy, Replaced, Copies, Placements
    <3>3. cred' \in Partial(Conns, Credentials) /\ DOMAIN cred' = DOMAIN cred
      BY <1>0, <2>3, PartialIs DEF StoreCopy, Replaced
    <3>4. Memory' \in Files
      BY <1>0, <2>3, <3>2, <3>3 DEF StoreCopy
    <3>5. Changes(r, "copied", None) /\ UNCHANGED <<issued, promised>>
      BY <2>3 DEF StoreCopy, Quietly
    <3> QED
      BY <3>4, <3>5, ChangeFits DEF Answers, TypeOK
  <2>4. ASSUME UpdateVisibleSchemas(r)
        PROVE  TypeOK'
    <3>1. job[r].cred \in Credentials
      BY <2>4 DEF UpdateVisibleSchemas, TypeOK, JobFits, Copies
    <3> QED
      BY <2>3, <2>4, <3>1 DEF UpdateVisibleSchemas
  <2>5. ASSUME NEW c \in Conns, Delete(r, c)
        PROVE  TypeOK'
    <3>1. place' \in Placements /\ DOMAIN place' = DOMAIN place \ {c}
      BY <1>0, <2>5, PartialIs DEF Delete, Placements
    <3>2. cred' \in Partial(Conns, Credentials) /\ DOMAIN cred' = DOMAIN place \ {c}
      BY <1>0, <2>5, PartialIs DEF Delete, ForgetCredentials
    <3>3. links' \in Partial(Links, Ends)
      BY <1>0, <2>5, PartialIs DEF Delete
    <3>4. Memory' \in Files
      BY <1>0, <2>5, <3>1, <3>2, <3>3 DEF Delete
    <3>5. Changes(r, "idle", [says |-> "absent", conn |-> c]) /\ UNCHANGED issued
      BY <2>5 DEF Delete
    <3>6. promised' \in [Conns -> {"nothing", "present", "absent"}]
      BY <2>5 DEF Delete, TypeOK
    <3> QED
      BY <3>4, <3>5, <3>6, ChangeFits DEF Answers, TypeOK
  <2>6. ASSUME NEW cs \in SUBSET Conns, NEW f \in Folders \cup {Root}, PlaceConnections(r, cs, f)
        PROVE  TypeOK'
    <3>1. place' \in Placements /\ DOMAIN place' = DOMAIN place
      BY <1>0, <2>6, PartialIs DEF PlaceConnections, Placements
    <3>2. Memory' \in Files
      BY <1>0, <2>6, <3>1 DEF PlaceConnections
    <3>3. Changes(r, "idle", None) /\ UNCHANGED <<issued, promised>>
      BY <2>6 DEF PlaceConnections, Quietly
    <3> QED
      BY <3>2, <3>3, ChangeFits DEF Answers, TypeOK
  <2>7. ASSUME NEW f \in Folders, NEW p \in Folders \cup {Root}, CreateFolder(r, f, p)
        PROVE  TypeOK'
    <3>1. tree' \in Trees
      BY <1>0, <2>7, TreeIs DEF CreateFolder, AddFolder
    <3>2. Memory' \in Files
      BY <1>0, <2>7, <3>1 DEF CreateFolder
    <3>3. Changes(r, "idle", None) /\ New(f) /\ UNCHANGED promised
      BY <2>7 DEF CreateFolder, Quietly
    <3> QED
      BY <3>2, <3>3, ChangeFits, NewFits DEF Answers, TypeOK
  <2>8. ASSUME NEW fs \in SUBSET Folders, NEW p \in Folders \cup {Root}, MoveFolders(r, fs, p)
        PROVE  TypeOK'
    <3>1. tree' \in Trees
      BY <1>0, <2>8, TreeIs DEF MoveFolders, Hang
    <3>2. Memory' \in Files
      BY <1>0, <2>8, <3>1 DEF MoveFolders
    <3>3. Changes(r, "idle", None) /\ UNCHANGED <<issued, promised>>
      BY <2>8 DEF MoveFolders, Quietly
    <3> QED
      BY <3>2, <3>3, ChangeFits DEF Answers, TypeOK
  <2>9. ASSUME NEW f \in Folders, DeleteFolder(r, f)
        PROVE  TypeOK'
    <3>1. tree' \in Trees
      BY <1>0, <2>9, TreeIs DEF DeleteFolder, RemoveFolder, Lifted
    <3>2. place' \in Placements /\ DOMAIN place' = DOMAIN place
      BY <1>0, <2>9, TreeIs, PartialIs DEF DeleteFolder, Lifted, Placements
    <3>3. Memory' \in Files
      BY <1>0, <2>9, <3>1, <3>2 DEF DeleteFolder
    <3>4. Changes(r, "idle", None) /\ UNCHANGED <<issued, promised>>
      BY <2>9 DEF DeleteFolder, Quietly
    <3> QED
      BY <3>3, <3>4, ChangeFits DEF Answers, TypeOK
  <2>10. ASSUME NEW c \in Conns, ResolveSource(r, c)
         PROVE  TypeOK'
    <3>1. JobFits("source", c) /\ "source" \in Labels
      BY DEF JobFits, Labels
    <3>2. phase = "up" /\ Goto(r, "source", c) /\ UNCHANGED <<phase, memory, file, todo, issued, saved, promised>>
      BY <2>10 DEF ResolveSource, At
    <3> QED
      BY <1>0, <3>1, <3>2, HandlerFits DEF TypeOK, memory
  <2>11. ASSUME NEW c \in Conns, ResolveTarget(r, c)
         PROVE  TypeOK'
    <3> DEFINE j == [source |-> job[r], target |-> c]
    <3>1. JobFits("resolved", j) /\ "resolved" \in Labels
      BY <2>11 DEF JobFits, Labels, Ends, ResolveTarget, At, TypeOK
    <3>2. phase = "up" /\ Goto(r, "resolved", j) /\ UNCHANGED <<phase, memory, file, todo, issued, saved, promised>>
      BY <2>11 DEF ResolveTarget, At
    <3> QED
      BY <1>0, <3>1, <3>2, HandlerFits DEF TypeOK, memory
  <2>12. ASSUME NEW l \in Links, CreateLink(r, l)
         PROVE  TypeOK'
    <3>1. links' \in Partial(Links, Ends)
      <4>1. job[r] \in Ends
        BY <2>12 DEF CreateLink, Changes, At, TypeOK, JobFits
      <4> QED
        BY <1>0, <2>12, <4>1, PartialIs DEF CreateLink
    <3>2. Memory' \in Files
      BY <1>0, <2>12, <3>1 DEF CreateLink
    <3>3. Changes(r, "resolved", None) /\ New(l) /\ UNCHANGED promised
      BY <2>12 DEF CreateLink, Quietly
    <3> QED
      BY <3>2, <3>3, ChangeFits, NewFits DEF Answers, TypeOK
  <2>13. ASSUME NEW l \in Links, UpdateLink(r, l)
         PROVE  TypeOK'
    <3>1. links' \in Partial(Links, Ends)
      <4>1. job[r] \in Ends
        BY <2>13 DEF UpdateLink, Changes, At, TypeOK, JobFits
      <4>2. links' = [m \in DOMAIN links |-> IF m = l THEN job[r] ELSE links[m]]
        BY <1>0, <2>13, PartialIs DEF UpdateLink
      <4> QED
        BY <1>0, <4>1, <4>2, PartialIs
    <3>2. Memory' \in Files
      BY <1>0, <2>13, <3>1 DEF UpdateLink
    <3>3. Changes(r, "resolved", None) /\ UNCHANGED <<issued, promised>>
      BY <2>13 DEF UpdateLink, Quietly
    <3> QED
      BY <3>2, <3>3, ChangeFits DEF Answers, TypeOK
  <2>14. ASSUME NEW l \in Links, DeleteLink(r, l)
         PROVE  TypeOK'
    <3>1. links' \in Partial(Links, Ends)
      BY <1>0, <2>14, PartialIs DEF DeleteLink
    <3>2. Memory' \in Files
      BY <1>0, <2>14, <3>1 DEF DeleteLink
    <3>3. Changes(r, "idle", None) /\ UNCHANGED <<issued, promised>>
      BY <2>14 DEF DeleteLink, Quietly
    <3> QED
      BY <3>2, <3>3, ChangeFits DEF Answers, TypeOK
  <2>15. CASE Refuse(r)
    <3>1. JobFits("idle", None) /\ "idle" \in Labels
      BY DEF JobFits, Labels
    <3>2. phase = "up" /\ Goto(r, "idle", None) /\ UNCHANGED <<phase, memory, file, todo, issued, saved, promised>>
      BY <2>15 DEF Refuse
    <3> QED
      BY <1>0, <3>1, <3>2, HandlerFits DEF TypeOK, memory
  <2>16. CASE SaveStart(r)
    <3> DEFINE j == [job |-> job[r], data |-> Memory]
    <3>1. JobFits("saving", j) /\ "saving" \in Labels
      BY <2>16 DEF JobFits, Labels, SaveStart, At, TypeOK
    <3>2. phase = "up" /\ Goto(r, "saving", j) /\ file' = Torn /\ UNCHANGED <<phase, memory, todo, issued, saved, promised>>
      BY <2>16 DEF SaveStart, At
    <3> QED
      BY <1>0, <3>1, <3>2, HandlerFits DEF TypeOK, memory
  <2>17. CASE SaveEnd(r)
    <3>1. job[r] \in [job : Answers, data : Files]
      BY <2>17 DEF JobFits, SaveEnd, At, TypeOK
    <3>2. promised' \in [Conns -> {"nothing", "present", "absent"}]
      BY <2>17, <3>1 DEF SaveEnd, Tells, Answers, TypeOK
    <3>3. JobFits("idle", None) /\ "idle" \in Labels
      BY DEF JobFits, Labels
    <3>4. phase = "up" /\ Goto(r, "idle", None) /\ file' = job[r].data /\ saved' = "saved" /\ UNCHANGED <<phase, memory, todo, issued>>
      BY <2>17 DEF SaveEnd, At
    <3> QED
      BY <1>0, <3>1, <3>2, <3>3, <3>4, HandlerFits DEF TypeOK, memory
  <2>18. CASE SaveFails(r)
    <3>1. JobFits("idle", None) /\ "idle" \in Labels
      BY DEF JobFits, Labels
    <3>2. phase = "up" /\ Goto(r, "idle", None) /\ saved' = "failed" /\ UNCHANGED <<phase, memory, file, todo, issued, promised>>
      BY <2>18 DEF SaveFails
    <3> QED
      BY <1>0, <3>1, <3>2, HandlerFits DEF TypeOK, memory
  <2> QED
    BY <1>5, <2>1, <2>2, <2>3, <2>4, <2>5, <2>6, <2>7, <2>8, <2>9, <2>10, <2>11, <2>12,
       <2>13, <2>14, <2>15, <2>16, <2>17, <2>18 DEF Handler, Update
<1>6. CASE UNCHANGED vars
  BY <1>0, <1>6 DEF vars, memory, TypeOK
<1> QED
  BY <1>1, <1>2, <1>3, <1>4, <1>5, <1>6 DEF Next

(* The state is well formed in every reachable state (config.go:59-66). *)
THEOREM StoreTypeCorrect == Spec => []TypeOK
BY InitTypeOK, NextTypeOK, PTL DEF Spec
-----------------------------------------------------------------------------
(* What a handler's step may be. *)

Edits(r) ==
  /\ \E l \in Labels : Changes(r, l, None)
  /\ DOMAIN place' = DOMAIN place /\ DOMAIN tree' \subseteq DOMAIN tree \cup issued'
  /\ issued \subseteq issued' /\ UNCHANGED promised

Looks(r) ==
  /\ phase = "up" /\ UNCHANGED <<phase, memory, file, todo, issued, saved, promised>>
  /\ \E l \in {"idle", "copied", "source", "resolved"} : pc' = [pc EXCEPT ![r] = l]
  /\ pc[r] \in {"idle", "copied", "source", "resolved"}
  /\ \A q \in Req \ {r} : job'[q] = job[q]

LEMMA HandlerKinds ==
  ASSUME TypeOK, NEW r \in Req, Handler(r)
  PROVE  \/ Edits(r) \/ Looks(r)
         \/ \E c \in Conns, k \in Credentials : Create(r, c, k)
         \/ \E c \in Conns : Delete(r, c)
         \/ SaveStart(r) \/ SaveEnd(r) \/ SaveFails(r)
<1>1. ASSUME NEW k, StoreCopy(r, k)
      PROVE  Edits(r)
  BY <1>1 DEF StoreCopy, Replaced, Edits, Quietly, Labels
<1>2. ASSUME NEW c \in Conns, Copy(r, c) \/ ResolveSource(r, c) \/ ResolveTarget(r, c)
      PROVE  Looks(r)
  BY <1>2 DEF Copy, ResolveSource, ResolveTarget, At, Goto, Looks, TypeOK
<1>3. ASSUME Refuse(r)
      PROVE  Looks(r)
  BY <1>3 DEF Refuse, Goto, Looks, TypeOK
<1>4. ASSUME NEW cs, NEW f, PlaceConnections(r, cs, f)
      PROVE  Edits(r)
  BY <1>4 DEF PlaceConnections, Edits, Quietly, Labels
<1>5. ASSUME NEW f, NEW p, CreateFolder(r, f, p)
      PROVE  Edits(r)
  BY <1>5 DEF CreateFolder, AddFolder, New, Edits, Quietly, Labels
<1>6. ASSUME NEW fs, NEW p, MoveFolders(r, fs, p)
      PROVE  Edits(r)
  BY <1>6 DEF MoveFolders, Hang, Edits, Quietly, Labels
<1>7. ASSUME NEW f, DeleteFolder(r, f)
      PROVE  Edits(r)
  BY <1>7 DEF DeleteFolder, RemoveFolder, Edits, Quietly, Labels
<1>8. ASSUME NEW l, CreateLink(r, l) \/ UpdateLink(r, l) \/ DeleteLink(r, l)
      PROVE  Edits(r)
  BY <1>8 DEF CreateLink, UpdateLink, DeleteLink, New, Edits, Quietly, Labels
<1> QED
  BY <1>1, <1>2, <1>3, <1>4, <1>5, <1>6, <1>7, <1>8 DEF Handler, Update, UpdateVisibleSchemas

LEMMA TreeSteps ==
  ASSUME NEW r \in Req, Handler(r)
  PROVE  \/ UNCHANGED <<phase, tree>> /\ phase = "up"
         \/ \E f \in Folders, p \in Folders \cup {Root} : CreateFolder(r, f, p)
         \/ \E fs \in SUBSET Folders, p \in Folders \cup {Root} : MoveFolders(r, fs, p)
         \/ \E f \in Folders : DeleteFolder(r, f)
<1>1. ASSUME NEW c, NEW k, Create(r, c, k) \/ StoreCopy(r, k) \/ Delete(r, c)
      PROVE  UNCHANGED <<phase, tree>> /\ phase = "up"
  BY <1>1 DEF Create, StoreCopy, Delete, Changes, At
<1>2. ASSUME NEW cs, NEW f, PlaceConnections(r, cs, f)
      PROVE  UNCHANGED <<phase, tree>> /\ phase = "up"
  BY <1>2 DEF PlaceConnections, Changes, At
<1>3. ASSUME NEW l, CreateLink(r, l) \/ UpdateLink(r, l) \/ DeleteLink(r, l)
      PROVE  UNCHANGED <<phase, tree>> /\ phase = "up"
  BY <1>3 DEF CreateLink, UpdateLink, DeleteLink, Changes, At
<1>4. ASSUME NEW c, Copy(r, c) \/ ResolveSource(r, c) \/ ResolveTarget(r, c)
      PROVE  UNCHANGED <<phase, tree>> /\ phase = "up"
  BY <1>4 DEF Copy, ResolveSource, ResolveTarget, At, memory
<1>5. ASSUME Refuse(r) \/ SaveStart(r) \/ SaveEnd(r) \/ SaveFails(r)
      PROVE  UNCHANGED <<phase, tree>> /\ phase = "up"
  BY <1>5 DEF Refuse, SaveStart, SaveEnd, SaveFails, At, memory
<1> QED
  BY <1>1, <1>2, <1>3, <1>4, <1>5 DEF Handler, Update, UpdateVisibleSchemas
-----------------------------------------------------------------------------
(* The file and the memory. *)

SaveInv ==
  /\ DOMAIN tree \cup DOMAIN place \subseteq issued
  /\ file # Torn => DOMAIN file.tree \cup DOMAIN file.place \subseteq issued
  /\ \A r \in Req : pc[r] = "saving" => job[r].data = Memory
  /\ phase = "loading" => saved = "loaded"
  /\ SettledFileIsMemory

LEMMA InitSaveInv == Init => SaveInv
<1> SUFFICES ASSUME Init
             PROVE  SaveInv
  OBVIOUS
<1>1. PICK t \in Trees, p \in Placements, k \in Credentials :
        file = Contents(t, p, k) /\ issued = (Named(t) \cup Named(p)) \ {Root}
  BY DEF Init
<1>2. file.tree = t /\ file.place = p
  BY <1>1 DEF Contents
<1>3. DOMAIN t \cup DOMAIN p \subseteq issued
  BY <1>1, TreeIs, PartialIs, FolderAssumption, StoreAssumption DEF Named, Placements
<1> QED
  BY <1>2, <1>3, EmptyFits DEF Init, SaveInv, SettledFileIsMemory

LEMMA NextSaveInv == TypeOK /\ SaveInv /\ [Next]_vars => SaveInv'
<1> SUFFICES ASSUME TypeOK, SaveInv, [Next]_vars
             PROVE  SaveInv'
  OBVIOUS
<1>1. CASE Load
  BY <1>1 DEF Load, SaveInv, SettledFileIsMemory, TypeOK
<1>2. ASSUME NEW f \in Folders, Normalize(f)
      PROVE  SaveInv'
  <2>1. DOMAIN tree' = DOMAIN tree
    BY <1>2, MemoryFits, TreeIs DEF Normalize, NormalizeFolder, TypeOK
  <2>2. \A r \in Req : pc'[r] # "saving"
    BY <1>2 DEF Normalize, TypeOK
  <2> QED
    BY <1>2, <2>1, <2>2 DEF Normalize, SaveInv, SettledFileIsMemory
<1>3. CASE Serve
  <2>1. \A r \in Req : pc'[r] # "saving"
    BY <1>3 DEF Serve, TypeOK
  <2> QED
    BY <1>3, <2>1 DEF Serve, SaveInv, SettledFileIsMemory
<1>4. CASE Stop
  BY <1>4, EmptyFits DEF Stop, SaveInv, SettledFileIsMemory
<1>5. ASSUME NEW r \in Req, Handler(r)
      PROVE  SaveInv'
  <2>1. ASSUME NEW l, NEW j, Changes(r, l, j), issued \subseteq issued',
               DOMAIN tree' \cup DOMAIN place' \subseteq issued'
        PROVE  SaveInv'
    <3>1. \A q \in Req : pc'[q] # "saving"
      BY <2>1 DEF Changes, NobodySaves, Goto, TypeOK
    <3>2. pc'[r] = "changed" /\ phase' = "up" /\ UNCHANGED <<file, saved>>
      BY <2>1 DEF Changes, At, Goto, TypeOK
    <3> QED
      BY <2>1, <3>1, <3>2 DEF SaveInv, SettledFileIsMemory
  <2>2. CASE Edits(r)
    BY <2>1, <2>2 DEF Edits, SaveInv
  <2>3. ASSUME NEW c \in Conns, NEW k \in Credentials, Create(r, c, k)
        PROVE  SaveInv'
    <3>1. DOMAIN place' = DOMAIN place \cup {c} /\ issued' = issued \cup {c} /\ UNCHANGED tree
      BY <2>3 DEF Create, New
    <3> QED
      BY <2>1, <2>3, <3>1 DEF Create, SaveInv
  <2>4. ASSUME NEW c \in Conns, Delete(r, c)
        PROVE  SaveInv'
    <3>1. DOMAIN place' = DOMAIN place \ {c} /\ UNCHANGED <<tree, issued>>
      BY <2>4 DEF Delete
    <3> QED
      BY <2>1, <2>4, <3>1 DEF Delete, SaveInv
  <2>5. CASE Looks(r)
    <3>1. \A q \in Req : /\ pc'[q] = "saving" <=> pc[q] = "saving"
                         /\ pc'[q] = "changed" <=> pc[q] = "changed"
                         /\ pc[q] = "saving" => job'[q] = job[q]
      BY <2>5 DEF Looks, TypeOK
    <3> QED
      BY <2>5, <3>1 DEF Looks, SaveInv, SettledFileIsMemory, Memory, memory
  <2>6. CASE SaveStart(r)
    <3>1. /\ pc'[r] = "saving" /\ job'[r].data = Memory
          /\ \A q \in Req \ {r} : pc'[q] = pc[q] /\ job'[q] = job[q]
      BY <2>6 DEF SaveStart, Goto, TypeOK
    <3>2. Memory' = Memory /\ file' = Torn /\ phase' = "up"
      BY <2>6 DEF SaveStart, At, memory, Memory
    <3> QED
      BY <2>6, <3>1, <3>2 DEF SaveStart, SaveInv, SettledFileIsMemory, memory
  <2>7. CASE SaveEnd(r)
    <3>1. /\ pc'[r] = "idle"
          /\ \A q \in Req \ {r} : pc'[q] = pc[q] /\ job'[q] = job[q]
      BY <2>7 DEF SaveEnd, Goto, TypeOK
    <3>2. Memory' = Memory /\ file' = Memory /\ phase' = "up"
      BY <2>7 DEF SaveEnd, At, memory, Memory, SaveInv
    <3> QED
      BY <2>7, <3>1, <3>2 DEF SaveEnd, SaveInv, SettledFileIsMemory, memory, Memory
  <2>8. CASE SaveFails(r)
    <3>1. /\ pc'[r] = "idle"
          /\ \A q \in Req \ {r} : pc'[q] = pc[q] /\ job'[q] = job[q]
      BY <2>8 DEF SaveFails, Goto, TypeOK
    <3>2. Memory' = Memory /\ phase' = "up"
      BY <2>8 DEF SaveFails, memory, Memory
    <3> QED
      BY <2>8, <3>1, <3>2 DEF SaveFails, SaveInv, SettledFileIsMemory, memory
  <2> QED
    BY <1>5, <2>2, <2>3, <2>4, <2>5, <2>6, <2>7, <2>8, HandlerKinds
<1>6. CASE UNCHANGED vars
  BY <1>6 DEF vars, memory, Memory, SaveInv, SettledFileIsMemory
<1> QED
  BY <1>1, <1>2, <1>3, <1>4, <1>5, <1>6 DEF Next
-----------------------------------------------------------------------------
(* What clients were told. *)

StaysDeleted(j) == j # None /\ j.says = "absent" => j.conn \in issued \ DOMAIN place

AnswersInv ==
  /\ AnswersAreDurable
  /\ \A c \in Conns : promised[c] = "absent" => c \in issued
  /\ \A r \in Req : /\ pc[r] = "changed" => StaysDeleted(job[r])
                    /\ pc[r] = "saving" => StaysDeleted(job[r].job)

LEMMA InitAnswersInv == Init => AnswersInv
BY DEF Init, AnswersInv, AnswersAreDurable

LEMMA NextAnswersInv == TypeOK /\ SaveInv /\ AnswersInv /\ [Next]_vars => AnswersInv'
<1> SUFFICES ASSUME TypeOK, SaveInv, AnswersInv, [Next]_vars
             PROVE  AnswersInv'
  OBVIOUS
<1>1. CASE Load
  <2>1. \A r \in Req : pc'[r] = "idle"
    BY <1>1 DEF Load, TypeOK
  <2> QED
    BY <1>1, <2>1 DEF Load, AnswersInv, AnswersAreDurable
<1>2. ASSUME NEW f \in Folders, Normalize(f)
      PROVE  AnswersInv'
  BY <1>2 DEF Normalize, AnswersInv, AnswersAreDurable, StaysDeleted
<1>3. CASE Serve
  BY <1>3 DEF Serve, AnswersInv, AnswersAreDurable, StaysDeleted
<1>4. CASE Stop
  BY <1>4, EmptyFits DEF Stop, AnswersInv, AnswersAreDurable
<1>5. ASSUME NEW r \in Req, Handler(r)
      PROVE  AnswersInv'
  <2>1. CASE Edits(r)
    <3>1. /\ phase' = "up" /\ phase = "up" /\ UNCHANGED <<file, promised>>
          /\ DOMAIN place' = DOMAIN place /\ issued \subseteq issued'
      BY <2>1 DEF Edits, Changes, At
    <3>2. /\ pc'[r] = "changed" /\ job'[r] = None
          /\ \A q \in Req \ {r} : pc'[q] = pc[q] /\ job'[q] = job[q]
      BY <2>1 DEF Edits, Changes, Goto, TypeOK
    <3> QED
      BY <3>1, <3>2 DEF AnswersInv, AnswersAreDurable, StaysDeleted
  <2>2. ASSUME NEW c \in Conns, NEW k \in Credentials, Create(r, c, k)
        PROVE  AnswersInv'
    <3>1. /\ phase' = "up" /\ phase = "up" /\ UNCHANGED <<file, promised>>
          /\ DOMAIN place' = DOMAIN place \cup {c}
          /\ c \notin issued /\ issued' = issued \cup {c}
      BY <2>2 DEF Create, Changes, At, New, Quietly
    <3>2. /\ pc'[r] = "changed" /\ job'[r] = [says |-> "present", conn |-> c]
          /\ \A q \in Req \ {r} : pc'[q] = pc[q] /\ job'[q] = job[q]
      BY <2>2 DEF Create, Changes, Goto, TypeOK
    <3> QED
      BY <3>1, <3>2 DEF AnswersInv, AnswersAreDurable, StaysDeleted
  <2>3. ASSUME NEW c \in Conns, Delete(r, c)
        PROVE  AnswersInv'
    <3>1. /\ phase' = "up" /\ phase = "up" /\ UNCHANGED <<file, issued>>
          /\ DOMAIN place' = DOMAIN place \ {c} /\ c \in issued
          /\ promised'[c] = "nothing" /\ \A d \in Conns \ {c} : promised'[d] = promised[d]
      BY <2>3 DEF Delete, Changes, At, TypeOK, SaveInv
    <3>2. /\ pc'[r] = "changed" /\ job'[r] = [says |-> "absent", conn |-> c]
          /\ \A q \in Req \ {r} : pc'[q] = pc[q] /\ job'[q] = job[q]
      BY <2>3 DEF Delete, Changes, Goto, TypeOK
    <3> QED
      BY <3>1, <3>2 DEF AnswersInv, AnswersAreDurable, StaysDeleted
  <2>4. CASE Looks(r)
    <3>1. \A q \in Req : /\ pc'[q] = "saving" <=> pc[q] = "saving"
                         /\ pc'[q] = "changed" <=> pc[q] = "changed"
                         /\ pc[q] \in {"saving", "changed"} => job'[q] = job[q]
      BY <2>4 DEF Looks, TypeOK
    <3> QED
      BY <2>4, <3>1 DEF Looks, AnswersInv, AnswersAreDurable, StaysDeleted, memory
  <2>5. CASE SaveStart(r)
    <3>1. /\ pc[r] = "changed" /\ pc'[r] = "saving" /\ job'[r].job = job[r]
          /\ \A q \in Req \ {r} : pc'[q] = pc[q] /\ job'[q] = job[q]
      BY <2>5 DEF SaveStart, At, Goto, TypeOK
    <3> QED
      BY <2>5, <3>1 DEF SaveStart, AnswersInv, AnswersAreDurable, StaysDeleted, memory
  <2>6. CASE SaveEnd(r)
    <3>1. /\ pc'[r] = "idle" /\ pc[r] = "saving"
          /\ \A q \in Req \ {r} : pc'[q] = pc[q] /\ job'[q] = job[q]
      BY <2>6 DEF SaveEnd, At, Goto, TypeOK
    <3>2. /\ file'.place = place /\ phase = "up" /\ phase' = "up" /\ UNCHANGED <<place, issued>>
      BY <2>6 DEF SaveEnd, At, memory, Memory, SaveInv
    <3>3. /\ promised' = Tells(job[r].job) /\ job[r].job \in Answers
          /\ StaysDeleted(job[r].job)
      <4>1. job[r] \in [job : Answers, data : Files]
        BY <3>1 DEF TypeOK, JobFits
      <4> QED
        <5>1. job[r].job \in Answers
          BY <4>1
        <5>2. StaysDeleted(job[r].job)
          BY <3>1 DEF AnswersInv
        <5> QED
          BY <2>6, <5>1, <5>2 DEF SaveEnd
    <3>4. \A c \in Conns :
            /\ promised'[c] = "present" => c \in DOMAIN place
            /\ promised'[c] = "absent" => c \notin DOMAIN place /\ c \in issued
      <4>1. \A c \in Conns :
              /\ promised[c] = "present" => c \in DOMAIN place
              /\ promised[c] = "absent" => c \notin DOMAIN place /\ c \in issued
        BY <3>2 DEF AnswersInv, AnswersAreDurable
      <4> QED
        BY <3>3, <4>1 DEF Tells, Answers, StaysDeleted, TypeOK
    <3> QED
      BY <3>1, <3>2, <3>4 DEF AnswersInv, AnswersAreDurable, StaysDeleted
  <2>7. CASE SaveFails(r)
    <3>1. /\ pc'[r] = "idle"
          /\ \A q \in Req \ {r} : pc'[q] = pc[q] /\ job'[q] = job[q]
      BY <2>7 DEF SaveFails, Goto, TypeOK
    <3> QED
      BY <2>7, <3>1 DEF SaveFails, AnswersInv, AnswersAreDurable, StaysDeleted, memory
  <2> QED
    BY <1>5, <2>1, <2>2, <2>3, <2>4, <2>5, <2>6, <2>7, HandlerKinds
<1>6. CASE UNCHANGED vars
  BY <1>6 DEF vars, memory, AnswersInv, AnswersAreDurable, StaysDeleted
<1> QED
  BY <1>1, <1>2, <1>3, <1>4, <1>5, <1>6 DEF Next
-----------------------------------------------------------------------------
(* The tree while it is read and while it is served. *)

Mending ==
  /\ file # Torn /\ DOMAIN tree = DOMAIN file.tree
  /\ \A f \in DOMAIN tree \ todo : ~ IsLost(tree, f)
  /\ \A f \in todo : tree[f] = file.tree[f]
  /\ \A f \in DOMAIN tree : tree[f] \in {file.tree[f], Root}
  /\ \A f \in DOMAIN tree : ~ IsLost(file.tree, f) => tree[f] = file.tree[f]

TreeInv == (phase = "loading" => Mending) /\ (phase = "up" => Forest(tree))

(* A folder that is not lost in the file is not lost in a tree that only   *)
(* moved folders to the top level.                                         *)
LEMMA MendedStays ==
  ASSUME NEW t \in Trees, NEW u \in Trees, DOMAIN u = DOMAIN t,
         \A f \in DOMAIN t : u[f] \in {t[f], Root},
         NEW g \in DOMAIN t, u[g] = t[g], ~ IsLost(t, g)
  PROVE  ~ IsLost(u, g)
<1>1. FolderExists(u, u[g])
  BY DEF IsLost, FolderExists
<1>2. ASSUME NEW S \in SUBSET DOMAIN u, g \in S, \A x \in S : u[x] \in S
      PROVE  NeverComesOut(t, g)
  <2>1. Root \notin S
    BY FolderAssumption, TreeIs
  <2>2. \A x \in S : u[x] = t[x]
    BY <1>2, <2>1
  <2> QED
    BY <1>2, <2>2 DEF NeverComesOut
<1> QED
  BY <1>1, <1>2 DEF IsLost, NeverComesOut

LEMMA NextTreeInv == TypeOK /\ SaveInv /\ TreeInv /\ [Next]_vars => TreeInv'
<1> SUFFICES ASSUME TypeOK, SaveInv, TreeInv, [Next]_vars
             PROVE  TreeInv'
  OBVIOUS
<1>0. tree \in Trees
  BY MemoryFits DEF TypeOK
<1>1. CASE Load
  BY <1>1 DEF Load, TreeInv, Mending
<1>2. ASSUME NEW f \in Folders, Normalize(f)
      PROVE  TreeInv'
  <2>1. /\ phase' = "loading" /\ Mending /\ f \in DOMAIN tree /\ f \in todo
        /\ tree' = NormalizeFolder(tree, f) /\ UNCHANGED file /\ todo' = todo \ {f}
    BY <1>2 DEF Normalize, TreeInv, TypeOK
  <2>2. /\ DOMAIN tree' = DOMAIN tree
        /\ \A g \in DOMAIN tree : g # f => tree'[g] = tree[g]
        /\ tree'[f] = IF IsLost(tree, f) THEN Root ELSE tree[f]
    BY <1>0, <2>1, TreeIs DEF NormalizeFolder
  <2>3. \A g \in DOMAIN tree' \ todo' : ~ IsLost(tree', g)
    BY <1>0, <2>1, <2>2, NormalizeFinds DEF Mending
  <2>4. ~ IsLost(file.tree, f) => ~ IsLost(tree, f)
    <3>1. file.tree \in Trees
      BY <2>1 DEF Mending, TypeOK, Files
    <3> QED
      BY <1>0, <2>1, <3>1, MendedStays DEF Mending
  <2> QED
    <3>1. \A g \in todo' : tree'[g] = file'.tree[g]
      BY <2>1, <2>2 DEF Mending, TypeOK
    <3>2. \A g \in DOMAIN tree' : tree'[g] \in {file'.tree[g], Root}
      BY <2>1, <2>2 DEF Mending
    <3>3. \A g \in DOMAIN tree' : ~ IsLost(file'.tree, g) => tree'[g] = file'.tree[g]
      <4>1. \A g \in DOMAIN tree' : ~ IsLost(file.tree, g) => tree'[g] = file.tree[g]
        BY <2>1, <2>2, <2>4 DEF Mending
      <4> QED
        BY <2>1, <4>1
    <3>4. file' # Torn /\ DOMAIN tree' = DOMAIN file'.tree
      BY <2>1, <2>2 DEF Mending
    <3>5. Mending'
      BY <2>3, <3>1, <3>2, <3>3, <3>4 DEF Mending
    <3> QED
      BY <2>1, <3>5 DEF TreeInv
<1>3. CASE Serve
  <2>1. Forest(tree)
    BY <1>3 DEF Serve, TreeInv, Mending, Forest, ParentsExist, Acyclic, IsLost
  <2> QED
    BY <1>3, <2>1 DEF Serve, TreeInv
<1>4. CASE Stop
  BY <1>4 DEF Stop, TreeInv
<1>5. ASSUME NEW r \in Req, Handler(r)
      PROVE  TreeInv'
  <2>1. CASE UNCHANGED <<phase, tree>> /\ phase = "up"
    BY <2>1 DEF TreeInv
  <2>2. ASSUME NEW f \in Folders, NEW p \in Folders \cup {Root}, CreateFolder(r, f, p)
        PROVE  TreeInv'
    <3>1. f \notin DOMAIN tree
      BY <2>2 DEF CreateFolder, New, SaveInv
    <3> QED
      BY <1>0, <2>2, <3>1, AddKeepsForest DEF CreateFolder, Changes, At, TreeInv
  <2>3. ASSUME NEW fs \in SUBSET Folders, NEW p \in Folders \cup {Root}, MoveFolders(r, fs, p)
        PROVE  TreeInv'
    BY <1>0, <2>3, HangKeepsForest DEF MoveFolders, Changes, At, TreeInv
  <2>4. ASSUME NEW f \in Folders, DeleteFolder(r, f)
        PROVE  TreeInv'
    BY <1>0, <2>4, RemoveKeepsForest DEF DeleteFolder, Changes, At, TreeInv
  <2> QED
    BY <1>5, <2>1, <2>2, <2>3, <2>4, TreeSteps
<1>6. CASE UNCHANGED vars
  BY <1>6 DEF vars, memory, TreeInv, Mending
<1> QED
  BY <1>1, <1>2, <1>3, <1>4, <1>5, <1>6 DEF Next

LEMMA Invariance == Spec => [](TypeOK /\ SaveInv /\ AnswersInv /\ TreeInv)
<1>1. Init => TypeOK /\ SaveInv /\ AnswersInv /\ TreeInv
  BY InitTypeOK, InitSaveInv, InitAnswersInv DEF Init, TreeInv
<1>2. TypeOK /\ SaveInv /\ AnswersInv /\ TreeInv /\ [Next]_vars
        => (TypeOK /\ SaveInv /\ AnswersInv /\ TreeInv)'
  BY NextTypeOK, NextSaveInv, NextAnswersInv, NextTreeInv
<1> QED
  BY <1>1, <1>2, PTL DEF Spec

(* A serving process has a forest, whatever the file held and however     *)
(* folders were added, moved and removed (folders.go:46-114, 165-208).    *)
THEOREM ForestHolds == Spec => []FoldersAreAForest
<1>1. TreeInv => FoldersAreAForest
  BY DEF TreeInv, FoldersAreAForest
<1> QED
  BY <1>1, Invariance, PTL

(* Mending a tree moves only what is lost (folders.go:165-187). *)
THEOREM MendingSparesTheTreeHolds == Spec => []MendingSparesTheTree
<1>1. TreeInv => MendingSparesTheTree
  BY DEF TreeInv, Mending, MendingSparesTheTree
<1> QED
  BY <1>1, Invariance, PTL

(* The last save to end wrote the memory (config.go:94-103). *)
THEOREM SettledFileIsMemoryHolds == Spec => []SettledFileIsMemory
<1>1. SaveInv => SettledFileIsMemory
  BY DEF SaveInv
<1> QED
  BY <1>1, Invariance, PTL

(* An answered creation or deletion lasts (connections.go:88-124, 383-408). *)
THEOREM AnswersAreDurableHolds == Spec => []AnswersAreDurable
<1>1. AnswersInv => AnswersAreDurable
  BY DEF AnswersInv
<1> QED
  BY <1>1, Invariance, PTL
-----------------------------------------------------------------------------
(* The list of connections: what a request changes in the end is the same   *)
(* on the server and in the stores.                                         *)

Kinds == {"create", "update", "arrangeFolders", "remove", "moveCard", "arrangeCards", "fetch"}
Request(w) == <<w.kind, w.id, w.to, w.ids>>
Knows(b, w) == w.kind \in {"update", "remove"} => w.id \in DOMAIN b.tree

LEMMA ServedAlike ==
  ASSUME NEW b, NEW v, NEW w, Request(v) = Request(w)
  PROVE  Served(b, v) = Served(b, w) /\ Answered(b, v) = Answered(b, w)
<1>1. v.kind = w.kind /\ v.id = w.id /\ v.to = w.to /\ v.ids = w.ids
  BY DEF Request
<1> QED
  BY <1>1 DEF Served, Answered

LEMMA AppliedIsServed ==
  ASSUME NEW b, IsBoard(b), NEW w, w.kind \in Kinds, Knows(b, w),
         w.answer = Answered(Served(b, w), w)
  PROVE  Applied(b, w) = Served(b, w)
<1>1. b = [tree |-> b.tree, order |-> b.order, home |-> b.home, place |-> b.place]
  BY DEF IsBoard
<1>2. b.order = [f \in DOMAIN b.tree |-> b.order[f]]
  BY DEF IsBoard
<1>3. CASE w.kind = "create"
  <2> DEFINE n == LastFolderPosition(b, w.to, w.id) + 1
  <2>1. Served(b, w) = [b EXCEPT !.tree = AddFolder(b.tree, w.id, w.to), !.order = Placed(b.order, w.id, n)]
    BY <1>3 DEF Served
  <2> HIDE DEF n
  <2>2. Served(b, w).tree[w.id] = w.to /\ Served(b, w).order[w.id] = n
    BY <1>1, <2>1 DEF AddFolder, Placed
  <2>3. w.answer = [parent |-> w.to, order |-> n]
    BY <1>3, <2>2 DEF Answered
  <2>4. Applied(b, w) = FolderMade(b, w.id, w.answer)
    BY <1>3 DEF Applied
  <2>5. w.answer.parent = w.to /\ w.answer.order = n
    BY <2>3
  <2> QED
    BY <2>1, <2>4, <2>5 DEF FolderMade
<1>4. CASE w.kind = "update"
  <2> DEFINE n == IF b.tree[w.id] = w.to THEN b.order[w.id] ELSE LastFolderPosition(b, w.to, w.id) + 1
  <2>1. Served(b, w) = [b EXCEPT !.tree = Hang(b.tree, {w.id}, w.to), !.order[w.id] = n]
    BY <1>4 DEF Served
  <2> HIDE DEF n
  <2>2. w.id \in DOMAIN b.tree
    BY <1>4 DEF Knows
  <2>3. Served(b, w).tree[w.id] = w.to /\ Served(b, w).order[w.id] = n
    BY <1>1, <1>2, <2>1, <2>2 DEF Hang
  <2>4. w.answer = [parent |-> w.to, order |-> n]
    BY <1>4, <2>3 DEF Answered
  <2>5. AddFolder(b.tree, w.id, w.to) = Hang(b.tree, {w.id}, w.to)
    BY <2>2 DEF AddFolder, Hang
  <2>6. Placed(b.order, w.id, n) = [b.order EXCEPT ![w.id] = n]
    BY <1>2, <2>2 DEF Placed
  <2>7. Applied(b, w) = FolderMade(b, w.id, w.answer)
    BY <1>4, <2>2 DEF Applied, FolderChanged
  <2>8. w.answer.parent = w.to /\ w.answer.order = n
    BY <2>4
  <2>9. Applied(b, w) = [b EXCEPT !.tree = Hang(b.tree, {w.id}, w.to), !.order = [b.order EXCEPT ![w.id] = n]]
    BY <2>5, <2>6, <2>7, <2>8 DEF FolderMade
  <2> QED
    BY <1>1, <2>1, <2>9
<1>5. CASE w.kind = "arrangeFolders"
  BY <1>5 DEF Applied, Served, FoldersArranged, Hang
<1>6. CASE w.kind = "remove"
  <2>1. w.id \in DOMAIN b.tree
    BY <1>6 DEF Knows
  <2>2. RemoveFolder(b.tree, w.id)
          = [g \in DOMAIN b.tree \ {w.id} |-> IF b.tree[g] = w.id THEN b.tree[w.id] ELSE b.tree[g]]
    BY DEF RemoveFolder, Lifted
  <2>3. [c \in DOMAIN b.home |-> Lifted(b.tree, w.id, b.home[c])] = LiftFolder(b, w.id, b.tree[w.id])
    BY DEF LiftFolder, Lifted
  <2> QED
    BY <1>6, <2>1, <2>2, <2>3 DEF Applied, Served, FolderRemoved
<1>7. CASE w.kind = "moveCard"
  BY <1>7 DEF Applied, Served, CardMoved
<1>8. CASE w.kind = "arrangeCards"
  BY <1>8 DEF Applied, Served, CardsArranged
<1>9. CASE w.kind = "fetch"
  <2>1. Served(b, w) = b
    BY <1>9 DEF Served
  <2>2. w.answer = [tree |-> b.tree, order |-> b.order]
    BY <1>9, <2>1 DEF Answered
  <2>3. [b EXCEPT !.tree = b.tree, !.order = b.order] = b
    BY <1>1
  <2>4. Applied(b, w) = FoldersFetched(b, w.answer) /\ w.answer.tree = b.tree /\ w.answer.order = b.order
    BY <1>9, <2>2 DEF Applied
  <2> QED
    BY <2>1, <2>3, <2>4 DEF FoldersFetched
<1> QED
  BY <1>3, <1>4, <1>5, <1>6, <1>7, <1>8, <1>9 DEF Kinds

(* The server keeps a forest: what ServerAllows asks is what the lemmas on  *)
(* the tree ask.                                                            *)
LEMMA ServedIsBoard ==
  ASSUME IsBoard(kept), NEW w, w.kind \in Kinds, ServerAllows(w),
         w.kind = "create" => w.id \in Folders \ DOMAIN kept.tree
  PROVE  IsBoard(Served(kept, w)) /\ Knows(kept, w)
<1>1. /\ kept = [tree |-> kept.tree, order |-> kept.order, home |-> kept.home, place |-> kept.place]
      /\ kept.tree \in Trees /\ Forest(kept.tree)
      /\ kept.order = [f \in DOMAIN kept.tree |-> kept.order[f]]
      /\ kept.home = [c \in DOMAIN kept.home |-> kept.home[c]] /\ DOMAIN kept.home \subseteq Cards
  BY DEF IsBoard
<1>2. /\ DOMAIN kept.tree \subseteq Folders
      /\ \A f \in DOMAIN kept.tree : kept.tree[f] \in Folders \cup {Root}
  BY <1>1, TreeIs
<1>3. CASE w.kind = "create"
  <2>1. FolderExists(kept.tree, w.to) /\ w.id \in Folders \ DOMAIN kept.tree
    BY <1>3 DEF ServerAllows
  <2>2. Forest(AddFolder(kept.tree, w.id, w.to))
    BY <1>1, <2>1, AddKeepsForest
  <2>3. AddFolder(kept.tree, w.id, w.to) \in Trees /\ DOMAIN AddFolder(kept.tree, w.id, w.to) = DOMAIN kept.tree \cup {w.id}
    BY <1>2, <2>1, TreeIs DEF AddFolder, FolderExists
  <2> DEFINE o == Placed(kept.order, w.id, LastFolderPosition(kept, w.to, w.id) + 1)
  <2>4. o = [f \in DOMAIN kept.tree \cup {w.id} |-> o[f]]
    BY <1>1 DEF Placed
  <2>5. Served(kept, w) = [kept EXCEPT !.tree = AddFolder(kept.tree, w.id, w.to), !.order = o]
    BY <1>3 DEF Served
  <2> HIDE DEF o
  <2>6. Served(kept, w) = [tree |-> AddFolder(kept.tree, w.id, w.to), order |-> o, home |-> kept.home, place |-> kept.place]
    BY <1>1, <2>5
  <2> QED
    BY <1>1, <1>3, <2>2, <2>3, <2>4, <2>6 DEF IsBoard, Knows
<1>4. CASE w.kind = "update"
  <2>1. MayHang(kept.tree, {w.id}, w.to) /\ w.id \in DOMAIN kept.tree
    BY <1>4 DEF ServerAllows, MayHang
  <2>2. Forest(Hang(kept.tree, {w.id}, w.to))
    <3>1. {w.id} \in SUBSET Folders
      BY <1>2, <2>1
    <3> QED
      BY <1>1, <2>1, <3>1, HangKeepsForest
  <2>3. Hang(kept.tree, {w.id}, w.to) \in Trees /\ DOMAIN Hang(kept.tree, {w.id}, w.to) = DOMAIN kept.tree
    BY <1>2, <2>1, TreeIs DEF Hang, MayHang, FolderExists
  <2> DEFINE n == IF kept.tree[w.id] = w.to THEN kept.order[w.id] ELSE LastFolderPosition(kept, w.to, w.id) + 1
  <2>4. Served(kept, w) = [kept EXCEPT !.tree = Hang(kept.tree, {w.id}, w.to), !.order[w.id] = n]
    BY <1>4 DEF Served
  <2> HIDE DEF n
  <2> DEFINE o == [kept.order EXCEPT ![w.id] = n]
  <2>5. o = [f \in DOMAIN kept.tree |-> o[f]]
    BY <1>1
  <2>6. Served(kept, w) = [tree |-> Hang(kept.tree, {w.id}, w.to), order |-> o, home |-> kept.home, place |-> kept.place]
    BY <1>1, <2>4
  <2> HIDE DEF o
  <2> QED
    BY <1>1, <1>4, <2>1, <2>2, <2>3, <2>5, <2>6 DEF IsBoard, Knows
<1>5. CASE w.kind = "arrangeFolders"
  <2>1. MayHang(kept.tree, Range(w.ids), w.to)
    BY <1>5 DEF ServerAllows
  <2>2. Range(w.ids) \in SUBSET Folders
    BY <1>2, <2>1 DEF MayHang
  <2>3. Forest(Hang(kept.tree, Range(w.ids), w.to))
    BY <1>1, <2>1, <2>2, HangKeepsForest
  <2>4. Hang(kept.tree, Range(w.ids), w.to) \in Trees /\ DOMAIN Hang(kept.tree, Range(w.ids), w.to) = DOMAIN kept.tree
    BY <1>2, <2>1, TreeIs DEF Hang, MayHang, FolderExists
  <2> DEFINE o == [f \in DOMAIN kept.order |-> IF f \in Range(w.ids) THEN IndexOf(w.ids, f) ELSE kept.order[f]]
  <2>5. o = [f \in DOMAIN kept.tree |-> o[f]]
    BY <1>1
  <2>6. Served(kept, w) = [kept EXCEPT !.tree = Hang(kept.tree, Range(w.ids), w.to), !.order = o]
    BY <1>5 DEF Served
  <2> HIDE DEF o
  <2>7. Served(kept, w) = [tree |-> Hang(kept.tree, Range(w.ids), w.to), order |-> o, home |-> kept.home, place |-> kept.place]
    BY <1>1, <2>6
  <2> QED
    BY <1>1, <1>5, <2>3, <2>4, <2>5, <2>7 DEF IsBoard, Knows
<1>6. CASE w.kind = "remove"
  <2>1. w.id \in DOMAIN kept.tree
    BY <1>6 DEF ServerAllows
  <2>2. Forest(RemoveFolder(kept.tree, w.id))
    BY <1>1, <2>1, RemoveKeepsForest
  <2>3. RemoveFolder(kept.tree, w.id) \in Trees /\ DOMAIN RemoveFolder(kept.tree, w.id) = DOMAIN kept.tree \ {w.id}
    BY <1>2, <2>1, TreeIs DEF RemoveFolder, Lifted
  <2> DEFINE o == [f \in DOMAIN kept.order \ {w.id} |-> kept.order[f]]
             h == [c \in DOMAIN kept.home |-> Lifted(kept.tree, w.id, kept.home[c])]
  <2>4. o = [f \in DOMAIN kept.tree \ {w.id} |-> o[f]] /\ h = [c \in DOMAIN h |-> h[c]] /\ DOMAIN h \subseteq Cards
    BY <1>1
  <2>5. Served(kept, w) = [kept EXCEPT !.tree = RemoveFolder(kept.tree, w.id), !.order = o, !.home = h]
    BY <1>6 DEF Served
  <2> HIDE DEF o, h
  <2>6. Served(kept, w) = [tree |-> RemoveFolder(kept.tree, w.id), order |-> o, home |-> h, place |-> kept.place]
    BY <1>1, <2>5
  <2> QED
    BY <2>1, <2>2, <2>3, <2>4, <2>6 DEF IsBoard, Knows
<1>7. CASE w.kind = "moveCard"
  <2> DEFINE n == Highest({kept.place[c] : c \in CardsIn(kept, w.to) \ {w.id}}) + 1
             h == [kept.home EXCEPT ![w.id] = w.to]
  <2>1. Served(kept, w) = [kept EXCEPT !.home[w.id] = w.to, !.place[w.id] = n]
    BY <1>7 DEF Served
  <2>2. h = [c \in DOMAIN h |-> h[c]] /\ DOMAIN h \subseteq Cards
    BY <1>1
  <2> HIDE DEF n
  <2>3. Served(kept, w) = [tree |-> kept.tree, order |-> kept.order, home |-> h, place |-> [kept.place EXCEPT ![w.id] = n]]
    BY <1>1, <2>1
  <2> QED
    BY <1>1, <1>7, <2>2, <2>3 DEF IsBoard, Knows
<1>8. CASE w.kind = "arrangeCards"
  <2> DEFINE h == [c \in DOMAIN kept.home |-> IF c \in Range(w.ids) THEN w.to ELSE kept.home[c]]
             p == [c \in DOMAIN kept.place |-> IF c \in Range(w.ids) THEN IndexOf(w.ids, c) ELSE kept.place[c]]
  <2>1. Served(kept, w) = [kept EXCEPT !.home = h, !.place = p]
    BY <1>8 DEF Served
  <2>2. h = [c \in DOMAIN h |-> h[c]] /\ DOMAIN h \subseteq Cards
    BY <1>1
  <2> HIDE DEF h, p
  <2>3. Served(kept, w) = [tree |-> kept.tree, order |-> kept.order, home |-> h, place |-> p]
    BY <1>1, <2>1
  <2> QED
    BY <1>1, <1>8, <2>2, <2>3 DEF IsBoard, Knows
<1>9. CASE w.kind = "fetch"
  BY <1>9 DEF Served, Knows
<1> QED
  BY <1>3, <1>4, <1>5, <1>6, <1>7, <1>8, <1>9 DEF Kinds

LEMMA ServedAddsNone ==
  ASSUME NEW b, IsBoard(b), NEW w, w.kind \in Kinds, w.kind # "create"
  PROVE  DOMAIN Served(b, w).tree \subseteq DOMAIN b.tree
<1>1. b = [tree |-> b.tree, order |-> b.order, home |-> b.home, place |-> b.place]
  BY DEF IsBoard
<1>2. CASE w.kind \in {"update", "arrangeFolders"}
  BY <1>1, <1>2 DEF Served, Hang
<1>3. CASE w.kind = "remove"
  BY <1>1, <1>3 DEF Served, RemoveFolder
<1>4. CASE w.kind \in {"moveCard", "arrangeCards", "fetch"}
  BY <1>1, <1>4 DEF Served
<1> QED
  BY <1>2, <1>3, <1>4 DEF Kinds

-----------------------------------------------------------------------------
(* The server's past is a function H from the turns so far to boards.       *)

IsRequest(w) ==
  /\ w = [n |-> w.n, kind |-> w.kind, id |-> w.id, to |-> w.to, ids |-> w.ids,
          done |-> w.done, turn |-> w.turn, answer |-> w.answer]
  /\ w.kind \in Kinds /\ w.done \in BOOLEAN

Changed == {w \in asked : w.done /\ w.kind # "fetch"}

(* A request is well formed, its turn its own; only one makes a folder, and *)
(* the folder is not there while it is under way.                           *)
AskedFits ==
  /\ \A w \in asked : IsRequest(w)
  /\ \A w \in asked : w.done => w.turn \in 1..turns /\ w.turn # landed
  /\ \A v, w \in asked : v.done /\ w.done /\ v.turn = w.turn => v = w
  /\ \A v, w \in asked : v.kind = "create" /\ w.kind = "create" => v = w
  /\ \A w \in asked : w.kind = "create" /\ ~w.done => w.id \in Folders \ DOMAIN kept.tree

(* Each turn is what its request made of the board before it.               *)
Took(H, w) ==
  /\ H[w.turn] = Served(H[w.turn - 1], w) /\ w.answer = Answered(H[w.turn], w)
  /\ Knows(H[w.turn - 1], w)

(* Since the last answer that landed the server has changed only by what is *)
(* still to be answered, and the stores show its folders as of that turn;   *)
(* all of its board, if no change from before that turn is still to come.   *)
Story(H) ==
  /\ H[turns] = kept
  /\ \A i \in 0..turns : IsBoard(H[i])
  /\ \A w \in asked : w.done => Took(H, w)
  /\ \A i, j \in landed..turns : i <= j /\ H[i] # H[j] => \E w \in Changed : i < w.turn /\ w.turn <= j
  /\ shown.tree = H[landed].tree /\ shown.order = H[landed].order
  /\ (\A w \in Changed : landed < w.turn) => shown = H[landed]

FoldersInv ==
  /\ astray \in BOOLEAN
  /\ ~astray => /\ turns \in Nat /\ landed \in 0..turns
                /\ AskedFits /\ IsBoard(shown)
                /\ \E H : Story(H)

LEMMA DoneIs ==
  ASSUME NEW w, IsRequest(w), NEW t, NEW a, NEW v, v = [w EXCEPT !.done = TRUE, !.turn = t, !.answer = a]
  PROVE  v = [n |-> w.n, kind |-> w.kind, id |-> w.id, to |-> w.to, ids |-> w.ids,
              done |-> TRUE, turn |-> t, answer |-> a]
<1>1. w = [n |-> w.n, kind |-> w.kind, id |-> w.id, to |-> w.to, ids |-> w.ids,
           done |-> w.done, turn |-> w.turn, answer |-> w.answer]
  BY DEF IsRequest
<1> QED
  BY <1>1

LEMMA MaxOfTwo ==
  ASSUME NEW m \in Nat, NEW n \in Nat
  PROVE  Max({m, n}) = IF m >= n THEN m ELSE n
BY DEF Max

LEMMA InitFoldersInv == FoldersInit => FoldersInv
<1> SUFFICES ASSUME FoldersInit
             PROVE  FoldersInv
  OBVIOUS
<1>1. IsBoard(kept)
  BY ConnectionFoldersAssumption DEF FoldersInit
<1>2. \E H : Story(H)
  <2>1. PICK H : H = [i \in {0} |-> kept]
    OBVIOUS
  <2>2. Story(H)
    BY <1>1, <2>1 DEF FoldersInit, Story, Changed
  <2> QED
    BY <2>2
<1>3. AskedFits
  BY DEF FoldersInit, AskedFits
<1>4. turns \in Nat /\ landed \in 0..turns
  BY DEF FoldersInit
<1>5. astray \in BOOLEAN
  BY DEF FoldersInit
<1>6. IsBoard(shown)
  BY <1>1 DEF FoldersInit
<1> QED
  BY <1>2, <1>3, <1>4, <1>5, <1>6 DEF FoldersInv

LEMMA SendsFoldersInv ==
  ASSUME FoldersInv, NEW w, IsRequest(w), ~w.done, Sends(w),
         w.kind = "create" => /\ w.id \in Folders \ DOMAIN kept.tree
                              /\ \A v \in asked : v.kind # "create"
  PROVE  FoldersInv'
<1>1. /\ asked' = asked \cup {w} /\ ~astray
      /\ UNCHANGED <<kept, shown, turns, landed, astray>>
  BY DEF Sends
<1>2. Changed' = Changed
  BY <1>1 DEF Changed
<1>3. AskedFits'
  BY <1>1 DEF AskedFits, FoldersInv
<1>4. PICK H : Story(H)
  BY <1>1 DEF FoldersInv
<1>5. Story(H)'
  BY <1>1, <1>2, <1>4 DEF Story, Took
<1> QED
  BY <1>1, <1>3, <1>5 DEF FoldersInv

LEMMA ServeFoldersInv ==
  ASSUME FoldersInv, NEW w \in asked, ServeBoard(w)
  PROVE  FoldersInv'
<1>a. PICK a : a = Answered(Served(kept, w), w)
  OBVIOUS
<1>v. PICK v : v = [w EXCEPT !.done = TRUE, !.turn = turns + 1, !.answer = a]
  OBVIOUS
<1>1. /\ ~w.done /\ ServerAllows(w)
      /\ kept' = Served(kept, w) /\ turns' = turns + 1
      /\ asked' = (asked \ {w}) \cup {v}
      /\ UNCHANGED <<shown, landed, astray>>
  BY <1>a, <1>v DEF ServeBoard
<1> SUFFICES ASSUME ~astray
             PROVE  FoldersInv'
  BY <1>1 DEF FoldersInv
<1>2. /\ turns \in Nat /\ landed \in 0..turns /\ AskedFits /\ IsBoard(shown)
      /\ IsRequest(w)
  BY DEF FoldersInv, AskedFits
<1>3. v = [n |-> w.n, kind |-> w.kind, id |-> w.id, to |-> w.to, ids |-> w.ids,
           done |-> TRUE, turn |-> turns + 1, answer |-> a]
  BY <1>2, <1>v, DoneIs
<1>4. /\ v.done /\ v.turn = turns + 1 /\ v.answer = a /\ v.kind = w.kind /\ v.id = w.id
      /\ Request(v) = Request(w) /\ IsRequest(v)
  BY <1>2, <1>3 DEF Request, IsRequest
<1>5. PICK H : Story(H)
  BY DEF FoldersInv
<1>6. IsBoard(kept)
  BY <1>2, <1>5 DEF Story
<1>7. IsBoard(kept') /\ Knows(kept, w)
  BY <1>1, <1>2, <1>6, ServedIsBoard DEF AskedFits, IsRequest
<1>8. kept' = Served(kept, v) /\ a = Answered(kept', v)
  BY <1>1, <1>4, <1>a, ServedAlike
<1>9. AskedFits'
  <2>1. \A u \in asked' : IsRequest(u)
    BY <1>1, <1>2, <1>4 DEF AskedFits
  <2>2. \A u \in asked' : u.done => u.turn \in 1..turns' /\ u.turn # landed'
    BY <1>1, <1>2, <1>4 DEF AskedFits
  <2>3. \A t, u \in asked' : t.done /\ u.done /\ t.turn = u.turn => t = u
    BY <1>1, <1>2, <1>4 DEF AskedFits
  <2>4. \A t, u \in asked' : t.kind = "create" /\ u.kind = "create" => t = u
    BY <1>1, <1>2, <1>4 DEF AskedFits
  <2>5. ASSUME NEW u \in asked', u.kind = "create", ~u.done
        PROVE  u.id \in Folders \ DOMAIN kept'.tree
    <3>1. u \in asked /\ u # w
      BY <1>1, <1>4, <2>5
    <3>2. w.kind # "create" /\ u.id \in Folders \ DOMAIN kept.tree
      BY <1>2, <2>5, <3>1 DEF AskedFits
    <3>3. DOMAIN Served(kept, w).tree \subseteq DOMAIN kept.tree
      BY <1>2, <1>6, <3>2, ServedAddsNone DEF IsRequest
    <3> QED
      BY <1>1, <3>2, <3>3
  <2> QED
    BY <2>1, <2>2, <2>3, <2>4, <2>5 DEF AskedFits
<1>10. PICK G : G = [i \in 0..turns + 1 |-> IF i = turns + 1 THEN kept' ELSE H[i]]
  OBVIOUS
<1>11. /\ G[turns'] = kept' /\ \A i \in 0..turns : G[i] = H[i]
       /\ G[turns + 1] = kept' /\ G[turns] = kept
  BY <1>1, <1>2, <1>5, <1>10 DEF Story
<1>12. Story(G)'
  <2>1. \A i \in 0..turns' : IsBoard(G[i])
    <3>1. \A i \in 0..turns : IsBoard(G[i])
      BY <1>5, <1>11 DEF Story
    <3> QED
      BY <1>1, <1>2, <1>7, <1>11, <3>1
  <2>2. \A u \in asked' : u.done => Took(G, u)
    <3>1. ASSUME NEW u \in asked, u.done
          PROVE  Took(G, u)
      <4>1. u.turn \in 0..turns /\ u.turn - 1 \in 0..turns
        BY <1>2, <3>1 DEF AskedFits
      <4>2. Took(H, u)
        BY <1>5, <3>1 DEF Story
      <4> QED
        BY <1>11, <4>1, <4>2 DEF Took
    <3>2. Took(G, v)
      <4>1. v.turn - 1 = turns
        BY <1>2, <1>4
      <4>2. Knows(kept, v)
        BY <1>4, <1>7 DEF Knows
      <4> QED
        BY <1>4, <1>8, <1>11, <4>1, <4>2 DEF Took
    <3> QED
      BY <1>1, <3>1, <3>2
  <2>3. ASSUME NEW i \in landed'..turns', NEW j \in landed'..turns', i <= j, G[i] # G[j]
        PROVE  \E u \in Changed' : i < u.turn /\ u.turn <= j
    <3>1. i \in landed..turns
      BY <1>1, <1>2, <2>3
    <3>2. Changed \subseteq Changed'
      BY <1>1 DEF Changed
    <3>3. CASE j <= turns
      <4>1. j \in landed..turns /\ H[i] # H[j]
        BY <1>1, <1>2, <1>11, <2>3, <3>1, <3>3
      <4> QED
        BY <1>5, <2>3, <3>1, <3>2, <4>1 DEF Story
    <3>4. CASE j = turns + 1 /\ w.kind # "fetch"
      <4>1. v \in Changed'
        BY <1>1, <1>4, <3>4 DEF Changed
      <4> QED
        BY <1>2, <1>4, <3>1, <3>4, <4>1
    <3>5. CASE j = turns + 1 /\ w.kind = "fetch"
      <4>1. kept' = kept
        BY <1>1, <3>5 DEF Served
      <4>2. H[i] # H[turns] /\ turns \in landed..turns /\ i <= turns
        BY <1>2, <1>11, <2>3, <3>1, <3>5, <4>1
      <4>3. PICK u \in Changed : i < u.turn /\ u.turn <= turns
        BY <1>5, <3>1, <4>2 DEF Story
      <4>4. u.turn \in 1..turns
        BY <1>2 DEF AskedFits, Changed
      <4> QED
        BY <1>2, <3>1, <3>2, <3>5, <4>3, <4>4
    <3> QED
      BY <1>1, <1>2, <3>3, <3>4, <3>5
  <2>4. shown'.tree = G[landed'].tree /\ shown'.order = G[landed'].order
    BY <1>1, <1>2, <1>5, <1>11 DEF Story
  <2>5. (\A u \in Changed' : landed' < u.turn) => shown' = G[landed']
    <3>1. Changed \subseteq Changed'
      BY <1>1 DEF Changed
    <3> QED
      BY <1>1, <1>2, <1>5, <1>11, <3>1 DEF Story
  <2> QED
    BY <1>11, <2>1, <2>2, <2>3, <2>4, <2>5 DEF Story
<1> QED
  BY <1>1, <1>2, <1>9, <1>12 DEF FoldersInv

(* A read whose answer is lost changes nothing, a request the server never  *)
(* took neither.                                                            *)
LEMMA FailsFoldersInv ==
  ASSUME FoldersInv, NEW w \in asked, BoardFails(w)
  PROVE  FoldersInv'
<1>1. /\ asked' = asked \ {w} /\ UNCHANGED <<kept, shown, turns, landed>>
      /\ astray' = (astray \/ (w.done /\ w.kind # "fetch"))
  BY DEF BoardFails
<1>2. astray' \in BOOLEAN
  BY <1>1
<1> SUFFICES ASSUME ~astray'
             PROVE  FoldersInv'
  BY <1>2 DEF FoldersInv
<1>3. ~astray /\ w \notin Changed
  BY <1>1 DEF FoldersInv, Changed
<1>4. Changed' = Changed
  BY <1>1, <1>3 DEF Changed
<1>5. AskedFits'
  BY <1>1, <1>3 DEF AskedFits, FoldersInv
<1>6. PICK H : Story(H)
  BY <1>3 DEF FoldersInv
<1>7. Story(H)'
  BY <1>1, <1>4, <1>6 DEF Story, Took
<1> QED
  BY <1>1, <1>2, <1>3, <1>5, <1>7 DEF FoldersInv

(* A change that does not overtake another meets the board it was served    *)
(* on, and makes of it what the server made of it; a read brings the        *)
(* folders of its turn, and nothing else while changes from before it are   *)
(* still to come.                                                           *)
LEMMA LandsFoldersInv ==
  ASSUME FoldersInv, NEW w \in asked, BoardLands(w)
  PROVE  FoldersInv'
<1>1. /\ w.done /\ asked' = asked \ {w} /\ UNCHANGED <<kept, turns>>
      /\ shown' = Applied(shown, w) /\ landed' = Max({landed, w.turn})
      /\ astray' = (astray \/ w.turn < landed \/ Overtakes(w))
  BY DEF BoardLands
<1>2. astray' \in BOOLEAN
  BY <1>1
<1> SUFFICES ASSUME ~astray'
             PROVE  FoldersInv'
  BY <1>2 DEF FoldersInv
<1>3. ~astray /\ ~(w.turn < landed) /\ ~Overtakes(w)
  BY <1>1 DEF FoldersInv
<1>4. /\ turns \in Nat /\ landed \in 0..turns /\ AskedFits /\ IsBoard(shown)
      /\ w.kind \in Kinds
  BY <1>3 DEF FoldersInv, AskedFits, IsRequest
<1>5. w.turn \in 1..turns /\ landed < w.turn
  BY <1>1, <1>3, <1>4 DEF AskedFits
<1>6. landed' = w.turn
  BY <1>1, <1>4, <1>5, MaxOfTwo
<1>7. PICK H : Story(H)
  BY <1>3 DEF FoldersInv
<1>8. /\ Took(H, w) /\ IsBoard(H[w.turn]) /\ IsBoard(H[w.turn - 1])
      /\ w.turn - 1 \in landed..turns /\ w.turn \in landed..turns
  BY <1>1, <1>4, <1>5, <1>7 DEF Story
<1>9. AskedFits'
  BY <1>1, <1>4, <1>6 DEF AskedFits
<1>10. Changed' = Changed \ {w}
  BY <1>1 DEF Changed
<1>11. /\ IsBoard(shown') /\ shown'.tree = H[w.turn].tree /\ shown'.order = H[w.turn].order
       /\ (\A u \in Changed' : w.turn < u.turn) => shown' = H[w.turn]
  <2>1. CASE w.kind # "fetch"
    <3>1. \A u \in Changed : w.turn <= u.turn
      BY <1>3, <1>4, <1>5, <2>1 DEF Overtakes, Changed, AskedFits
    <3>2. shown = H[landed]
      BY <1>4, <1>5, <1>7, <3>1 DEF Story, Changed, AskedFits
    <3>3. H[landed] = H[w.turn - 1]
      <4>1. SUFFICES ASSUME H[landed] # H[w.turn - 1]
                     PROVE  FALSE
        OBVIOUS
      <4>2. PICK u \in Changed : landed < u.turn /\ u.turn <= w.turn - 1
        BY <1>4, <1>5, <1>7, <1>8, <4>1 DEF Story
      <4>3. u.turn \in Int
        BY <1>4 DEF Changed, AskedFits
      <4> QED
        BY <1>5, <3>1, <4>2, <4>3
    <3>4. Applied(H[w.turn - 1], w) = Served(H[w.turn - 1], w)
      BY <1>4, <1>8, AppliedIsServed DEF Took
    <3> QED
      BY <1>1, <1>8, <3>2, <3>3, <3>4 DEF Took
  <2>2. CASE w.kind = "fetch"
    <3>1. shown' = [shown EXCEPT !.tree = H[w.turn].tree, !.order = H[w.turn].order]
      <4>1. w.answer = [tree |-> H[w.turn].tree, order |-> H[w.turn].order]
        BY <1>8, <2>2 DEF Took, Answered
      <4>2. w.answer.tree = H[w.turn].tree /\ w.answer.order = H[w.turn].order
        BY <4>1
      <4>3. shown' = FoldersFetched(shown, w.answer)
        BY <1>1, <2>2 DEF Applied
      <4> QED
        BY <4>2, <4>3 DEF FoldersFetched
    <3>2. shown = [tree |-> shown.tree, order |-> shown.order, home |-> shown.home, place |-> shown.place]
      BY <1>4 DEF IsBoard
    <3>3. shown' = [tree |-> H[w.turn].tree, order |-> H[w.turn].order, home |-> shown.home, place |-> shown.place]
      BY <3>1, <3>2
    <3>4. IsBoard(shown')
      BY <1>4, <1>8, <3>3 DEF IsBoard
    <3>5. ASSUME \A u \in Changed' : w.turn < u.turn
          PROVE  shown' = H[w.turn]
      <4>1. \A u \in Changed : w.turn < u.turn
        BY <1>10, <2>2, <3>5 DEF Changed
      <4>2. \A u \in Changed : landed < u.turn /\ u.turn \in Int
        BY <1>4, <1>5, <4>1 DEF Changed, AskedFits
      <4>3. shown = H[landed]
        BY <1>7, <4>2 DEF Story
      <4>4. H[landed] = H[w.turn]
        <5>1. SUFFICES ASSUME H[landed] # H[w.turn]
                       PROVE  FALSE
          OBVIOUS
        <5>2. PICK u \in Changed : landed < u.turn /\ u.turn <= w.turn
          BY <1>4, <1>5, <1>7, <1>8, <5>1 DEF Story
        <5> QED
          BY <1>5, <4>1, <4>2, <5>2
      <4> QED
        BY <3>2, <3>3, <4>3, <4>4
    <3> QED
      BY <3>3, <3>4, <3>5
  <2> QED
    BY <2>1, <2>2
<1>12. Story(H)'
  <2>1. \A u \in asked' : u.done => Took(H, u)
    BY <1>1, <1>7 DEF Story
  <2>2. ASSUME NEW i \in landed'..turns', NEW j \in landed'..turns', i <= j, H[i] # H[j]
        PROVE  \E u \in Changed' : i < u.turn /\ u.turn <= j
    <3>1. i \in landed..turns /\ j \in landed..turns /\ w.turn <= i
      BY <1>1, <1>4, <1>5, <1>6, <2>2
    <3>2. PICK u \in Changed : i < u.turn /\ u.turn <= j
      BY <1>7, <2>2, <3>1 DEF Story
    <3>3. u # w
      BY <1>5, <3>1, <3>2
    <3> QED
      BY <1>10, <3>2, <3>3
  <2>3. H[turns'] = kept' /\ \A i \in 0..turns' : IsBoard(H[i])
    BY <1>1, <1>7 DEF Story
  <2> QED
    BY <1>6, <1>11, <2>1, <2>2, <2>3 DEF Story, Took
<1> QED
  BY <1>1, <1>2, <1>3, <1>4, <1>5, <1>6, <1>9, <1>11, <1>12 DEF FoldersInv

LEMMA MoveIsRequest ==
  ASSUME NEW kind \in Kinds, NEW id, NEW to, NEW ids
  PROVE  IsRequest(Move(kind, id, to, ids)) /\ ~Move(kind, id, to, ids).done /\ Move(kind, id, to, ids).kind = kind
         /\ Move(kind, id, to, ids).id = id
BY DEF IsRequest, Move

LEMMA NextFoldersInv == FoldersInv /\ [FoldersNext]_boardVars => FoldersInv'
<1> SUFFICES ASSUME FoldersInv, [FoldersNext]_boardVars
             PROVE  FoldersInv'
  OBVIOUS
<1>1. ASSUME NEW kind \in Kinds \ {"create"}, NEW id, NEW to, NEW ids, Sends(Move(kind, id, to, ids))
      PROVE  FoldersInv'
  BY <1>1, MoveIsRequest, SendsFoldersInv
<1>2. ASSUME NEW f \in Folders, NEW to, CreateIn(f, to)
      PROVE  FoldersInv'
  <2>1. "create" \in Kinds
    BY DEF Kinds
  <2> QED
    BY <1>2, <2>1, MoveIsRequest, SendsFoldersInv DEF CreateIn
<1>3. CASE FetchFolders
  BY <1>1, <1>3 DEF FetchFolders, Kinds
<1>4. ASSUME NEW f, NEW to, MoveShelf(f, to)
      PROVE  FoldersInv'
  BY <1>1, <1>4 DEF MoveShelf, Kinds
<1>5. ASSUME NEW f, Rename(f) \/ DeleteShelf(f)
      PROVE  FoldersInv'
  BY <1>1, <1>5 DEF Rename, DeleteShelf, Kinds
<1>6. ASSUME NEW f, NEW g, NEW after, DropAtFolder(f, g, after)
      PROVE  FoldersInv'
  BY <1>1, <1>6 DEF DropAtFolder, Kinds
<1>7. ASSUME NEW c, NEW to, MoveCard(c, to)
      PROVE  FoldersInv'
  BY <1>1, <1>7 DEF MoveCard, Kinds
<1>8. ASSUME NEW c, NEW d, NEW after, DropAtCard(c, d, after)
      PROVE  FoldersInv'
  BY <1>1, <1>8 DEF DropAtCard, Kinds
<1>9. CASE UNCHANGED boardVars
  BY <1>9 DEF boardVars, FoldersInv, AskedFits, Story, Took, Changed
<1> QED
  BY <1>2, <1>3, <1>4, <1>5, <1>6, <1>7, <1>8, <1>9, ServeFoldersInv, LandsFoldersInv, FailsFoldersInv
  DEF FoldersNext, FolderGestures

LEMMA FoldersInvariance == FoldersSpec => []FoldersInv
BY InitFoldersInv, NextFoldersInv, PTL DEF FoldersSpec

(* Once no request is under way the list is the server's: every change the  *)
(* server made has landed, in turn, and the stores redid it alike           *)
(* (stores/folders.ts, stores/connections.ts).                              *)
THEOREM FoldersShowTheServerHolds == FoldersSpec => []FoldersShowTheServer
<1>1. FoldersInv => FoldersShowTheServer
  <2> SUFFICES ASSUME FoldersInv, asked = {}, ~astray
               PROVE  shown = kept
    BY DEF FoldersShowTheServer
  <2>1. PICK H : Story(H)
    BY DEF FoldersInv
  <2>2. Changed = {}
    BY DEF Changed
  <2>3. shown = H[landed] /\ H[landed] = H[turns] /\ H[turns] = kept
    BY <2>1, <2>2 DEF Story, FoldersInv
  <2> QED
    BY <2>3
<1> QED
  BY <1>1, FoldersInvariance, PTL

LEMMA CardsAreFinite == IsFiniteSet(Cards)
<1>1. CardList \in Seq(Cards)
  BY ConnectionFoldersAssumption
<1>2. PICK n \in Nat : CardList \in [1..n -> Cards]
  BY <1>1
<1>3. CardList \in Surjection(1..n, Cards)
  BY <1>2 DEF Surjection, Cards, Range
<1> QED
  BY <1>3, FS_Interval, FS_Surjection

(* In a forest the walk from the top reaches every folder.                  *)
LEMMA ForestIsReached ==
  ASSUME NEW b, IsBoard(b)
  PROVE  ShownTree(b) = b.tree /\ Reached(b) = DOMAIN b.tree
<1>1. b.tree = [f \in DOMAIN b.tree |-> b.tree[f]] /\ Forest(b.tree)
  BY TreeIs DEF IsBoard
<1>2. \A f \in DOMAIN b.tree : ParentOf(b, b.tree[f]) = b.tree[f]
  BY <1>1 DEF ParentOf, Forest, ParentsExist, FolderExists
<1>3. ShownTree(b) = b.tree
  BY <1>1, <1>2 DEF ShownTree
<1> QED
  BY <1>1, <1>3 DEF Reached, IsLost, Forest, ParentsExist, Acyclic

(* Whatever the tab, the tags and the search leave over, each connection    *)
(* left over is on the list, in its folder or at top level, and without a   *)
(* filter so is every folder (lib/connectionFolders.ts): the folders shown  *)
(* are a forest in every state, and a folder that holds something left over *)
(* is pruned nowhere on its way up.                                         *)
THEOREM NothingVanishesHolds == FoldersSpec => []NothingVanishes
<1>1. FoldersInv => NothingVanishes
  <2> SUFFICES ASSUME FoldersInv, ~astray
               PROVE  NothingVanishes
    BY DEF NothingVanishes
  <2>1. IsBoard(shown) /\ ShownTree(shown) = shown.tree /\ Reached(shown) = DOMAIN shown.tree
    BY ForestIsReached DEF FoldersInv
  <2>2. KeptFolders(shown, {}, "all") = DOMAIN shown.tree
    BY <2>1 DEF KeptFolders, PrunedBy
  <2>3. ASSUME NEW cards \in SUBSET DOMAIN shown.home, NEW left \in {"filter", "search"}, NEW c \in cards
        PROVE  ParentOf(shown, shown.home[c]) \in KeptFolders(shown, cards, left) \cup {Root}
    <3> DEFINE f == shown.home[c]
    <3>1. SUFFICES ASSUME ParentOf(shown, f) # Root
                   PROVE  f \in KeptFolders(shown, cards, left) /\ ParentOf(shown, f) = f
      OBVIOUS
    <3>2. ParentOf(shown, f) = f /\ f \in DOMAIN shown.tree
      BY <3>1 DEF ParentOf
    <3>3. ASSUME NEW g \in DOMAIN shown.tree, IsWithinFolder(ShownTree(shown), f, g)
          PROVE  Total(shown, cards, g) > 0
      <4> DEFINE Counted == {d \in cards \cap DOMAIN shown.home :
                               /\ ParentOf(shown, shown.home[d]) # Root
                               /\ IsWithinFolder(ShownTree(shown), shown.home[d], g)}
      <4>1. c \in Counted
        BY <2>3, <3>1, <3>3
      <4>2. IsFiniteSet(Counted)
        <5>1. Counted \in SUBSET Cards
          BY <2>1 DEF IsBoard
        <5> QED
          BY <5>1, CardsAreFinite, FS_Subset
      <4>3. Cardinality(Counted) \in Nat /\ Cardinality(Counted) # 0
        BY <4>1, <4>2, FS_CardinalityType, FS_EmptySet
      <4> QED
        BY <4>3 DEF Total
    <3> QED
      BY <2>1, <3>2, <3>3 DEF KeptFolders
  <2> QED
    BY <2>2, <2>3 DEF NothingVanishes
<1> QED
  BY <1>1, FoldersInvariance, PTL

-----------------------------------------------------------------------------
(* The workspace of the browser. *)

(* A tab is on a connection there may be, on its own page or on another's. *)
IsTab(t) ==
  /\ t = [kind |-> t.kind, id |-> t.id, conn |-> t.conn, anchor |-> t.anchor, object |-> t.object,
          filter |-> t.filter, trail |-> t.trail]
  /\ t.conn \in Ids /\ t.anchor \in Ids \cup {Nil}
AreTabs(ts) == ts \in Seq({ts[i] : i \in DOMAIN ts}) /\ \A i \in DOMAIN ts : IsTab(ts[i])

(* What the browser and its storage know are connections there may be. *)
PlacesInv ==
  /\ AreTabs(tabs) /\ page \in Ids \cup {Nil} /\ chips \subseteq Ids /\ view \in [Ids -> Ids]
  /\ stored \subseteq Stored /\ list \subseteq Stored /\ made \subseteq Stored
  /\ fetching \in {Nil, Reading} \cup SUBSET Stored /\ lookup \in Ids \cup {Nil}
  /\ storage \notin {Nil, Malformed} => AreTabs(storage.tabs) /\ storage.chips \subseteq Ids

WorkspaceInv == PlacesInv /\ SessionsHaveTheirTab

LEMMA NewTabIsTab ==
  ASSUME NEW kind, NEW id, NEW c \in Ids
  PROVE  IsTab(NewTab(kind, id, c))
BY DEF IsTab, NewTab

LEMMA ObjectTabIsTab ==
  ASSUME NEW c \in Ids, NEW a \in Ids \cup {Nil}, NEW o, NEW fs, NEW trail
  PROVE  IsTab(ObjectTab(c, a, o, fs, trail))
<1>1. PICK t : t = NewTab("object", ObjectId(c, o, fs), c)
  OBVIOUS
<1>2. IsTab(t)
  BY <1>1, NewTabIsTab
<1>3. PICK u : u = [t EXCEPT !.anchor = a, !.object = o, !.filter = fs, !.trail = trail]
  OBVIOUS
<1>4. IsTab(u)
  BY <1>2, <1>3 DEF IsTab
<1> QED
  BY <1>1, <1>3, <1>4 DEF ObjectTab

LEMMA OwnElements ==
  ASSUME NEW S, NEW s \in Seq(S)
  PROVE  s \in Seq({s[i] : i \in DOMAIN s})
OBVIOUS

LEMMA TabsGrow ==
  ASSUME NEW ts, AreTabs(ts), NEW t, IsTab(t)
  PROVE  AreTabs(Append(ts, t))
<1>1. PICK S : ts \in Seq(S)
  BY DEF AreTabs
<1>2. PICK us : us = Append(ts, t)
  OBVIOUS
<1>3. us \in Seq(S \cup {t}) /\ \A i \in DOMAIN us : us[i] = t \/ (i \in DOMAIN ts /\ us[i] = ts[i])
  BY <1>1, <1>2
<1>4. us \in Seq({us[i] : i \in DOMAIN us})
  BY <1>3, OwnElements
<1> QED
  BY <1>2, <1>3, <1>4 DEF AreTabs

LEMMA TabsKept ==
  ASSUME NEW ts, AreTabs(ts), NEW I \in SUBSET DOMAIN ts
  PROVE  /\ AreTabs(Filtered(ts, I))
         /\ \A k \in DOMAIN Filtered(ts, I) : \E i \in I : Filtered(ts, I)[k] = ts[i]
<1>1. PICK S : ts \in Seq(S)
  BY DEF AreTabs
<1>2. /\ Filtered(ts, I) \in Seq(S) /\ Len(Filtered(ts, I)) = Cardinality(I) /\ Cardinality(I) \in Nat
      /\ \A k \in 1..Cardinality(I) : Nth(I, k) \in I /\ Filtered(ts, I)[k] = ts[Nth(I, k)]
  BY <1>1, FilteredOfSequence
<1>3. \A k \in DOMAIN Filtered(ts, I) : \E i \in I : Filtered(ts, I)[k] = ts[i]
  BY <1>2
<1>4. Filtered(ts, I) \in Seq({Filtered(ts, I)[k] : k \in DOMAIN Filtered(ts, I)})
  BY <1>2, OwnElements
<1>5. \A i \in I : IsTab(ts[i])
  BY DEF AreTabs
<1> QED
  BY <1>3, <1>4, <1>5 DEF AreTabs

LEMMA TabsChanged ==
  ASSUME NEW ts, AreTabs(ts), NEW us, DOMAIN us = DOMAIN ts, us = [i \in DOMAIN ts |-> us[i]],
         \A i \in DOMAIN ts : IsTab(us[i])
  PROVE  AreTabs(us)
<1>1. Len(ts) \in Nat /\ DOMAIN ts = 1..Len(ts)
  BY DEF AreTabs
<1> QED
  BY <1>1 DEF AreTabs

LEMMA SessionsEnd ==
  ASSUME SessionsHaveTheirTab, NEW new, tabs' = new, EndSessions(new), UNCHANGED sessionVars
  PROVE  SessionsHaveTheirTab'
BY DEF SessionsHaveTheirTab, EndSessions, sessionVars

LEMMA BecomeKeeps ==
  ASSUME SessionsHaveTheirTab, NEW new, AreTabs(new), NEW id, Become(new, id), UNCHANGED sessionVars
  PROVE  AreTabs(tabs') /\ SessionsHaveTheirTab'
BY SessionsEnd DEF Become

(* A gesture on the page that changes the tabs, if anything. *)
LEMMA HereKeeps ==
  ASSUME WorkspaceInv, UNCHANGED <<page, sameData, chips>>,
         NEW new, AreTabs(new), NEW id, Become(new, id)
  PROVE  WorkspaceInv'
<1>1. UNCHANGED sessionVars
  BY DEF sameData
<1> QED
  BY <1>1, BecomeKeeps DEF WorkspaceInv, PlacesInv, sameData, serverVars

LEMMA SameTabsKeep ==
  ASSUME WorkspaceInv, UNCHANGED <<tabs, chips, page, serverVars, lookup, storage>>,
         view' = view \/ (page \in Ids /\ \E c \in Ids : view' = [view EXCEPT ![page] = c]),
         sessions' \subseteq Targets(tabs) \cup ending' \cup orphans'
  PROVE  WorkspaceInv'
BY DEF WorkspaceInv, PlacesInv, SessionsHaveTheirTab, serverVars

(* No session changes, nor what is said to be ended. *)
LEMMA SameSessions ==
  ASSUME SessionsHaveTheirTab, UNCHANGED <<tabs, ending, sessionVars>>
  PROVE  sessions' \subseteq Targets(tabs) \cup ending' \cup orphans' /\ SessionsHaveTheirTab'
BY DEF SessionsHaveTheirTab, sessionVars

LEMMA OpensTabKeeps ==
  ASSUME AreTabs(tabs), SessionsHaveTheirTab, NEW c \in Ids, NEW a \in Ids, NEW o, OpensTab(c, o, a), UNCHANGED sessionVars
  PROVE  AreTabs(tabs') /\ SessionsHaveTheirTab'
<1> DEFINE id == ObjectId(c, o, {})
           t == ObjectTab(c, IF a = c THEN Nil ELSE a, o, {}, <<id>>)
<1>1. CASE Activate(id)
  BY <1>1, BecomeKeeps DEF Activate
<1>2. CASE Become(Append(tabs, t), id)
  <2>1. IsTab(t)
    BY ObjectTabIsTab
  <2>2. AreTabs(Append(tabs, t))
    BY <2>1, TabsGrow
  <2> QED
    BY <1>2, <2>2, BecomeKeeps
<1> QED
  BY <1>1, <1>2 DEF OpensTab

LEMMA OpensWithFilterKeeps ==
  ASSUME AreTabs(tabs), SessionsHaveTheirTab, NEW c \in Ids, NEW o, NEW f, OpensWithFilter(c, o, f), UNCHANGED sessionVars
  PROVE  AreTabs(tabs') /\ SessionsHaveTheirTab'
<1> DEFINE id == ObjectId(c, o, {f})
           t == ObjectTab(c, Nil, o, {f}, Append(BaseTrail, id))
<1>1. CASE Activate(Head(Showing(c, o, {f})).id)
  BY <1>1, BecomeKeeps DEF Activate
<1>2. CASE Become(Append(tabs, t), id)
  <2>1. IsTab(t)
    BY ObjectTabIsTab
  <2>2. AreTabs(Append(tabs, t))
    BY <2>1, TabsGrow
  <2> QED
    BY <1>2, <2>2, BecomeKeeps
<1> QED
  BY <1>1, <1>2 DEF OpensWithFilter, OpensFiltered

LEMMA TabsAreTabs ==
  ASSUME AreTabs(tabs), NEW t \in ToSet(tabs)
  PROVE  IsTab(t) /\ Page(t) \in Ids /\ t \in {tabs[i] : i \in DOMAIN tabs}
BY DEF AreTabs, IsTab, ToSet, Page

LEMMA TabFieldsChange ==
  ASSUME NEW t, IsTab(t), NEW fs, NEW trail, NEW c \in Ids, NEW a \in Ids \cup {Nil}
  PROVE  /\ IsTab([t EXCEPT !.filter = fs, !.trail = trail])
         /\ IsTab([t EXCEPT !.conn = c, !.anchor = a])
         /\ IsTab([t EXCEPT !.trail = trail])
<1>1. PICK u, v, w : /\ u = [t EXCEPT !.filter = fs, !.trail = trail]
                     /\ v = [t EXCEPT !.conn = c, !.anchor = a]
                     /\ w = [t EXCEPT !.trail = trail]
  OBVIOUS
<1>2. IsTab(u)
  BY <1>1 DEF IsTab
<1>3. IsTab(v)
  BY <1>1 DEF IsTab
<1>4. IsTab(w)
  BY <1>1 DEF IsTab
<1> QED
  BY <1>1, <1>2, <1>3, <1>4

LEMMA OpenFromTreeKeeps ==
  ASSUME WorkspaceInv, NEW o, OpenFromTree(o)
  PROVE  WorkspaceInv'
<1>1. page \in Ids /\ view[page] \in Ids /\ AreTabs(tabs) /\ SessionsHaveTheirTab /\ UNCHANGED sessionVars
  BY DEF WorkspaceInv, PlacesInv, OpenFromTree, Here, sameData
<1>2. AreTabs(tabs') /\ SessionsHaveTheirTab'
  BY <1>1, OpensTabKeeps DEF OpenFromTree
<1> QED
  BY <1>2 DEF WorkspaceInv, PlacesInv, OpenFromTree, Here, sameData, serverVars, pageVars, addressVars

LEMMA OpenNumberedKeeps ==
  ASSUME WorkspaceInv, NEW kind, OpenNumbered(kind)
  PROVE  WorkspaceInv'
<1>1. PICK id : Become(Append(tabs, NewTab(kind, id, page)), id)
  BY DEF OpenNumbered
<1>2. page \in Ids /\ AreTabs(tabs) /\ UNCHANGED <<page, sameData, chips>>
  BY DEF WorkspaceInv, PlacesInv, OpenNumbered, Here, pageVars, addressVars
<1>3. AreTabs(Append(tabs, NewTab(kind, id, page)))
  BY <1>2, NewTabIsTab, TabsGrow
<1> QED
  BY <1>1, <1>2, <1>3, HereKeeps

LEMMA OpenOverviewTabKeeps ==
  ASSUME WorkspaceInv, OpenOverviewTab
  PROVE  WorkspaceInv'
<1> DEFINE id == OverviewId(page)
<1>1. page \in Ids /\ AreTabs(tabs) /\ UNCHANGED <<page, sameData, chips>>
  BY DEF WorkspaceInv, PlacesInv, OpenOverviewTab, Here, pageVars, addressVars
<1>2. AreTabs(Append(tabs, NewTab("overview", id, page)))
  BY <1>1, NewTabIsTab, TabsGrow
<1>3. Become(tabs, id) \/ Become(Append(tabs, NewTab("overview", id, page)), id)
  BY DEF OpenOverviewTab, Activate
<1> QED
  BY <1>1, <1>2, <1>3, HereKeeps

LEMMA SetActiveTabKeeps ==
  ASSUME WorkspaceInv, NEW t, SetActiveTab(t)
  PROVE  WorkspaceInv'
<1>1. AreTabs(tabs) /\ Become(tabs, t.id) /\ UNCHANGED <<page, sameData, chips>>
  BY DEF WorkspaceInv, PlacesInv, SetActiveTab, Here, pageVars, addressVars, Activate
<1> QED
  BY <1>1, HereKeeps

LEMMA NavigateToFkKeeps ==
  ASSUME WorkspaceInv, NEW o, NEW f, NavigateToFk(o, f)
  PROVE  WorkspaceInv'
<1>1. AreTabs(tabs) /\ SessionsHaveTheirTab /\ UNCHANGED sessionVars
  BY DEF WorkspaceInv, PlacesInv, NavigateToFk, Here, sameData
<1>2. PICK t \in ToSet(tabs) : OpensWithFilter(t.conn, o, f)
  BY DEF NavigateToFk, ShownObject
<1>3. t.conn \in Ids
  BY <1>1, TabsAreTabs DEF IsTab
<1>4. AreTabs(tabs') /\ SessionsHaveTheirTab'
  BY <1>1, <1>2, <1>3, OpensWithFilterKeeps
<1> QED
  BY <1>4 DEF WorkspaceInv, PlacesInv, NavigateToFk, Here, sameData, serverVars, pageVars, addressVars

LEMMA GoBackFromTabKeeps ==
  ASSUME WorkspaceInv, GoBackFromTab
  PROVE  WorkspaceInv'
<1>1. AreTabs(tabs) /\ UNCHANGED <<page, sameData, chips>>
  BY DEF WorkspaceInv, PlacesInv, GoBackFromTab, Here, pageVars, addressVars
<1>2. PICK t : \E id : Become(TabsBut(t.id), id)
  BY DEF GoBackFromTab
<1>3. AreTabs(TabsBut(t.id))
  BY <1>1, TabsKept DEF TabsBut
<1> QED
  BY <1>1, <1>2, <1>3, HereKeeps

LEMMA HandleClearFiltersKeeps ==
  ASSUME WorkspaceInv, HandleClearFilters
  PROVE  WorkspaceInv'
<1>1. AreTabs(tabs) /\ UNCHANGED <<page, sameData, chips>>
  BY DEF WorkspaceInv, PlacesInv, HandleClearFilters, addressVars
<1>2. PICK t : Become([i \in DOMAIN tabs |->
                    IF tabs[i].id = t.id THEN [tabs[i] EXCEPT !.filter = {}, !.trail = <<t.id>>]
                    ELSE tabs[i]], active)
  BY DEF HandleClearFilters
<1>3. PICK us : us = [i \in DOMAIN tabs |->
                    IF tabs[i].id = t.id THEN [tabs[i] EXCEPT !.filter = {}, !.trail = <<t.id>>]
                    ELSE tabs[i]]
  OBVIOUS
<1>4. \A i \in DOMAIN tabs : IsTab(tabs[i])
  BY <1>1 DEF AreTabs
<1>5. \A i \in DOMAIN tabs : IsTab([tabs[i] EXCEPT !.filter = {}, !.trail = <<t.id>>])
  <2> SUFFICES ASSUME NEW i \in DOMAIN tabs
               PROVE  IsTab([tabs[i] EXCEPT !.filter = {}, !.trail = <<t.id>>])
    OBVIOUS
  <2>1. tabs[i].conn \in Ids /\ Nil \in Ids \cup {Nil}
    BY <1>4 DEF IsTab
  <2> QED
    BY <1>4, <2>1, TabFieldsChange
<1>6. AreTabs(us)
  BY <1>1, <1>3, <1>4, <1>5, TabsChanged
<1> QED
  BY <1>1, <1>2, <1>3, <1>6, HereKeeps

LEMMA RebindSqlTabKeeps ==
  ASSUME WorkspaceInv, NEW c \in Ids, RebindSqlTab(c)
  PROVE  WorkspaceInv'
<1>1. AreTabs(tabs) /\ UNCHANGED <<page, sameData, chips>>
  BY DEF WorkspaceInv, PlacesInv, RebindSqlTab, Here, pageVars, addressVars
<1>2. PICK t \in ToSet(tabs) :
        Become([i \in DOMAIN tabs |->
                  IF tabs[i].id = t.id
                  THEN [tabs[i] EXCEPT !.conn = c, !.anchor = IF c = Page(t) THEN Nil ELSE Page(t)]
                  ELSE tabs[i]], active)
  BY DEF RebindSqlTab, ShownConsole
<1>3. PICK us : us = [i \in DOMAIN tabs |->
                  IF tabs[i].id = t.id
                  THEN [tabs[i] EXCEPT !.conn = c, !.anchor = IF c = Page(t) THEN Nil ELSE Page(t)]
                  ELSE tabs[i]]
  OBVIOUS
<1>4. \A i \in DOMAIN tabs : IsTab(tabs[i])
  BY <1>1 DEF AreTabs
<1>5. PICK a \in Ids \cup {Nil} : a = IF c = Page(t) THEN Nil ELSE Page(t)
  BY <1>1, TabsAreTabs
<1>6. \A i \in DOMAIN tabs : IsTab([tabs[i] EXCEPT !.conn = c, !.anchor = a])
  BY <1>4, TabFieldsChange
<1>7. AreTabs(us)
  BY <1>1, <1>3, <1>4, <1>5, <1>6, TabsChanged
<1> QED
  BY <1>1, <1>2, <1>3, <1>7, HereKeeps

LEMMA SameTabsActionsKeep ==
  ASSUME WorkspaceInv,
         \/ \E fs : HandleFilterChange(fs)
         \/ \E c \in Ids : SetTreeConn(c)
         \/ TypeDraft
         \/ \E begins : RunStatements(begins)
         \/ \E r \in runs : RunLands(r) \/ RunFails(r)
         \/ \E s \in ending : EndLands(s) \/ EndIsLost(s)
         \/ \E c : LookUp(c) /\ c \in list
         \/ LookupFails
  PROVE  WorkspaceInv'
<1>0. SessionsHaveTheirTab
  BY DEF WorkspaceInv
<1>1. CASE \E fs : HandleFilterChange(fs)
  BY <1>0, <1>1, SameSessions, SameTabsKeep DEF HandleFilterChange, Here, sameData, tabVars, pageVars, addressVars
<1>2. CASE \E c \in Ids : SetTreeConn(c)
  <2>1. page \in Ids
    BY <1>2 DEF WorkspaceInv, PlacesInv, SetTreeConn
  <2> QED
    BY <1>0, <1>2, <2>1, SameSessions, SameTabsKeep DEF SetTreeConn, tabVars, pageVars, addressVars
<1>3. CASE TypeDraft
  BY <1>0, <1>3, SameSessions, SameTabsKeep DEF TypeDraft, Here, sameData, tabVars, pageVars, addressVars
<1>4. CASE \E begins : RunStatements(begins)
  BY <1>0, <1>4, SameTabsKeep DEF RunStatements, clientData, tabVars, pageVars, addressVars, SessionsHaveTheirTab
<1>5. CASE \E r \in runs : RunLands(r) \/ RunFails(r)
  <2>1. PICK r \in runs : RunLands(r) \/ RunFails(r)
    BY <1>5
  <2>2. sessions' \subseteq Targets(tabs) \cup ending' \cup orphans'
    BY <1>0, <2>1 DEF RunLands, RunFails, tabVars, SessionsHaveTheirTab
  <2> QED
    BY <2>1, <2>2, SameTabsKeep DEF RunLands, RunFails, notSessions, clientData, tabVars, pageVars, addressVars
<1>6. CASE \E s \in ending : EndLands(s) \/ EndIsLost(s)
  <2>1. PICK s \in ending : EndLands(s) \/ EndIsLost(s)
    BY <1>6
  <2>2. sessions' \subseteq Targets(tabs) \cup ending' \cup orphans'
    BY <1>0, <2>1 DEF EndLands, EndIsLost, SessionsHaveTheirTab
  <2> QED
    BY <2>1, <2>2, SameTabsKeep DEF EndLands, EndIsLost, notSessions, clientData, pageVars, addressVars
<1>7. CASE \E c : LookUp(c) /\ c \in list
  <2>1. UNCHANGED <<tabs, ending, sessionVars, chips, page, view, serverVars, storage>>
    BY <1>7 DEF LookUp, tabVars, pageVars, addressVars
  <2>2. lookup' \in Ids
    BY <1>7 DEF LookUp, WorkspaceInv, PlacesInv, Ids
  <2> QED
    BY <1>0, <2>1, <2>2, SameSessions DEF WorkspaceInv, PlacesInv, serverVars
<1>8. CASE LookupFails
  <2>1. UNCHANGED <<tabs, ending, sessionVars, chips, page, view, serverVars, storage>> /\ lookup' = Nil
    BY <1>8 DEF LookupFails, tabVars, pageVars, addressVars
  <2> QED
    BY <1>0, <2>1, SameSessions DEF WorkspaceInv, PlacesInv, serverVars
<1> QED
  BY <1>1, <1>2, <1>3, <1>4, <1>5, <1>6, <1>7, <1>8

LEMMA ClosingKeeps ==
  ASSUME WorkspaceInv, NEW new, AreTabs(new), NEW id, Closing(new, id), UNCHANGED <<chips, page>>
  PROVE  WorkspaceInv'
BY HereKeeps DEF Closing, sameData

LEMMA AloneIsTab ==
  ASSUME NEW t, IsTab(t), NEW trail
  PROVE  IsTab(Alone(t, trail))
BY DEF Alone, IsTab

LEMMA CutIsTab ==
  ASSUME NEW t, IsTab(t), NEW id
  PROVE  IsTab(Cut(t, id))
BY AloneIsTab DEF Cut

LEMMA KeptAreTabs ==
  ASSUME NEW ks, AreTabs(ks)
  PROVE  AreTabs(Kept(ks))
<1>1. \A i \in DOMAIN ks : IsTab(ks[i])
  BY DEF AreTabs
<1>2. PICK us : us = Kept(ks)
  OBVIOUS
<1>3. DOMAIN us = DOMAIN ks /\ us = [i \in DOMAIN ks |-> us[i]]
  BY <1>2 DEF Kept
<1>4. \A i \in DOMAIN ks : IsTab(us[i])
  BY <1>1, <1>2, AloneIsTab DEF Kept
<1> QED
  BY <1>2, <1>3, <1>4, TabsChanged

LEMMA CloseTabKeeps ==
  ASSUME WorkspaceInv, NEW t, CloseTab(t)
  PROVE  WorkspaceInv'
<1>1. AreTabs(tabs) /\ UNCHANGED <<chips, page>>
  BY DEF WorkspaceInv, PlacesInv, CloseTab, pageVars, addressVars
<1>2. PICK rest : rest = TabsBut(t.id)
  OBVIOUS
<1>3. PICK us : us = [i \in DOMAIN rest |-> Cut(rest[i], t.id)]
  OBVIOUS
<1>4. AreTabs(rest)
  BY <1>1, <1>2, TabsKept DEF TabsBut
<1>5. \A i \in DOMAIN rest : IsTab(us[i])
  BY <1>3, <1>4, CutIsTab DEF AreTabs
<1>6. AreTabs(us)
  BY <1>3, <1>4, <1>5, TabsChanged
<1>7. \E id : Closing(us, id)
  BY <1>2, <1>3 DEF CloseTab
<1> QED
  BY <1>1, <1>6, <1>7, ClosingKeeps

LEMMA BulkClosingKeeps ==
  ASSUME WorkspaceInv, NEW t, CloseOthers(t) \/ CloseToTheRight(t) \/ CloseAllTabs
  PROVE  WorkspaceInv'
<1>1. AreTabs(tabs) /\ UNCHANGED <<chips, page>>
  BY DEF WorkspaceInv, PlacesInv, CloseOthers, CloseToTheRight, CloseAllTabs, pageVars, addressVars
<1>2. CASE CloseOthers(t)
  <2>1. PICK ks : ks = Filtered(tabs, {i \in DOMAIN tabs : tabs[i].id = t.id})
    OBVIOUS
  <2>2. AreTabs(Kept(ks))
    BY <1>1, <2>1, TabsKept, KeptAreTabs
  <2> QED
    BY <1>1, <1>2, <2>1, <2>2, ClosingKeeps DEF CloseOthers
<1>3. CASE CloseToTheRight(t)
  <2>1. PICK ks : ks = Filtered(tabs, {i \in DOMAIN tabs : i < Place(tabs, t) \/ tabs[i].id = t.id})
    OBVIOUS
  <2>2. AreTabs(Kept(ks))
    BY <1>1, <2>1, TabsKept, KeptAreTabs
  <2> QED
    BY <1>1, <1>3, <2>1, <2>2, ClosingKeeps DEF CloseToTheRight
<1>4. CASE CloseAllTabs
  <2>1. AreTabs(<<>>)
    BY DEF AreTabs
  <2> QED
    BY <1>1, <1>4, <2>1, ClosingKeeps DEF CloseAllTabs
<1> QED
  BY <1>2, <1>3, <1>4

LEMMA CloseConnectionKeeps ==
  ASSUME WorkspaceInv, NEW c, CloseConnection(c)
  PROVE  WorkspaceInv'
<1>1. PICK rest : rest = Filtered(tabs, {i \in DOMAIN tabs : Page(tabs[i]) # c})
  OBVIOUS
<1>2. AreTabs(rest)
  BY <1>1, TabsKept DEF WorkspaceInv, PlacesInv
<1>3. tabs' = rest /\ EndSessions(rest) /\ UNCHANGED sessionVars
  BY <1>1 DEF CloseConnection
<1>4. SessionsHaveTheirTab'
  BY <1>3, SessionsEnd DEF WorkspaceInv
<1>5. page' \in Ids \cup {Nil} /\ chips' \subseteq Ids
  BY DEF CloseConnection, WorkspaceInv, PlacesInv, pageVars, addressVars
<1> QED
  BY <1>2, <1>3, <1>4, <1>5 DEF WorkspaceInv, PlacesInv, CloseConnection, serverVars

LEMMA TabGestureKeeps ==
  ASSUME WorkspaceInv, TabGesture
  PROVE  WorkspaceInv'
BY OpenFromTreeKeeps, OpenNumberedKeeps, OpenOverviewTabKeeps, GoBackFromTabKeeps, HandleClearFiltersKeeps,
   NavigateToFkKeeps, SameTabsActionsKeep, RebindSqlTabKeeps, SetActiveTabKeeps, CloseTabKeeps,
   BulkClosingKeeps, CloseConnectionKeeps DEF TabGesture

LEMMA GoesToKeeps ==
  ASSUME NEW c \in Ids, chips \subseteq Ids, GoesTo(c)
  PROVE  page' \in Ids \cup {Nil} /\ chips' \subseteq Ids
BY DEF GoesTo, Visited

LEMMA NavigationKeeps ==
  ASSUME WorkspaceInv,
         \/ \E c \in Ids : Navigate(c)
         \/ \E c \in Ids, o \in Objects, f \in Filters : OpenLink(c, o, f)
         \/ GoHome
         \/ \E c \in (Stored \ NewConns) \cup made, link \in DeepLinks \cup {Nil} : PopState(c, link)
         \/ \E o \in Objects : LookupLands(o)
  PROVE  WorkspaceInv'
<1> USE DEF WorkspaceInv, PlacesInv, serverVars
<1>1. CASE \E c \in Ids : Navigate(c)
  BY <1>1, GoesToKeeps DEF Navigate, elsewhere, tabVars, sessionVars, SessionsHaveTheirTab
<1>2. CASE \E c \in Ids, o \in Objects, f \in Filters : OpenLink(c, o, f)
  <2>1. PICK c \in Ids, o \in Objects, f \in Filters : OpenLink(c, o, f)
    BY <1>2
  <2>2. AreTabs(tabs') /\ SessionsHaveTheirTab'
    BY <2>1, OpensWithFilterKeeps DEF OpenLink
  <2> QED
    BY <2>1, <2>2, GoesToKeeps DEF OpenLink
<1>3. CASE GoHome
  BY <1>3 DEF GoHome, elsewhere, tabVars, sessionVars, SessionsHaveTheirTab
<1>4. CASE \E c \in (Stored \ NewConns) \cup made, link \in DeepLinks \cup {Nil} : PopState(c, link)
  BY <1>4 DEF PopState, Visited, elsewhere, tabVars, sessionVars, SessionsHaveTheirTab, Ids
<1>5. CASE \E o \in Objects : LookupLands(o)
  <2>1. PICK o \in Objects : LookupLands(o)
    BY <1>5
  <2>2. lookup \in Ids
    BY <2>1 DEF LookupLands
  <2>3. AreTabs(tabs') /\ SessionsHaveTheirTab'
    BY <2>1, <2>2, OpensTabKeeps DEF LookupLands
  <2> QED
    BY <2>1, <2>2, <2>3, GoesToKeeps DEF LookupLands
<1> QED
  BY <1>1, <1>2, <1>3, <1>4, <1>5

(* Whatever the page does with its address, it is about connections there may *)
(* be.                                                                        *)
LEMMA PageEffectsKeep ==
  ASSUME WorkspaceInv, PageEffects
  PROVE  WorkspaceInv'
<1>1. page \in Ids
  BY DEF PageEffects, EffectsRun, WorkspaceInv, PlacesInv
<1>2. AreTabs(tabs) /\ UNCHANGED sessionVars /\ SessionsHaveTheirTab
  BY DEF WorkspaceInv, PlacesInv, PageEffects
<1>3. CASE Consume
  <2>1. PICK link : link = Linked(page, url)
    OBVIOUS
  <2>2. tabs' = link.tabs /\ EndSessions(link.tabs)
    BY <1>3, <2>1 DEF Consume, Settles
  <2>3. AreTabs(link.tabs)
    <3>1. IsTab(ObjectTab(page, Nil, url.object, url.filters, <<ObjectId(page, url.object, url.filters)>>))
      BY <1>1, ObjectTabIsTab
    <3>2. AreTabs(Append(tabs, ObjectTab(page, Nil, url.object, url.filters,
                                         <<ObjectId(page, url.object, url.filters)>>)))
      BY <1>2, <3>1, TabsGrow
    <3> QED
      BY <1>2, <2>1, <3>2 DEF Linked
  <2>4. AreTabs(tabs') /\ SessionsHaveTheirTab'
    BY <1>2, <2>2, <2>3, SessionsEnd
  <2> QED
    BY <2>4 DEF WorkspaceInv, PlacesInv, PageEffects, serverVars
<1>4. CASE Mirror
  <2>1. AreTabs(tabs') /\ SessionsHaveTheirTab'
    <3>1. CASE UNCHANGED <<tabVars, timer>>
      BY <1>2, <3>1 DEF tabVars, sessionVars, SessionsHaveTheirTab
    <3>2. CASE Settles(activeBy, tabs, active)
      BY <1>2, <3>2, SessionsEnd DEF Settles
    <3> QED
      BY <1>4, <3>1, <3>2 DEF Mirror
  <2> QED
    BY <2>1 DEF WorkspaceInv, PlacesInv, PageEffects, serverVars
<1> QED
  BY <1>3, <1>4 DEF PageEffects

LEMMA ListKeeps ==
  ASSUME WorkspaceInv,
         \/ FetchConnections \/ RetryConnections \/ ListIsRead \/ ListLands \/ ListFails
         \/ \E c \in Stored : CreateConnection(c) \/ RemoveConnection(c)
         \/ ServerRemoves \/ RemovalFails
  PROVE  WorkspaceInv'
<1> USE DEF WorkspaceInv, PlacesInv, SessionsHaveTheirTab, clientOnly, tabVars, sessionVars, pageVars, addressVars
<1>1. CASE FetchConnections \/ RetryConnections \/ ListFails \/ RemovalFails
  BY <1>1 DEF FetchConnections, RetryConnections, ListFails, RemovalFails
<1>2. CASE ListIsRead \/ ListLands
  BY <1>2 DEF ListIsRead, ListLands
<1>3. CASE \E c \in Stored : CreateConnection(c)
  <2>1. PICK c \in Stored : CreateConnection(c)
    BY <1>3
  <2>2. c \in Ids
    BY DEF Ids
  <2>3. page' \in Ids \cup {Nil} /\ chips' \subseteq Ids
    BY <2>1, <2>2, GoesToKeeps DEF CreateConnection
  <2> QED
    BY <2>1, <2>3 DEF CreateConnection
<1>4. CASE \E c \in Stored : RemoveConnection(c)
  BY <1>4 DEF RemoveConnection
<1>5. CASE ServerRemoves
  BY <1>5 DEF ServerRemoves
<1> QED
  BY <1>1, <1>2, <1>3, <1>4, <1>5

(* A purge leaves no tab on what is gone, and ends the sessions of those it   *)
(* takes.                                                                     *)
LEMMA PurgeKeeps ==
  ASSUME WorkspaceInv, NEW gone, Purge(gone), UNCHANGED sessionVars
  PROVE  /\ AreTabs(tabs') /\ SessionsHaveTheirTab'
         /\ chips' = chips \ gone /\ chips' \subseteq Ids
         /\ view' \in [Ids -> Ids]
         /\ \A c \in Ids : view'[c] = IF c \in gone \/ view[c] \in gone THEN c ELSE view[c]
         /\ \A c \in Ids : c \in gone => activeBy'[c] = Nil
         /\ \A t \in ToSet(tabs') : t.conn \notin gone /\ Page(t) \notin gone
<1>1. PICK I \in SUBSET DOMAIN tabs :
        I = {i \in DOMAIN tabs : tabs[i].conn \notin gone /\ Page(tabs[i]) \notin gone}
  OBVIOUS
<1>2. PICK rest : rest = Filtered(tabs, I)
  OBVIOUS
<1>3. AreTabs(tabs)
  BY DEF WorkspaceInv, PlacesInv
<1>4. AreTabs(rest) /\ \A k \in DOMAIN rest : \E i \in I : rest[k] = tabs[i]
  BY <1>2, <1>3, TabsKept
<1>5. tabs' = rest /\ EndSessions(rest)
  BY <1>1, <1>2 DEF Purge
<1>6. SessionsHaveTheirTab'
  BY <1>5, SessionsEnd DEF WorkspaceInv
<1>7. \A t \in ToSet(rest) : t.conn \notin gone /\ Page(t) \notin gone
  <2>1. \A i \in I : tabs[i].conn \notin gone /\ Page(tabs[i]) \notin gone
    BY <1>1
  <2> QED
    BY <1>4, <2>1 DEF ToSet
<1>8. chips' = chips \ gone /\ chips' \subseteq Ids
  BY DEF Purge, WorkspaceInv, PlacesInv
<1>9. view' = [c \in Ids |-> IF c \in gone \/ view[c] \in gone THEN c ELSE view[c]]
  BY DEF Purge
<1>10. view' \in [Ids -> Ids]
  BY <1>9 DEF WorkspaceInv, PlacesInv
<1>11. \A c \in Ids : c \in gone => activeBy'[c] = Nil
  BY DEF Purge
<1> QED
  BY <1>4, <1>5, <1>6, <1>7, <1>8, <1>9, <1>10, <1>11

LEMMA PurgesKeep ==
  ASSUME WorkspaceInv, RemovalLands \/ SyncWorkspace
  PROVE  WorkspaceInv'
<1>1. CASE RemovalLands
  <2>1. UNCHANGED sessionVars /\ \E gone : Purge(gone)
    BY <1>1 DEF RemovalLands, PurgeConnection
  <2>2. AreTabs(tabs') /\ SessionsHaveTheirTab' /\ chips' \subseteq Ids /\ view' \in [Ids -> Ids]
    BY <2>1, PurgeKeeps
  <2> QED
    BY <1>1, <2>2 DEF RemovalLands, WorkspaceInv, PlacesInv, pageVars, addressVars
<1>2. CASE SyncWorkspace
  <2>1. UNCHANGED sessionVars
    BY <1>2 DEF SyncWorkspace
  <2>2. CASE \E gone : Purge(gone)
    <3>1. AreTabs(tabs') /\ SessionsHaveTheirTab' /\ chips' \subseteq Ids /\ view' \in [Ids -> Ids]
      BY <2>1, <2>2, PurgeKeeps
    <3> QED
      BY <1>2, <3>1 DEF SyncWorkspace, WorkspaceInv, PlacesInv, pageVars, addressVars
  <2>3. CASE UNCHANGED <<tabVars, chips, view, timer>>
    BY <1>2, <2>3 DEF SyncWorkspace, WorkspaceInv, PlacesInv, SessionsHaveTheirTab, tabVars, sessionVars, pageVars, addressVars
  <2> QED
    BY <1>2, <2>2, <2>3 DEF SyncWorkspace, PruneMissingConnections
<1> QED
  BY <1>1, <1>2

(* What storage gives back is a workspace, whatever it holds. *)
IsSnapshot(s) == AreTabs(s.tabs) /\ s.chips \subseteq Ids

LEMMA RestorableIsSnapshot ==
  ASSUME NEW s, s \notin {Nil, Malformed} => IsSnapshot(s)
  PROVE  IsSnapshot(Restorable(s))
<1>1. IsSnapshot(Fresh)
  BY DEF IsSnapshot, Fresh, AreTabs
<1> QED
  BY <1>1 DEF Restorable

LEMMA SnapshotIsSnapshot ==
  ASSUME WorkspaceInv
  PROVE  IsSnapshot(Snapshot)
BY DEF IsSnapshot, Snapshot, WorkspaceInv, PlacesInv

LEMMA LoadsKeeps ==
  ASSUME WorkspaceInv, NEW s, s \notin {Nil, Malformed} => IsSnapshot(s), Loads(s),
         page' \in Ids \cup {Nil}, UNCHANGED <<sessions, ending, stored, made>>,
         storage' \notin {Nil, Malformed} => IsSnapshot(storage')
  PROVE  WorkspaceInv'
<1>1. PICK r : r = Restorable(s)
  OBVIOUS
<1>2. IsSnapshot(r)
  BY <1>1, RestorableIsSnapshot
<1>3. tabs' = r.tabs /\ chips' = Visited(r.chips, page') /\ view' = [c \in Ids |-> c]
      /\ list' = {} /\ fetching' = Nil /\ lookup' = Nil
      /\ orphans' = orphans \cup (sessions \ (Targets(r.tabs) \cup ending))
  BY <1>1 DEF Loads
<1>4. SessionsHaveTheirTab'
  BY <1>3 DEF SessionsHaveTheirTab
<1>5. AreTabs(tabs') /\ chips' \subseteq Ids
  BY <1>2, <1>3 DEF IsSnapshot, Visited
<1> QED
  BY <1>3, <1>4, <1>5 DEF WorkspaceInv, PlacesInv, IsSnapshot

LEMMA StorageKeeps ==
  ASSUME WorkspaceInv,
         \/ Persist \/ Crash
         \/ \E c \in (Stored \ NewConns) \cup made, link \in DeepLinks \cup {Nil} : Arrive(c, link)
  PROVE  WorkspaceInv'
<1>1. IsSnapshot(Snapshot)
  BY SnapshotIsSnapshot
<1>2. storage \notin {Nil, Malformed} => IsSnapshot(storage)
  BY DEF WorkspaceInv, PlacesInv, IsSnapshot
<1>3. CASE Persist
  BY <1>1, <1>3 DEF Persist, WorkspaceInv, PlacesInv, SessionsHaveTheirTab, IsSnapshot, tabVars, sessionVars, pageVars, addressVars, serverVars
<1>4. CASE Crash
  BY <1>2, <1>4, LoadsKeeps DEF Crash, WorkspaceInv, PlacesInv
<1>5. CASE \E c \in (Stored \ NewConns) \cup made, link \in DeepLinks \cup {Nil} : Arrive(c, link)
  <2>1. page' \in Ids \cup {Nil}
    BY <1>5 DEF Arrive, WorkspaceInv, PlacesInv, Ids
  <2> QED
    BY <1>1, <1>5, <2>1, LoadsKeeps DEF Arrive
<1> QED
  BY <1>3, <1>4, <1>5

LEMMA WorkspaceNextKeeps ==
  ASSUME WorkspaceInv, [WorkspaceNext]_workspaceVars
  PROVE  WorkspaceInv'
<1>1. CASE TabGesture
  BY <1>1, TabGestureKeeps
<1>2. CASE PageGesture
  <2>1. \A c : LookUp(c) => c \in list
    BY DEF LookUp
  <2> QED
    BY <1>2, <2>1, NavigationKeeps, SameTabsActionsKeep, ListKeeps, StorageKeeps DEF PageGesture
<1>3. CASE Happens
  BY <1>3, ListKeeps, PurgesKeep, NavigationKeeps, SameTabsActionsKeep, StorageKeeps DEF Happens
<1>4. CASE PageEffects
  BY <1>4, PageEffectsKeep
<1>5. CASE SyncWorkspace
  BY <1>5, PurgesKeep
<1>6. CASE UNCHANGED workspaceVars
  BY <1>6 DEF workspaceVars, tabVars, pageVars, addressVars, sessionVars, serverVars, boundVars, WorkspaceInv, PlacesInv, SessionsHaveTheirTab
<1> QED
  BY <1>1, <1>2, <1>3, <1>4, <1>5, <1>6 DEF WorkspaceNext

LEMMA EarlierIsSnapshot ==
  ASSUME NEW s \in Visit
  PROVE  IsSnapshot(s)
<1> USE WorkspaceAssumption
<1>1. PICK v \in Visits, o \in Objects, f \in Filters : s = Earlier(v[1], v[2], o, f)
  BY DEF Visit
<1>2. PICK c \in Ids, d \in Ids : c = v[1] /\ d = v[2]
  BY <1>1
<1>3. Parent[c] \in Ids /\ Parent[d] \in Ids
  BY <1>2 DEF Ids
<1>4. PICK a : a = ObjectTab(c, Nil, o, {f}, <<ObjectId(c, o, {f})>>)
  OBVIOUS
<1>5. PICK b : b = NewTab("sql", NumberedId("sql", Parent[d], 1), d)
  OBVIOUS
<1>6. PICK e : e = [b EXCEPT !.anchor = IF Parent[d] = d THEN Nil ELSE Parent[d]]
  OBVIOUS
<1>7. IsTab(a) /\ IsTab(b)
  BY <1>2, <1>4, <1>5, ObjectTabIsTab, NewTabIsTab
<1>8. IsTab(e)
  BY <1>3, <1>6, <1>7 DEF IsTab
<1>9. AreTabs(<<a, e>>)
  BY <1>7, <1>8 DEF AreTabs
<1>10. PICK r : r = Fresh
  OBVIOUS
<1>11. s = [r EXCEPT !.tabs = <<a, e>>, !.active = NumberedId("sql", Parent[d], 1),
                     !.chips = {Parent[c], Parent[d]}]
  BY <1>1, <1>2, <1>4, <1>5, <1>6, <1>10 DEF Earlier, EarlierTabs
<1>12. s.tabs = <<a, e>> /\ s.chips = {Parent[c], Parent[d]}
  BY <1>10, <1>11 DEF Fresh
<1> QED
  BY <1>3, <1>9, <1>12 DEF IsSnapshot

LEMMA WorkspaceInitInv ==
  ASSUME WorkspaceInit
  PROVE  WorkspaceInv
<1>1. storage \notin {Nil, Malformed} => IsSnapshot(storage)
  BY EarlierIsSnapshot DEF WorkspaceInit
<1>2. PICK r : r = Restorable(storage)
  OBVIOUS
<1>3. IsSnapshot(r)
  BY <1>1, <1>2, RestorableIsSnapshot
<1>4. tabs = r.tabs /\ chips = Visited(r.chips, page) /\ page \in {Nil} \cup (Stored \ NewConns)
  BY <1>2 DEF WorkspaceInit
<1>5. chips \subseteq Ids /\ page \in Ids \cup {Nil} /\ AreTabs(tabs)
  BY <1>3, <1>4 DEF IsSnapshot, Visited, Ids
<1>6. stored \subseteq Stored
  BY WorkspaceAssumption DEF WorkspaceInit
<1> QED
  BY <1>1, <1>5, <1>6 DEF WorkspaceInit, WorkspaceInv, PlacesInv, SessionsHaveTheirTab, IsSnapshot

(* Whatever the user opens, closes, visits or restores, and whatever the list of connections *)
(* answers, tabs, pages, chips, trees and the stored snapshot name connections there may be,   *)
(* and sessions have their tab.                                                                *)
THEOREM WorkspaceInvHolds == WorkspaceSpec => []WorkspaceInv
BY WorkspaceInitInv, WorkspaceNextKeeps, PTL DEF WorkspaceSpec

(* A console session with a transaction belongs to an open console tab of its connection:      *)
(* closing, rebinding, pruning and purging end those of the tabs they take, and no other.      *)
THEOREM SessionsHaveTheirTabHolds == WorkspaceSpec => []SessionsHaveTheirTab
<1>1. WorkspaceInv => SessionsHaveTheirTab
  BY DEF WorkspaceInv
<1> QED
  BY <1>1, WorkspaceInvHolds, PTL

LEMMA RemovalLeavesNoTrace ==
  ASSUME WorkspaceInv, RemovalLands, NEW c, c = removing.conn
  PROVE  LeavesNoTrace(c)'
<1>1. PICK gone : gone = {d \in Ids : Parent[d] = c}
  OBVIOUS
<1>2. Purge(gone) /\ UNCHANGED sessionVars
  BY <1>1 DEF RemovalLands, PurgeConnection
<1>3. /\ AreTabs(tabs') /\ chips' = chips \ gone
      /\ \A d \in Ids : view'[d] = IF d \in gone \/ view[d] \in gone THEN d ELSE view[d]
      /\ \A d \in Ids : d \in gone => activeBy'[d] = Nil
      /\ \A t \in ToSet(tabs') : t.conn \notin gone /\ Page(t) \notin gone
  BY <1>2, PurgeKeeps
<1>4. \A t \in ToSet(tabs') : t.conn \in Ids /\ Page(t) \in Ids
  BY <1>3 DEF AreTabs, IsTab, ToSet, Page
<1>5. view \in [Ids -> Ids]
  BY DEF WorkspaceInv, PlacesInv
<1>6. \A t \in ToSet(tabs') : Parent[t.conn] # c /\ Parent[Page(t)] # c
  BY <1>1, <1>3, <1>4
<1>7. \A d \in Ids :
        /\ Parent[d] = c => d \notin chips' /\ view'[d] = d /\ activeBy'[d] = Nil
        /\ Parent[d] # c => Parent[view'[d]] # c
  BY <1>1, <1>3, <1>5
<1> QED
  BY <1>6, <1>7 DEF LeavesNoTrace

(* Once a removal lands, no tab, page, chip or tree in the browser is about the connection     *)
(* that was deleted, or about a runtime database of it.                                        *)
THEOREM DeletionLeavesNoTraceHolds == WorkspaceSpec => DeletionLeavesNoTrace
<1>1. WorkspaceInv /\ [WorkspaceNext]_workspaceVars =>
        [\A c \in Stored : RemovalLands /\ c = removing.conn => LeavesNoTrace(c)']_workspaceVars
  BY RemovalLeavesNoTrace
<1> QED
  BY <1>1, WorkspaceInvHolds, PTL DEF WorkspaceSpec, DeletionLeavesNoTrace
=============================================================================

----------------------------- MODULE ConfigStore ----------------------------
(***************************************************************************)
(* The configuration (config/config.go, config/folders.go) and the HTTP    *)
(* handlers that change it: each takes the lock for one change, lets it    *)
(* go, and takes it again to write the whole of config.json.  The process  *)
(* may stop at any moment; Load reads the file back and mends the tree     *)
(* before the server answers.                                              *)
(*                                                                         *)
(* A connection is the folder it is in and the credentials it is opened    *)
(* with.  generateID never gives an id twice.                              *)
(***************************************************************************)
EXTENDS FolderTree

CONSTANTS
  Req,          \* handler goroutines
  Conns,        \* connection ids
  Links,        \* link ids
  Credentials,
  Torn,         \* a config.json that was truncated and not written yet
  None

ASSUME StoreAssumption == Root \notin Conns

VARIABLES
  phase,        \* "down", "loading", "up"
  tree,         \* c.Folders
  place, cred,  \* c.Connections: FolderID, and what Update may change
  links,        \* c.Links
  file,         \* config.json
  todo,         \* folders normalizeFolders has still to look at
  pc, job,      \* where a handler is, and what it holds in its variables
  issued,       \* ids given out so far
  saved,        \* history: how the last save ended
  promised      \* history: what the client was last told of a connection

memory == <<tree, place, cred, links>>
vars == <<phase, memory, file, todo, pc, job, issued, saved, promised>>

Memory == [tree |-> tree, place |-> place, cred |-> cred, links |-> links]
Partial(D, R) == UNION {[S -> R] : S \in SUBSET D}
Placements == Partial(Conns, Folders \cup {Root})
Ends == [source : Conns, target : Conns]

(* A config.json somebody wrote by hand: any parents, any folders. *)
Contents(t, p, k) ==
  [tree |-> t, place |-> p, cred |-> [c \in DOMAIN p |-> k], links |-> [l \in {} |-> None]]
Empty == [tree |-> [f \in {} |-> Root], place |-> [c \in {} |-> Root],
          cred |-> [c \in {} |-> None], links |-> [l \in {} |-> None]]
Named(f) == {f[x] : x \in DOMAIN f} \cup DOMAIN f

Init ==
  /\ phase = "down"
  /\ \E t \in Trees, p \in Placements, k \in Credentials :
       /\ file = Contents(t, p, k)
       /\ issued = (Named(t) \cup Named(p)) \ {Root}
  /\ tree = Empty.tree /\ place = Empty.place /\ cred = Empty.cred /\ links = Empty.links
  /\ todo = {}
  /\ pc = [r \in Req |-> "idle"]
  /\ job = [r \in Req |-> None]
  /\ saved = "loaded"
  /\ promised = [c \in Conns |-> "nothing"]
-----------------------------------------------------------------------------
(* The process starts, stops and starts again. *)

Load ==
  /\ phase = "down" /\ file # Torn
  /\ tree' = file.tree /\ place' = file.place /\ cred' = file.cred /\ links' = file.links
  /\ todo' = DOMAIN file.tree
  /\ phase' = "loading" /\ saved' = "loaded"
  /\ UNCHANGED <<file, pc, job, issued, promised>>

Normalize(f) ==
  /\ phase = "loading" /\ f \in todo
  /\ tree' = NormalizeFolder(tree, f)
  /\ todo' = todo \ {f}
  /\ UNCHANGED <<phase, place, cred, links, file, pc, job, issued, saved, promised>>

(* The second loop of normalizeFolders; then the server listens. *)
Serve ==
  /\ phase = "loading" /\ todo = {}
  /\ place' = [c \in DOMAIN place |-> IF FolderExists(tree, place[c]) THEN place[c] ELSE Root]
  /\ phase' = "up"
  /\ UNCHANGED <<tree, cred, links, file, todo, pc, job, issued, saved, promised>>

(* The file stays as it is; a handler's answer never leaves. *)
Stop ==
  /\ phase # "down"
  /\ phase' = "down"
  /\ tree' = Empty.tree /\ place' = Empty.place /\ cred' = Empty.cred /\ links' = Empty.links
  /\ todo' = {}
  /\ pc' = [r \in Req |-> "idle"]
  /\ job' = [r \in Req |-> None]
  /\ UNCHANGED <<file, issued, saved, promised>>
-----------------------------------------------------------------------------
(* The lock.  A save holds it for reading from the marshalling to the last *)
(* byte written, so no change comes in between.                            *)

At(r, label) == phase = "up" /\ pc[r] = label
Goto(r, label, j) == pc' = [pc EXCEPT ![r] = label] /\ job' = [job EXCEPT ![r] = j]

(* Mutant: the save lets the lock go once it has marshalled. *)
NobodyWaits == TRUE
NobodySaves == \A r \in Req : pc[r] # "saving"

(* r makes its one change of the memory and has it to save. *)
Changes(r, label, j) ==
  /\ At(r, label) /\ NobodySaves
  /\ Goto(r, "changed", j)
  /\ UNCHANGED <<phase, file, todo, saved>>

Quietly == UNCHANGED promised
New(id) == id \notin issued /\ issued' = issued \cup {id}
-----------------------------------------------------------------------------
(* Connections. *)

Create(r, c, k) ==
  /\ Changes(r, "idle", [says |-> "present", conn |-> c])
  /\ New(c)
  /\ place' = [d \in DOMAIN place \cup {c} |-> IF d = c THEN Root ELSE place[d]]
  /\ cred' = [d \in DOMAIN place \cup {c} |-> IF d = c THEN k ELSE cred[d]]
  /\ UNCHANGED <<tree, links>> /\ Quietly

(* Update and UpdateVisibleSchemas take a copy of the connection, change   *)
(* the copy and store the whole of it.                                     *)
Copy(r, c) ==
  /\ At(r, "idle") /\ c \in DOMAIN place
  /\ Goto(r, "copied", [conn |-> c, place |-> place[c], cred |-> cred[c]])
  /\ UNCHANGED <<phase, memory, file, todo, issued, saved, promised>>

(* Mutant: a connection deleted in between is stored again. *)
Upserted(f, c, v) == [d \in DOMAIN f \cup {c} |-> IF d = c THEN v ELSE f[d]]
Replaced(f, c, v) == [d \in DOMAIN f |-> IF d = c THEN v ELSE f[d]]

StoreCopy(r, k) ==
  /\ Changes(r, "copied", None)
  /\ place' = Replaced(place, job[r].conn, job[r].place)
  /\ cred' = Replaced(cred, job[r].conn, k)
  /\ UNCHANGED <<tree, links, issued>> /\ Quietly

Update(r, k) == StoreCopy(r, k)
UpdateVisibleSchemas(r) == pc[r] = "copied" /\ StoreCopy(r, job[r].cred)

Touches(l, c) == c \in {links[l].source, links[l].target}

(* Mutant: the credentials of a deleted connection stay. *)
KeepsCredentials(c) == cred
ForgetCredentials(c) == [d \in DOMAIN cred \ {c} |-> cred[d]]

Delete(r, c) ==
  /\ Changes(r, "idle", [says |-> "absent", conn |-> c])
  /\ c \in DOMAIN place
  /\ place' = [d \in DOMAIN place \ {c} |-> place[d]]
  /\ cred' = ForgetCredentials(c)
  /\ links' = [l \in {m \in DOMAIN links : ~ Touches(m, c)} |-> links[l]]
  /\ promised' = [promised EXCEPT ![c] = "nothing"]
  /\ UNCHANGED <<tree, issued>>

(* SetConnectionFolder moves one, ArrangeConnections as many as it names.  *)
PlaceConnections(r, cs, f) ==
  /\ Changes(r, "idle", None)
  /\ cs # {} /\ cs \subseteq DOMAIN place /\ FolderExists(tree, f)
  /\ place' = [d \in DOMAIN place |-> IF d \in cs THEN f ELSE place[d]]
  /\ UNCHANGED <<tree, cred, links, issued>> /\ Quietly
-----------------------------------------------------------------------------
(* Folders. *)

CreateFolder(r, f, parent) ==
  /\ Changes(r, "idle", None)
  /\ FolderExists(tree, parent) /\ New(f)
  /\ tree' = AddFolder(tree, f, parent)
  /\ UNCHANGED <<place, cred, links>> /\ Quietly

(* UpdateFolder moves one folder, ArrangeFolders as many as it names. *)
MoveFolders(r, fs, parent) ==
  /\ Changes(r, "idle", None)
  /\ fs # {} /\ MayHang(tree, fs, parent)
  /\ tree' = Hang(tree, fs, parent)
  /\ UNCHANGED <<place, cred, links, issued>> /\ Quietly

DeleteFolder(r, f) ==
  /\ Changes(r, "idle", None)
  /\ f \in DOMAIN tree
  /\ tree' = RemoveFolder(tree, f)
  /\ place' = [c \in DOMAIN place |-> Lifted(tree, f, place[c])]
  /\ UNCHANGED <<cred, links, issued>> /\ Quietly
-----------------------------------------------------------------------------
(* Links: validate looks each end up under the lock, then lets it go. *)

ResolveSource(r, c) ==
  /\ At(r, "idle") /\ c \in DOMAIN place
  /\ Goto(r, "source", c)
  /\ UNCHANGED <<phase, memory, file, todo, issued, saved, promised>>

ResolveTarget(r, c) ==
  /\ At(r, "source") /\ c \in DOMAIN place
  /\ Goto(r, "resolved", [source |-> job[r], target |-> c])
  /\ UNCHANGED <<phase, memory, file, todo, issued, saved, promised>>

CreateLink(r, l) ==
  /\ Changes(r, "resolved", None)
  /\ New(l)
  /\ links' = [m \in DOMAIN links \cup {l} |-> IF m = l THEN job[r] ELSE links[m]]
  /\ UNCHANGED <<tree, place, cred>> /\ Quietly

UpdateLink(r, l) ==
  /\ Changes(r, "resolved", None)
  /\ l \in DOMAIN links
  /\ links' = [links EXCEPT ![l] = job[r]]
  /\ UNCHANGED <<tree, place, cred, issued>> /\ Quietly

DeleteLink(r, l) ==
  /\ Changes(r, "idle", None)
  /\ l \in DOMAIN links
  /\ links' = [m \in DOMAIN links \ {l} |-> links[m]]
  /\ UNCHANGED <<tree, place, cred, issued>> /\ Quietly

(* A bad body, an unknown target, a link that is gone: nothing changes. *)
Refuse(r) ==
  /\ phase = "up" /\ pc[r] \in {"copied", "source", "resolved"}
  /\ Goto(r, "idle", None)
  /\ UNCHANGED <<phase, memory, file, todo, issued, saved, promised>>
-----------------------------------------------------------------------------
(* Save: marshal, truncate, write. *)

SaveStart(r) ==
  /\ At(r, "changed")
  /\ Goto(r, "saving", [job |-> job[r], data |-> Memory])
  /\ file' = Torn
  /\ UNCHANGED <<phase, memory, todo, issued, saved, promised>>

(* What a 201 or a 204 tells of a connection no deletion has reached. *)
Tells(j) ==
  IF j # None /\ (j.says = "present" => j.conn \in DOMAIN place)
  THEN [promised EXCEPT ![j.conn] = j.says]
  ELSE promised

SaveEnd(r) ==
  /\ At(r, "saving")
  /\ file' = job[r].data
  /\ saved' = "saved"
  /\ promised' = Tells(job[r].job)
  /\ Goto(r, "idle", None)
  /\ UNCHANGED <<phase, memory, todo, issued>>

(* The file cannot be opened, or its write fails: a 500, the change stays. *)
SaveFails(r) ==
  /\ phase = "up" /\ pc[r] \in {"changed", "saving"}
  /\ saved' = "failed"
  /\ Goto(r, "idle", None)
  /\ UNCHANGED <<phase, memory, file, todo, issued, promised>>
-----------------------------------------------------------------------------
Handler(r) ==
  \/ \E c \in Conns, k \in Credentials : Create(r, c, k)
  \/ \E c \in Conns : Copy(r, c) \/ Delete(r, c) \/ ResolveSource(r, c) \/ ResolveTarget(r, c)
  \/ \E k \in Credentials : Update(r, k)
  \/ UpdateVisibleSchemas(r)
  \/ \E cs \in SUBSET Conns, f \in Folders \cup {Root} : PlaceConnections(r, cs, f)
  \/ \E f \in Folders, p \in Folders \cup {Root} : CreateFolder(r, f, p)
  \/ \E fs \in SUBSET Folders, p \in Folders \cup {Root} : MoveFolders(r, fs, p)
  \/ \E f \in Folders : DeleteFolder(r, f)
  \/ \E l \in Links : CreateLink(r, l) \/ UpdateLink(r, l) \/ DeleteLink(r, l)
  \/ Refuse(r)
  \/ SaveStart(r) \/ SaveEnd(r) \/ SaveFails(r)

Next ==
  \/ Load \/ Serve \/ Stop
  \/ \E f \in Folders : Normalize(f)
  \/ \E r \in Req : Handler(r)

Spec == Init /\ [][Next]_vars
-----------------------------------------------------------------------------
Files == {g \in [tree : Trees, place : Placements, cred : Partial(Conns, Credentials),
                  links : Partial(Links, Ends)] : DOMAIN g.cred = DOMAIN g.place}
Answers == {None} \cup [says : {"present", "absent"}, conn : Conns]
Labels == {"idle", "copied", "source", "resolved", "changed", "saving"}
Copies == [conn : Conns, place : Folders \cup {Root}, cred : Credentials]

(* What a handler holds at each stage. *)
JobFits(label, j) ==
  /\ label = "idle" => j = None
  /\ label = "copied" => j \in Copies
  /\ label = "source" => j \in Conns
  /\ label = "resolved" => j \in Ends
  /\ label = "changed" => j \in Answers
  /\ label = "saving" => j \in [job : Answers, data : Files]

(* The state is well formed: a connection has credentials exactly when it  *)
(* has a place, a handler holds what its stage needs, and only a process   *)
(* that serves has handlers (config.go:59-66).                             *)
TypeOK ==
  /\ phase \in {"down", "loading", "up"}
  /\ Memory \in Files /\ file \in Files \cup {Torn}
  /\ todo \subseteq DOMAIN tree /\ (phase # "loading" => todo = {})
  /\ pc \in [Req -> Labels] /\ DOMAIN job = Req
  /\ \A r \in Req : JobFits(pc[r], job[r]) /\ (phase # "up" => pc[r] = "idle")
  /\ issued \subseteq Conns \cup Folders \cup Links
  /\ saved \in {"loaded", "saved", "failed"}
  /\ promised \in [Conns -> {"nothing", "present", "absent"}]

(* A serving process has a forest: whatever the file held, whatever moves  *)
(* and deletions come in whatever order, every folder's parent exists and  *)
(* no branch is cut off the tree (folders.go:46-114, 165-208).             *)
FoldersAreAForest == phase = "up" => Forest(tree)

(* Mending moves only what is lost: a folder whose parent exists and which *)
(* is on no loop stays where the file has it, in whatever order the file   *)
(* lists the folders (folders.go:165-187).                                 *)
MendingSparesTheTree ==
  phase = "loading" =>
    \A f \in DOMAIN tree : ~ IsLost(file.tree, f) => tree[f] = file.tree[f]

(* Once every change is saved the file is the memory: no save that started *)
(* earlier overwrites a later one with what it marshalled before           *)
(* (config.go:94-103).                                                     *)
SettledFileIsMemory ==
  phase = "up" /\ saved = "saved" /\ (\A r \in Req : pc[r] \notin {"changed", "saving"})
    => file = Memory

(* What a client was told lasts, over restarts too: unless a save was cut  *)
(* short, a connection whose creation was answered is in memory and file,  *)
(* and one whose deletion was answered is in neither, until the next       *)
(* deletion reaches it (connections.go:88-124, 383-408).                   *)
AnswersAreDurable ==
  \A c \in Conns :
    /\ promised[c] = "present" => /\ phase # "down" => c \in DOMAIN place
                                  /\ file # Torn => c \in DOMAIN file.place
    /\ promised[c] = "absent" => /\ c \notin DOMAIN place
                                 /\ file # Torn => c \notin DOMAIN file.place

(* What folders.go:165-167 says: only a file edited by hand can hold a     *)
(* connection in a missing folder; one this process saved cannot.          *)
SavedConnectionsHaveFolders ==
  saved = "saved" /\ file # Torn =>
    \A c \in DOMAIN file.place : FolderExists(file.tree, file.place[c])

(* What connections.go:386-388 says: a link goes with the connections it   *)
(* names, so a saved file holds no link that can never resolve.            *)
SavedLinksResolve ==
  saved = "saved" /\ file # Torn =>
    \A l \in DOMAIN file.links :
      {file.links[l].source, file.links[l].target} \subseteq DOMAIN file.place
=============================================================================

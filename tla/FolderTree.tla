----------------------------- MODULE FolderTree -----------------------------
(***************************************************************************)
(* The folder tree of the connection list (config/folders.go), as a        *)
(* function from each folder's id to its parent's.  Names and positions    *)
(* are left out: no property here tells them apart.                        *)
(***************************************************************************)
CONSTANTS
  Folders,   \* folder ids
  Root       \* "", the top level

ASSUME FolderAssumption == Root \notin Folders

(* What a config.json may hold, mended or not. *)
Trees == UNION {[D -> Folders \cup {Root}] : D \in SUBSET Folders}

FolderExists(tree, f) == f \in DOMAIN tree \cup {Root}

(* f is a or sits anywhere below it: f is in every set of folders that     *)
(* holds a and, with a folder, all that hangs below it.                    *)
IsWithinFolder(tree, f, a) ==
  \A S \in SUBSET DOMAIN tree :
    (a \in S /\ \A x \in DOMAIN tree : tree[x] \in S => x \in S) => f \in S

(* Mutant: nothing keeps a folder from being put below itself. *)
MayHangAnywhere(tree, moved, target) ==
  FolderExists(tree, target) /\ moved \subseteq DOMAIN tree

(* Every folder moved exists, and none is put below itself. *)
MayHang(tree, moved, target) ==
  /\ FolderExists(tree, target)
  /\ \A f \in moved : f \in DOMAIN tree /\ ~ IsWithinFolder(tree, target, f)

Hang(tree, moved, target) ==
  [f \in DOMAIN tree |-> IF f \in moved THEN target ELSE tree[f]]

AddFolder(tree, f, target) ==
  [x \in DOMAIN tree \cup {f} |-> IF x = f THEN target ELSE tree[x]]

(* What the removed folder held is lifted to where it hung. *)
Lifted(tree, removed, f) == IF f = removed THEN tree[removed] ELSE f
RemoveFolder(tree, f) ==
  [x \in DOMAIN tree \ {f} |-> Lifted(tree, f, tree[x])]

(* The walk up from f never comes out: every ancestor has a parent again.  *)
NeverComesOut(tree, f) ==
  \E S \in SUBSET DOMAIN tree : f \in S /\ \A x \in S : tree[x] \in S

IsLost(tree, f) == ~ FolderExists(tree, tree[f]) \/ NeverComesOut(tree, f)

(* One turn of the first loop of normalizeFolders. *)
NormalizeFolder(tree, f) ==
  [tree EXCEPT ![f] = IF IsLost(tree, f) THEN Root ELSE @]

(* Every folder's parent exists, and every walk up ends at the top level.  *)
ParentsExist(tree) == \A f \in DOMAIN tree : FolderExists(tree, tree[f])
Acyclic(tree) == \A f \in DOMAIN tree : ~ NeverComesOut(tree, f)
Forest(tree) == ParentsExist(tree) /\ Acyclic(tree)
=============================================================================

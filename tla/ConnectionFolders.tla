-------------------------- MODULE ConnectionFolders --------------------------
(***************************************************************************)
(* The folders of the connection list: stores/folders, the folder half of  *)
(* stores/connections, lib/connectionFolders and ConnectionFolderTree.     *)
(* Each gesture is one request; the client redoes what the server did when *)
(* the answer arrives, on the lists it has by then.                        *)
(*                                                                         *)
(* A board is the folder tree with the place of every folder and of every  *)
(* connection (a card) among its siblings, 0 for none yet.                 *)
(***************************************************************************)
EXTENDS Integers, Sequences, FiniteSets, FiniteSetsExt, SequencesExt, FolderTree

CONSTANTS
  FolderNames,   \* the folders by name
  CardList,      \* the connections in the order of config.json
  Boards,        \* boards the server may have at first
  MaxMoves,      \* bound: what the user does, until answers went astray
  MaxAsked,      \* bound: how many requests are under way together
  MaxLost,       \* bound: requests that fail, or whose answers are lost
  Nowhere

Cards == Range(CardList)

(* What a server that answers holds: its folders are a forest (ConfigStore). *)
IsBoard(b) ==
  /\ b = [tree |-> b.tree, order |-> b.order, home |-> b.home, place |-> b.place]
  /\ b.tree \in Trees /\ Forest(b.tree)
  /\ b.order = [f \in DOMAIN b.tree |-> b.order[f]]
  /\ b.home = [c \in DOMAIN b.home |-> b.home[c]] /\ DOMAIN b.home \subseteq Cards

ASSUME ConnectionFoldersAssumption ==
  /\ Range(FolderNames) = Folders /\ IsInjective(FolderNames)
  /\ CardList \in Seq(Cards) /\ IsInjective(CardList)
  /\ \A b \in Boards : IsBoard(b)
  /\ MaxMoves \in Nat /\ MaxAsked \in Nat /\ MaxLost \in Nat

VARIABLES
  kept,          \* the board of the server
  shown,         \* the board of the stores
  asked,         \* requests under way
  moves, mislaid,
  turns, landed, \* history: changes and reads of the server; the last that landed
  astray         \* history: answers landed out of order, or were lost

boardVars == <<kept, shown, asked, moves, mislaid, turns, landed, astray>>
-----------------------------------------------------------------------------
(* The order of siblings. *)

IndexOf(ids, x) == IndexFirstSubSeq(<<x>>, ids)

Infinity == Len(CardList) + MaxMoves + 9
CardRank(b, c) == IF b.place[c] = 0 THEN Infinity ELSE b.place[c]
ByPosition(b, c, d) ==
  \/ CardRank(b, c) < CardRank(b, d)
  \/ CardRank(b, c) = CardRank(b, d) /\ IndexOf(CardList, c) < IndexOf(CardList, d)
FolderOrder(b, f, g) ==
  \/ b.order[f] < b.order[g]
  \/ b.order[f] = b.order[g] /\ IndexOf(FolderNames, f) < IndexOf(FolderNames, g)

CardsIn(b, f) == {c \in DOMAIN b.home : b.home[c] = f}
FoldersIn(b, f) == {g \in DOMAIN b.tree : b.tree[g] = f}
FolderConnections(b, f) == SetToSortSeq(CardsIn(b, f), LAMBDA c, d : ByPosition(b, c, d))
FolderChildren(b, f) == SetToSortSeq(FoldersIn(b, f), LAMBDA g, h : FolderOrder(b, g, h))

ArrangeAround(ordered, dragged, target, after) ==
  LET ids == SelectSeq(ordered, LAMBDA x : x # dragged)
      at == IF target \in Range(ids) THEN IndexOf(ids, target) + (IF after THEN 1 ELSE 0)
            ELSE Len(ids) + 1 IN
  InsertAt(ids, at, dragged)

Highest(ranks) == Max({0} \cup ranks)
-----------------------------------------------------------------------------
(* What the list shows. *)

(* A folder or a connection whose folder is gone lands at top level.       *)
(* Mutant: it is left where its folder was. *)
LeftOut(b, f) == f
ParentOf(b, f) == IF f \in DOMAIN b.tree THEN f ELSE Root

(* The walk from the top does not reach the folders of a loop.             *)
ShownTree(b) == [f \in DOMAIN b.tree |-> ParentOf(b, b.tree[f])]
Reached(b) == {f \in DOMAIN b.tree : ~ IsLost(ShownTree(b), f)}

Total(b, cards, f) ==
  Cardinality({c \in cards \cap DOMAIN b.home :
                 ParentOf(b, b.home[c]) # Root /\ IsWithinFolder(ShownTree(b), b.home[c], f)})
Occupied(b) == {f \in DOMAIN b.tree : Total(b, DOMAIN b.home, f) > 0}

(* A branch with nothing to show is dropped: by a search always, by a tab  *)
(* or a tag when it has connections that were filtered out.                *)
PrunedBy(b, view) ==
  CASE view = "search" -> DOMAIN b.tree [] view = "filter" -> Occupied(b) [] OTHER -> {}
KeptFolders(b, cards, view) ==
  {f \in Reached(b) :
     \A g \in DOMAIN b.tree :
       IsWithinFolder(ShownTree(b), f, g) => (Total(b, cards, g) > 0 \/ g \notin PrunedBy(b, view))}
-----------------------------------------------------------------------------
(* The server. *)

Move(kind, id, to, ids) ==
  [n |-> moves, kind |-> kind, id |-> id, to |-> to, ids |-> ids, done |-> FALSE, turn |-> 0, answer |-> Nowhere]

ServerAllows(w) ==
  CASE w.kind = "create" -> FolderExists(kept.tree, w.to)
    [] w.kind = "update" -> MayHang(kept.tree, {w.id}, w.to)
    [] w.kind = "arrangeFolders" -> MayHang(kept.tree, Range(w.ids), w.to)
    [] w.kind = "remove" -> w.id \in DOMAIN kept.tree
    [] w.kind \in {"moveCard", "arrangeCards"} -> FolderExists(kept.tree, w.to)
    [] OTHER -> TRUE

Placed(order, f, n) == [g \in DOMAIN order \cup {f} |-> IF g = f THEN n ELSE order[g]]
LastFolderPosition(b, parent, except) == Highest({b.order[f] : f \in FoldersIn(b, parent) \ {except}})

Served(b, w) ==
  CASE w.kind = "create" ->
         [b EXCEPT !.tree = AddFolder(b.tree, w.id, w.to),
                   !.order = Placed(b.order, w.id, LastFolderPosition(b, w.to, w.id) + 1)]
    [] w.kind = "update" ->
         [b EXCEPT !.tree = Hang(b.tree, {w.id}, w.to),
                   !.order[w.id] = IF b.tree[w.id] = w.to THEN @ ELSE LastFolderPosition(b, w.to, w.id) + 1]
    [] w.kind = "arrangeFolders" ->
         [b EXCEPT !.tree = Hang(b.tree, Range(w.ids), w.to),
                   !.order = [f \in DOMAIN @ |-> IF f \in Range(w.ids) THEN IndexOf(w.ids, f) ELSE @[f]]]
    [] w.kind = "remove" ->
         [b EXCEPT !.tree = RemoveFolder(b.tree, w.id),
                   !.order = [f \in DOMAIN @ \ {w.id} |-> @[f]],
                   !.home = [c \in DOMAIN @ |-> Lifted(b.tree, w.id, @[c])]]
    [] w.kind = "moveCard" ->
         [b EXCEPT !.home[w.id] = w.to, !.place[w.id] = Highest({b.place[c] : c \in CardsIn(b, w.to) \ {w.id}}) + 1]
    [] w.kind = "arrangeCards" ->
         [b EXCEPT !.home = [c \in DOMAIN @ |-> IF c \in Range(w.ids) THEN w.to ELSE @[c]],
                   !.place = [c \in DOMAIN @ |-> IF c \in Range(w.ids) THEN IndexOf(w.ids, c) ELSE @[c]]]
    [] OTHER -> b

(* A folder that was made or changed comes back whole; a list is read.     *)
Answered(b, w) ==
  CASE w.kind \in {"create", "update"} -> [parent |-> b.tree[w.id], order |-> b.order[w.id]]
    [] w.kind = "fetch" -> [tree |-> b.tree, order |-> b.order]
    [] OTHER -> Nowhere

ServeBoard(w) ==
  /\ ~w.done /\ ServerAllows(w)
  /\ kept' = Served(kept, w) /\ turns' = turns + 1
  /\ asked' = (asked \ {w}) \cup
       {[w EXCEPT !.done = TRUE, !.turn = turns + 1, !.answer = Answered(Served(kept, w), w)]}
  /\ UNCHANGED <<shown, moves, mislaid, landed, astray>>
-----------------------------------------------------------------------------
(* What the stores make of an answer. *)

FolderMade(b, f, a) == [b EXCEPT !.tree = AddFolder(@, f, a.parent), !.order = Placed(@, f, a.order)]
FolderChanged(b, f, a) == IF f \in DOMAIN b.tree THEN FolderMade(b, f, a) ELSE b

FoldersArranged(b, to, ids) ==
  [b EXCEPT !.tree = [f \in DOMAIN @ |-> IF f \in Range(ids) THEN to ELSE @[f]],
            !.order = [f \in DOMAIN @ |-> IF f \in Range(ids) THEN IndexOf(ids, f) ELSE @[f]]]

LiftFolder(b, f, to) == [c \in DOMAIN b.home |-> IF b.home[c] = f THEN to ELSE b.home[c]]
FolderRemoved(b, f) ==
  LET to == IF f \in DOMAIN b.tree THEN b.tree[f] ELSE Root IN
  [b EXCEPT !.tree = [g \in DOMAIN @ \ {f} |-> IF @[g] = f THEN to ELSE @[g]],
            !.order = [g \in DOMAIN @ \ {f} |-> @[g]],
            !.home = LiftFolder(b, f, to)]

(* Mutant: the connection itself counts among those of its new folder. *)
CardMovedBehindItself(b, c, to) ==
  [b EXCEPT !.home[c] = to, !.place[c] = Highest({b.place[d] : d \in CardsIn(b, to)}) + 1]
CardMoved(b, c, to) ==
  [b EXCEPT !.home[c] = to, !.place[c] = Highest({b.place[d] : d \in CardsIn(b, to) \ {c}}) + 1]

CardsArranged(b, to, ids) ==
  [b EXCEPT !.home = [c \in DOMAIN @ |-> IF c \in Range(ids) THEN to ELSE @[c]],
            !.place = [c \in DOMAIN @ |-> IF c \in Range(ids) THEN IndexOf(ids, c) ELSE @[c]]]

FoldersFetched(b, a) == [b EXCEPT !.tree = a.tree, !.order = a.order]

Applied(b, w) ==
  CASE w.kind = "create" -> FolderMade(b, w.id, w.answer)
    [] w.kind = "update" -> FolderChanged(b, w.id, w.answer)
    [] w.kind = "arrangeFolders" -> FoldersArranged(b, w.to, w.ids)
    [] w.kind = "remove" -> FolderRemoved(b, w.id)
    [] w.kind = "moveCard" -> CardMoved(b, w.id, w.to)
    [] w.kind = "arrangeCards" -> CardsArranged(b, w.to, w.ids)
    [] w.kind = "fetch" -> FoldersFetched(b, w.answer)

Overtakes(w) == w.kind # "fetch" /\ \E v \in asked : v.done /\ v.turn < w.turn

BoardLands(w) ==
  /\ w.done
  /\ shown' = Applied(shown, w)
  /\ landed' = Max({landed, w.turn}) /\ astray' = (astray \/ w.turn < landed \/ Overtakes(w))
  /\ asked' = asked \ {w}
  /\ UNCHANGED <<kept, moves, mislaid, turns>>

(* Refused, or lost on the way to the server or back. *)
BoardFails(w) ==
  /\ \/ ~w.done /\ ~ServerAllows(w) /\ UNCHANGED mislaid
     \/ mislaid < MaxLost /\ mislaid' = mislaid + 1
  /\ astray' = (astray \/ (w.done /\ w.kind # "fetch"))
  /\ asked' = asked \ {w}
  /\ UNCHANGED <<kept, shown, moves, turns, landed>>
-----------------------------------------------------------------------------
(* Gestures. *)

Sends(w) ==
  /\ moves < MaxMoves /\ moves' = moves + 1 /\ Cardinality(asked) < MaxAsked /\ ~astray
  /\ asked' = asked \cup {w}
  /\ UNCHANGED <<kept, shown, mislaid, turns, landed, astray>>

(* The page is opened again. *)
FetchFolders == (\A w \in asked : w.kind # "fetch") /\ Sends(Move("fetch", Nowhere, Nowhere, <<>>))

(* One new folder at a time: the bound on how many there are.              *)
CreateIn(f, parent) ==
  /\ f \notin DOMAIN kept.tree \cup DOMAIN shown.tree /\ parent \in Reached(shown) \cup {Root}
  /\ \A w \in asked : w.kind # "create"
  /\ Sends(Move("create", f, parent, <<>>))

(* A rename sends the parent the folder is shown under. *)
Rename(f) == f \in Reached(shown) /\ Sends(Move("update", f, shown.tree[f], <<>>))
DeleteShelf(f) == f \in Reached(shown) /\ Sends(Move("remove", f, Nowhere, <<>>))

(* The menu "Move to", or a drop into a folder.  A drag remembers where it *)
(* began: once an answer has landed it may end in the folder it left for.  *)
CanDrop(from, to) == to \in Reached(shown) \cup {Root} /\ (to # from \/ landed > 0)
MoveShelf(f, to) ==
  /\ f \in Reached(shown) /\ CanDrop(shown.tree[f], to) /\ ~ IsWithinFolder(shown.tree, to, f)
  /\ Sends(Move("update", f, to, <<>>))
MoveCard(c, to) == CanDrop(shown.home[c], to) /\ Sends(Move("moveCard", c, to, <<>>))

(* Next to a folder, or to a card: the whole new order of its siblings,    *)
(* those a filter hides included.                                          *)
DropAtFolder(dragged, f, after) ==
  LET parent == shown.tree[f] IN
  /\ dragged # f /\ {dragged, f} \subseteq Reached(shown) /\ ~ IsWithinFolder(shown.tree, f, dragged)
  /\ Sends(Move("arrangeFolders", Nowhere, parent, ArrangeAround(FolderChildren(shown, parent), dragged, f, after)))
DropAtCard(dragged, c, after) ==
  LET folder == shown.home[c] IN
  /\ dragged # c
  /\ Sends(Move("arrangeCards", Nowhere, folder, ArrangeAround(FolderConnections(shown, folder), dragged, c, after)))
-----------------------------------------------------------------------------
FoldersInit ==
  /\ kept \in Boards /\ shown = kept
  /\ asked = {}
  /\ moves = 0 /\ mislaid = 0 /\ turns = 0 /\ landed = 0 /\ astray = FALSE

FolderGestures ==
  \/ FetchFolders
  \/ (\E f \in Folders, to \in Folders \cup {Root} : CreateIn(f, to) \/ (f \in DOMAIN shown.tree /\ MoveShelf(f, to)))
  \/ (\E f \in DOMAIN shown.tree : Rename(f) \/ DeleteShelf(f))
  \/ (\E f, g \in DOMAIN shown.tree, after \in BOOLEAN : DropAtFolder(f, g, after))
  \/ (\E c \in DOMAIN shown.home, to \in Folders \cup {Root} : MoveCard(c, to))
  \/ \E c, d \in DOMAIN shown.home, after \in BOOLEAN : DropAtCard(c, d, after)

FoldersNext == FolderGestures \/ \E w \in asked : ServeBoard(w) \/ BoardLands(w) \/ BoardFails(w)
FoldersSpec == FoldersInit /\ [][FoldersNext]_boardVars
-----------------------------------------------------------------------------
(* Properties. *)

(* The client redoes every change by itself, positions included: once no   *)
(* request is under way the list is the server's, however the gestures     *)
(* overlapped.  Left out: answers that landed out of the order they were   *)
(* served in, and answers that were lost; nothing orders them.             *)
FoldersShowTheServer == (asked = {} /\ ~astray) => shown = kept

(* "Instead of vanishing": whatever the tab, the tags and the search leave *)
(* over, each connection left over is on the list, in its folder or at top *)
(* level, and without a filter so is every folder, even while the stores   *)
(* disagree about a folder that was removed.                               *)
NothingVanishes ==
  ~astray =>
    /\ KeptFolders(shown, {}, "all") = DOMAIN shown.tree
    /\ \A cards \in SUBSET DOMAIN shown.home, view \in {"filter", "search"} : \A c \in cards :
         ParentOf(shown, shown.home[c]) \in KeptFolders(shown, cards, view) \cup {Root}
=============================================================================

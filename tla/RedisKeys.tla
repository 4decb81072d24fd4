------------------------------- MODULE RedisKeys -------------------------------
(***************************************************************************)
(* The keys of a Redis connection on screen: the tabs of keys, RedisKeyView *)
(* with the editor of the key's type and its dialogs, and what the sidebar *)
(* offers beside it (a key by name, a new key, the bulk delete).           *)
(*                                                                         *)
(* One view serves every tab of a key, so that what it began for one key   *)
(* may end while it shows another.  The content of a key is a function     *)
(* from the addresses of its elements (the index in a list, the field, the *)
(* member or the path elsewhere, the id in a stream) to their values.      *)
(***************************************************************************)
EXTENDS Integers, Sequences, FiniteSets, SequencesExt

CONSTANTS
  Names,         \* names of keys
  Stores,        \* what the server may hold at first
  Texts,         \* values that are written
  Raw,           \* a value that is not UTF-8
  Limit,         \* elements of a list or entries of a stream per page
  NewKinds,      \* types of the keys that are created
  Patterns,      \* sets of names the bulk delete may be given
  MaxGestures,   \* bound: what the user does
  MaxFaults,     \* bound: requests that fail, and what others write
  Missing,       \* the answer for a key that cannot be read
  None

Kinds == {"string", "hash", "list", "set", "zset", "json", "stream"}
Created == {"string", "hash", "list", "set", "zset"}
KeyDialogs == {"ttl", "delete", "rename", "copy", "compare"}
Mutations == {"update", "remove", "insert", "ttl", "delete"}

ASSUME RedisKeysAssumption ==
  /\ NewKinds \subseteq Created
  /\ IsFiniteSet(Names) /\ None \notin Names \cup KeyDialogs
  /\ Patterns \subseteq SUBSET Names /\ Limit \in Nat \ {0}
  /\ \A s \in Stores : s = [k \in Names |-> s[k]]
  /\ \A s \in Stores, k \in Names :
       s[k] # None => s[k].kind \in Kinds /\ DOMAIN s[k].at \subseteq Nat
  /\ MaxGestures \in Nat /\ MaxFaults \in Nat

VARIABLES
  stored,        \* the server: each key's kind, content and whether it expires
  readOnly,      \* read_only of the connection
  remembered,    \* keyMetaCache: types and expiries the server may go by
  tabs, active,  \* useWorkspaceStore: tabs of keys, the one on screen
  data,          \* useDataStore: what each tab shows and asked for
  calls,         \* reads under way
  jobs,          \* handlers under way
  view,          \* the mounted RedisKeyView, key None when there is none
  bulk,          \* BulkActions of the sidebar
  modal,         \* the dialog on screen
  busy,          \* buttons of the sidebar that wait for an answer
  gestures, faults,
  stale,         \* history: the key may have changed since it was read
  removed,       \* history: keys the view deleted or renamed
  misfired       \* history: a removal by index met another element

keyVars == <<stored, readOnly, remembered, tabs, active, data, calls, jobs, view, bulk, modal, busy,
             gestures, faults, stale, removed, misfired>>
server == <<stored, readOnly, remembered>>
workspace == <<tabs, active>>
history == <<stale, removed, misfired>>
-----------------------------------------------------------------------------
(* The server. *)

Latest(S) == CHOOSE n \in S : \A m \in S : m <= n
Oldest(S) == CHOOSE n \in S : \A m \in S : n <= m
Only(f, S) == [i \in DOMAIN f \cap S |-> f[i]]

Lowest(S, n) == {i \in S : Cardinality({j \in S : j < i}) < n}
Highest(S, n) == {i \in S : Cardinality({j \in S : j > i}) < n}

(* getListData and getStreamData; the other kinds are read whole.          *)
Window(s, o) ==
  LET all == DOMAIN s.at IN
  CASE s.kind = "list" -> all \cap (o.offset .. (o.offset + Limit - 1))
    [] s.kind = "stream" /\ o.side = "after" -> Lowest({i \in all : i > o.id}, Limit)
    [] s.kind = "stream" /\ o.side = "before" -> Highest({i \in all : i < o.id}, Limit)
    [] s.kind = "stream" /\ o.side = "end" -> Highest(all, Limit)
    [] OTHER -> all

Older(s, o) ==
  LET w == Window(s, o) IN
  /\ s.kind = "stream" /\ w # {}
  /\ (o.side = "after" \/ \E i \in DOMAIN s.at : i < Oldest(w))
Newer(s, o) ==
  LET w == Window(s, o) IN
  /\ s.kind = "stream" /\ w # {}
  /\ (o.side = "before" \/ (o.side = "after" /\ \E i \in DOMAIN s.at : i > Latest(w)))

Page(s, o) ==
  [kind |-> s.kind, rows |-> Only(s.at, Window(s, o)), total |-> Cardinality(DOMAIN s.at),
   expires |-> s.expires, older |-> Older(s, o), newer |-> Newer(s, o)]

(* The type and the expiry of a key come from a cache of ten seconds that   *)
(* a write empties and that an older read or listing may fill again, so    *)
(* that they are any the key has had.  They decide how it is read: a key   *)
(* of another type is an error, and so is one that is gone, unless it is   *)
(* counted, which makes it an empty one.                                   *)
Meta(s) == [kind |-> s.kind, expires |-> s.expires]
Known(s) == IF s = None THEN {} ELSE {Meta(s)}
Through(m, s) == [kind |-> m.kind, expires |-> m.expires, at |-> IF s = None THEN <<>> ELSE s.at]
Readable(m, s) == IF s = None THEN m.kind \notin {"string", "json"} ELSE m.kind = s.kind
GetData(m, s, o) == IF Readable(m, s) THEN Page(Through(m, s), o) ELSE Missing

(* What a write makes of a key, None when it is refused.                   *)
Shift(f, by, from) ==
  LET moved(i) == IF i >= from THEN i + by ELSE i IN
  [n \in {moved(i) : i \in DOMAIN f} |-> f[CHOOSE i \in DOMAIN f : moved(i) = n]]
Set(f, i, x) == [n \in DOMAIN f \cup {i} |-> IF n = i THEN x ELSE f[n]]

Pushed(f, left, x) == IF left THEN Set(Shift(f, 1, 0), 0, x) ELSE Set(f, Cardinality(DOMAIN f), x)
Dropped(s, i) ==
  IF s.kind = "list" THEN Shift(Only(s.at, DOMAIN s.at \ {i}), -1, i) ELSE Only(s.at, DOMAIN s.at \ {i})

Written(s, j) ==
  IF s = None THEN None
  ELSE CASE j.op = "ttl" -> [s EXCEPT !.expires = j.value]
         [] j.op = "update" /\ (s.kind \in {"list", "json"} => j.at \in DOMAIN s.at)
                            /\ s.kind \notin {"set", "stream"} -> [s EXCEPT !.at = Set(@, j.at, j.value)]
         [] j.op = "insert" /\ s.kind = "list" -> [s EXCEPT !.at = Pushed(@, j.at = 0, j.value)]
         [] j.op = "insert" /\ s.kind \in {"hash", "set", "zset"} -> [s EXCEPT !.at = Set(@, j.at, j.value)]
         [] j.op = "remove" /\ (s.kind \in {"list", "hash"} => j.at \in DOMAIN s.at)
                            /\ s.kind \notin {"string", "json", "stream"} -> [s EXCEPT !.at = Dropped(s, j.at)]
         [] OTHER -> None
-----------------------------------------------------------------------------
(* Reading: fetchData of stores/data.ts. *)

DefaultOpts == [offset |-> 0, side |-> "end", id |-> 0]

NewCall(k, o) == [key |-> k, opts |-> o, newest |-> TRUE, sound |-> TRUE, answer |-> None]
Pending(k, o) == \E c \in calls : c.key = k /\ c.opts = o

(* Asks for key k with opts o, whose state in the store is d.  The same    *)
(* question is asked once.                                                 *)
FetchData(k, o, d) ==
  IF Pending(k, o)
  THEN /\ data' = [data EXCEPT ![k] = d] /\ UNCHANGED calls
       /\ stale' = [stale EXCEPT ![k] =
            @ \/ \E c \in calls : c.key = k /\ c.opts = o /\ ~(c.newest /\ c.sound)]
  ELSE /\ data' = [data EXCEPT ![k] = [d EXCEPT !.opts = o, !.loading = TRUE, !.err = FALSE]]
       /\ calls' = {IF c.key = k THEN [c EXCEPT !.newest = FALSE] ELSE c : c \in calls}
                     \cup {NewCall(k, o)}
       /\ UNCHANGED stale

(* A read takes several commands: one that was under way when its key      *)
(* changed may tell of both.                                               *)
Outdated(S) == {IF c.key \in S THEN [c EXCEPT !.sound = FALSE] ELSE c : c \in calls}
-----------------------------------------------------------------------------
(* The view. *)

D == data[view.key]
Rows == IF D.page = None THEN <<>> ELSE D.page.rows
Kind == IF D.page = None THEN None ELSE D.page.kind

(* hasBinary and valueEditingDisabled. *)
HasBinary == \E i \in DOMAIN Rows : Rows[i] = Raw
ValueEditingDisabled == readOnly \/ HasBinary

(* What RedisKeyView renders. *)
Screen ==
  IF view.key = None THEN "none"
  ELSE IF D.loading /\ D.page = None THEN "skeleton"
  ELSE IF D.err /\ DOMAIN Rows = {} THEN "unavailable"
  ELSE IF D.page = None \/ (~D.loading /\ D.page.total = 0) THEN "empty"
  ELSE "editor"

EditorKind == IF Screen = "editor" THEN Kind ELSE None

NoEditor == [kind |-> None, id |-> 0, edit |-> None]
Idle == [key |-> None, id |-> 0, busy |-> {}, editor |-> NoEditor]
Ids == 1..(2 * Cardinality(jobs) + 1)
FreshId == CHOOSE n \in Ids : \A j \in jobs : n \notin {j.view, j.editor}

Gesture == gestures < MaxGestures /\ gestures' = gestures + 1
(* The comparison is the only dialog that leaves the rest of the page usable. *)
NoDialog == modal \in {None, "compare"}
Free == Gesture /\ NoDialog
HeaderShown == NoDialog /\ Screen \notin {"none", "skeleton", "unavailable"}

(* The editor of a key of another kind is another component, and so is one *)
(* that comes back after the page was empty.  It starts without a draft.   *)
EditorFollows ==
  /\ view.editor.kind # EditorKind
  /\ view' = [view EXCEPT !.editor = [kind |-> EditorKind, edit |-> None,
                id |-> IF EditorKind = None THEN 0 ELSE FreshId]]
  /\ UNCHANGED <<server, workspace, data, calls, jobs, bulk, modal, busy, gestures, faults, history>>

(* The mount effect: the key of the tab that is shown now is read.         *)
ViewFollows ==
  /\ view.key # active
  /\ IF active = None
     THEN /\ view' = Idle /\ UNCHANGED <<data, calls, stale>>
          /\ modal' = IF modal \in {"bulk", "create"} THEN modal ELSE None
     ELSE /\ view' = [view EXCEPT !.key = active, !.id = IF view.key = None THEN FreshId ELSE @]
          /\ FetchData(active, data[active].opts, data[active])
          /\ UNCHANGED modal
  /\ UNCHANGED <<server, workspace, jobs, bulk, busy, gestures, faults, removed, misfired>>

(* openTab and closeTab of stores/workspace. *)
OpenTab(ts, k) == IF k \in Range(ts) THEN ts ELSE Append(ts, k)
CloseTab(k, ts, on) ==
  IF k \notin Range(ts) THEN tabs' = ts /\ active' = on
  ELSE LET i == CHOOSE n \in DOMAIN ts : ts[n] = k
           rest == RemoveAt(ts, i) IN
       /\ tabs' = rest
       /\ active' = IF on # k THEN on
                    ELSE IF rest = <<>> THEN None
                    ELSE rest[IF i <= Len(rest) THEN i ELSE Len(rest)]

Opens(k) ==
  /\ tabs' = OpenTab(tabs, k) /\ active' = k
  /\ removed' = IF stored[k] = None THEN removed \ {k} ELSE removed

(* A tab, or a key of the tree. *)
Show(k) ==
  /\ Free /\ k # active /\ (k \in Range(tabs) \/ stored[k] # None)
  /\ Opens(k)
  /\ UNCHANGED <<server, data, calls, jobs, view, bulk, modal, busy, faults, stale, misfired>>

Close ==
  /\ Free /\ active # None
  /\ CloseTab(active, tabs, active)
  /\ UNCHANGED <<server, data, calls, jobs, view, bulk, modal, busy, faults, history>>

(* A tab of another kind, or another page. *)
Leave ==
  /\ Free /\ active # None
  /\ active' = None
  /\ UNCHANGED <<server, tabs, data, calls, jobs, view, bulk, modal, busy, faults, history>>

(* Refresh, and Retry of a key that could not be read. *)
Refresh ==
  /\ Free /\ view.key # None /\ Screen # "skeleton"
  /\ (Screen = "unavailable" \/ (~D.loading /\ "saving" \notin view.busy))
  /\ FetchData(view.key, D.opts, D)
  /\ UNCHANGED <<server, workspace, jobs, view, bulk, modal, busy, faults, removed, misfired>>
-----------------------------------------------------------------------------
(* Editing elements. *)

(* Mutant: the buttons of an editor stay enabled while it saves. *)
AlwaysEnabled == TRUE
Enabled == "saving" \notin view.busy

(* What each editor offers: to begin and to save the edit of an element, to *)
(* remove one, to insert one, to turn the page.  A string that is being    *)
(* edited keeps its Save button, and the JSON editor is not told that      *)
(* values cannot be edited.                                                *)
StringEditor(op) ==
  \/ op = "begin" /\ view.editor.edit = None /\ ~ValueEditingDisabled
  \/ op = "save" /\ Enabled

HashEditor(op) ==
  /\ op \in {"begin", "save", "remove", "insert"} /\ ~ValueEditingDisabled
  /\ op # "begin" => Enabled

ListEditor(op) ==
  \/ /\ op \in {"begin", "save", "remove", "insert"} /\ ~ValueEditingDisabled
     /\ op # "begin" => Enabled
  \/ op = "prev" /\ Enabled /\ D.opts.offset # 0
  \/ op = "next" /\ Enabled /\ D.opts.offset + Limit < D.page.total

SetEditor(op) == op \in {"remove", "insert"} /\ Enabled /\ ~ValueEditingDisabled

(* The edit is one of a score. *)
SortedSetEditor(op) ==
  /\ op \in {"begin", "save", "remove", "insert"} /\ ~ValueEditingDisabled
  /\ op # "begin" => Enabled

JsonEditor(op) == op = "begin" \/ (op = "save" /\ Enabled)

StreamViewer(op) ==
  \/ op = "older" /\ ~D.loading /\ D.page.older
  \/ op = "newer" /\ ~D.loading /\ D.page.newer

Offers(op) ==
  /\ NoDialog /\ Screen = "editor"
  /\ \/ Kind = "string" /\ StringEditor(op)
     \/ Kind = "hash" /\ HashEditor(op)
     \/ Kind = "list" /\ ListEditor(op)
     \/ Kind = "set" /\ SetEditor(op)
     \/ Kind = "zset" /\ SortedSetEditor(op)
     \/ Kind = "json" /\ JsonEditor(op)
     \/ Kind = "stream" /\ StreamViewer(op)

(* A row is double-clicked, or its pencil pressed.  The draft belongs to an *)
(* index from then on, whatever element a reload puts there.               *)
BeginEdit(i) ==
  /\ Gesture /\ Offers("begin") /\ i \in DOMAIN Rows /\ view.editor.edit # i
  /\ view' = [view EXCEPT !.editor.edit = i]
  /\ UNCHANGED <<server, workspace, data, calls, jobs, bulk, modal, busy, faults, history>>

CancelEdit ==
  /\ NoDialog /\ Screen = "editor" /\ view.editor.edit # None
  /\ view' = [view EXCEPT !.editor.edit = None]
  /\ UNCHANGED <<server, workspace, data, calls, jobs, bulk, modal, busy, gestures, faults, history>>

Job(op) ==
  [op |-> op, key |-> view.key, view |-> view.id, editor |-> view.editor.id, stage |-> "asked",
   at |-> 0, value |-> None, seen |-> None, fair |-> TRUE, to |-> None, waits |-> DefaultOpts,
   applied |-> FALSE]

(* runMutation: nothing is sent for a read-only connection.                *)
RunMutation(j) ==
  /\ IF readOnly THEN UNCHANGED <<jobs, view>>
     ELSE /\ jobs' = jobs \cup {j}
          /\ view' = [view EXCEPT !.busy = @ \cup {"saving"}]
  /\ UNCHANGED <<server, workspace, data, calls, bulk, modal, busy, faults, history>>

(* A removal is fair when what it was aimed at is what the server had, as  *)
(* far as this view can tell: a view that was left takes its saving flag   *)
(* along, and a row that is being edited shows its draft.                  *)
LeftBehind ==
  \E j \in jobs :
    /\ j.key = view.key /\ j.op \in Mutations /\ j.stage \in {"done", "reload"}
    /\ j.view # view.id
Aimed(j) ==
  [j EXCEPT !.seen = IF j.at \in DOMAIN Rows THEN Rows[j.at] ELSE None,
            !.fair = ~stale[view.key] /\ ~LeftBehind /\ view.editor.edit # j.at]

SaveEdit(x) ==
  /\ Gesture /\ Offers("save") /\ view.editor.edit \in DOMAIN Rows
  /\ RunMutation([Job("update") EXCEPT !.at = view.editor.edit, !.value = x])

RemoveElement(i) ==
  /\ Gesture /\ Offers("remove") /\ i \in DOMAIN Rows
  /\ RunMutation(Aimed([Job("remove") EXCEPT !.at = i]))

(* At a field or a member; left or right in a list.                        *)
InsertElement(i, x) ==
  /\ Gesture /\ Offers("insert")
  /\ RunMutation([Job("insert") EXCEPT !.at = i, !.value = x])

(* Paging: setOpts, then fetchData. *)
AskFor(o) ==
  /\ FetchData(view.key, o, [D EXCEPT !.opts = o])
  /\ UNCHANGED <<server, workspace, jobs, view, bulk, modal, busy, faults, removed, misfired>>

NextPage == Gesture /\ Offers("next") /\ AskFor([D.opts EXCEPT !.offset = @ + Limit])
PrevPage ==
  Gesture /\ Offers("prev") /\ AskFor([D.opts EXCEPT !.offset = IF @ > Limit THEN @ - Limit ELSE 0])

LoadOlder ==
  /\ Gesture /\ Offers("older")
  /\ AskFor([offset |-> 0, side |-> "before", id |-> Oldest(DOMAIN Rows)])
LoadNewer ==
  /\ Gesture /\ Offers("newer")
  /\ AskFor([offset |-> 0, side |-> "after", id |-> Latest(DOMAIN Rows)])
-----------------------------------------------------------------------------
(* The dialogs of the key. *)

Opening(d) ==
  /\ Gesture /\ HeaderShown
  /\ d \in {"ttl", "rename", "delete"} => ~readOnly
  /\ d \in {"rename", "delete", "copy"} => Enabled
  /\ d = "rename" => "renaming" \notin view.busy
  /\ modal' = d
  /\ UNCHANGED <<server, workspace, data, calls, jobs, view, bulk, busy, faults, history>>

CloseDialog ==
  /\ modal # None /\ modal' = None
  /\ UNCHANGED <<server, workspace, data, calls, jobs, view, bulk, busy, gestures, faults, history>>

In(d) == Gesture /\ modal = d

ConfirmTTL(x) ==
  /\ In("ttl") /\ Enabled
  /\ RunMutation([Job("ttl") EXCEPT !.value = x])

(* The name was typed once more. *)
ConfirmDelete ==
  /\ In("delete") /\ Enabled
  /\ RunMutation(Job("delete"))

Starts(j, flag) ==
  /\ jobs' = jobs \cup {j}
  /\ view' = [view EXCEPT !.busy = @ \cup {flag}]
  /\ UNCHANGED <<server, workspace, data, calls, bulk, modal, busy, faults, history>>

RenameKey(n) ==
  /\ In("rename") /\ n # view.key /\ "renaming" \notin view.busy
  /\ Starts([Job("rename") EXCEPT !.to = n], "renaming")

(* To another name here, or to another connection (None).  A read-only     *)
(* connection is not among the destinations.                               *)
DuplicateKey(n) ==
  /\ In("copy") /\ "copying" \notin view.busy
  /\ n # None => ~readOnly
  /\ Starts([Job("copy") EXCEPT !.to = n], "copying")

CopyAsJson ==
  /\ Gesture /\ HeaderShown /\ "exporting" \notin view.busy
  /\ Starts(Job("export"), "exporting")
-----------------------------------------------------------------------------
(* The sidebar. *)

SideJob(op) == [Job(op) EXCEPT !.key = None, !.view = 0, !.editor = 0]

StartsBeside(j) ==
  /\ jobs' = jobs \cup {j} /\ busy' = busy \cup {j.op}
  /\ UNCHANGED <<server, workspace, data, calls, view, faults, history>>

(* BulkActions and New Key: the dialog is opened and used, or used again.  *)
Beside(d) ==
  /\ Gesture /\ ~readOnly
  /\ NoDialog \/ modal = d
  /\ modal' = d

(* A count that is under way is not told of the new pattern. *)
ChangePattern(p) ==
  /\ Beside("bulk") /\ p # bulk.pattern
  /\ bulk' = [pattern |-> p, count |-> None]
  /\ UNCHANGED <<server, workspace, data, calls, jobs, view, busy, faults, history>>

RunPreview ==
  /\ Beside("bulk") /\ busy \cap {"preview", "bulk"} = {}
  /\ StartsBeside([SideJob("preview") EXCEPT !.to = bulk.pattern]) /\ UNCHANGED bulk

RunDelete ==
  /\ Beside("bulk") /\ "bulk" \notin busy /\ bulk.count \notin {None, 0}
  /\ StartsBeside([SideJob("bulk") EXCEPT !.to = bulk.pattern]) /\ UNCHANGED bulk

HandleCreateKey(n, kind, x) ==
  /\ Beside("create") /\ "create" \notin busy
  /\ StartsBeside([SideJob("create") EXCEPT !.to = n, !.seen = kind, !.value = x]) /\ UNCHANGED bulk

(* RedisKeyLookup. *)
HandleLookup(n) ==
  /\ Free /\ "lookup" \notin busy
  /\ StartsBeside([SideJob("lookup") EXCEPT !.to = n]) /\ UNCHANGED <<bulk, modal>>
-----------------------------------------------------------------------------
(* The server takes a request. *)

(* The keys a request changes and what becomes of them; the empty set when *)
(* it is refused or only reads.                                            *)
Moves(j) ==
  CASE j.op \in {"rename", "copy"} -> stored[j.key] # None /\ (j.to = None \/ stored[j.to] = None)
    [] j.op \in {"delete", "export"} -> stored[j.key] # None
    [] j.op \in Mutations \ {"delete"} -> Written(stored[j.key], j) # None
    [] j.op = "create" -> stored[j.to] = None
    [] j.op = "lookup" -> stored[j.to] # None \/ remembered[j.to] # {}
    [] OTHER -> TRUE

Kept(s) == IF DOMAIN s.at = {} THEN None ELSE s

After(j) ==
  CASE j.op = "delete" -> [stored EXCEPT ![j.key] = None]
    [] j.op \in Mutations \ {"delete"} -> [stored EXCEPT ![j.key] = Kept(Written(@, j))]
    [] j.op = "rename" -> [stored EXCEPT ![j.to] = stored[j.key], ![j.key] = None]
    [] j.op = "copy" /\ j.to # None -> [stored EXCEPT ![j.to] = stored[j.key]]
    [] j.op = "bulk" -> [k \in Names |-> IF k \in j.to THEN None ELSE stored[k]]
    [] j.op = "create" ->
         [stored EXCEPT ![j.to] = [kind |-> j.seen, at |-> [i \in {0} |-> j.value], expires |-> FALSE]]
    [] OTHER -> stored

Matching(p) == Cardinality({k \in p : stored[k] # None})

Apply(j) ==
  /\ j.stage = "asked"
  /\ IF ~Moves(j)
     THEN /\ jobs' = (jobs \ {j}) \cup {[j EXCEPT !.stage = "refused"]}
          /\ UNCHANGED <<stored, remembered, calls, stale, removed, misfired>>
     ELSE LET now == After(j)
              changed == {k \in Names : now[k] # stored[k]}
              beside == IF j.op \in Mutations THEN changed \ {j.key} ELSE changed
              unfair(o) == IF o # j /\ o.key \in changed THEN [o EXCEPT !.fair = FALSE] ELSE o IN
          /\ stored' = now
          /\ remembered' = [k \in Names |-> remembered[k] \cup Known(now[k])]
          /\ jobs' = {unfair(o) : o \in jobs \ {j}} \cup
               {[j EXCEPT !.stage = "done", !.applied = TRUE,
                          !.seen = IF j.op \in {"preview", "bulk"} THEN Matching(j.to) ELSE @]}
          /\ calls' = Outdated(changed)
          /\ stale' = [k \in Names |-> stale[k] \/ k \in beside]
          /\ removed' = IF j.op \in {"delete", "rename"} THEN (removed \cup {j.key}) \ {j.to}
                        ELSE {k \in removed : now[k] = None}
          /\ misfired' = (misfired \/
               (j.op = "remove" /\ j.fair /\ stored[j.key].at[j.at] # j.seen))
  /\ UNCHANGED <<readOnly, tabs, active, data, view, bulk, modal, busy, gestures, faults>>

(* A key that is gone is found as long as the server remembers it. *)
LookupMisses(j) ==
  /\ j.op = "lookup" /\ j.stage = "asked" /\ stored[j.to] = None
  /\ jobs' = (jobs \ {j}) \cup {[j EXCEPT !.stage = "refused"]}
  /\ UNCHANGED <<server, workspace, data, calls, view, bulk, modal, busy, gestures, faults, history>>

(* Somebody else pushes onto a list or overwrites a value. *)
Elsewhere(k, x) ==
  /\ faults < MaxFaults /\ faults' = faults + 1
  /\ stored[k] # None /\ stored[k].kind \notin {"set", "json"}
  /\ stored' = [stored EXCEPT ![k].at =
       CASE stored[k].kind = "list" -> Pushed(@, TRUE, x)
         [] stored[k].kind = "stream" -> Set(@, Cardinality(DOMAIN @), x)
         [] OTHER -> Set(@, 0, x)]
  /\ calls' = Outdated({k})
  /\ jobs' = {IF j.key = k THEN [j EXCEPT !.fair = FALSE] ELSE j : j \in jobs}
  /\ stale' = [stale EXCEPT ![k] = TRUE]
  /\ UNCHANGED <<readOnly, remembered, workspace, data, view, bulk, modal, busy, gestures, removed,
                 misfired>>
-----------------------------------------------------------------------------
(* Handlers go on. *)

Lives(j) == view.key # None /\ view.id = j.view

Flag(op) ==
  CASE op \in Mutations -> "saving" [] op = "rename" -> "renaming"
    [] op = "copy" -> "copying" [] OTHER -> "exporting"
Resting(j) == IF Lives(j) THEN [view EXCEPT !.busy = @ \ {Flag(j.op)}] ELSE view
Closes(j, d) == IF Lives(j) /\ modal = d THEN None ELSE modal

Becomes(j, new) == jobs' = (jobs \ {j}) \cup new

MutationLands(j) ==
  /\ j.op \in Mutations /\ j.stage = "done"
  /\ FetchData(j.key, data[j.key].opts, data[j.key])
  /\ Becomes(j, {[j EXCEPT !.stage = "reload", !.waits = data[j.key].opts]})
  /\ UNCHANGED <<server, workspace, view, bulk, modal, busy, gestures, faults, removed, misfired>>

(* A page that was asked for since then leaves the one before on screen.   *)
ReloadDue(j) == j.stage = "reload" /\ ~Pending(j.key, j.waits)
Reloaded(j) ==
  /\ ReloadDue(j)
  /\ Becomes(j, {[j EXCEPT !.stage = "tree"]})
  /\ stale' = [stale EXCEPT ![j.key] = @ \/ \E c \in calls : c.key = j.key /\ c.newest]
  /\ UNCHANGED <<server, workspace, data, calls, view, bulk, modal, busy, gestures, faults,
                 removed, misfired>>

(* The tree was refreshed: the end of runMutation and of what called it.   *)
(* A deletion refreshes the tree once more.                                *)
TreeLands(j) ==
  /\ j.stage = "tree" /\ j.op \in Mutations \cup {"rename"}
  /\ Becomes(j, IF j.op = "delete" THEN {[j EXCEPT !.stage = "closing"]} ELSE {})
  /\ view' = IF j.op = "update" /\ Resting(j).editor.id = j.editor
             THEN [Resting(j) EXCEPT !.editor.edit = None] ELSE Resting(j)
  /\ modal' = IF j.op = "ttl" THEN Closes(j, "ttl") ELSE modal
  /\ UNCHANGED <<server, workspace, data, calls, bulk, busy, gestures, faults, history>>

(* Mutant: the tab on screen is closed, whichever it is by now. *)
TabOnScreen(j) == IF active = None THEN j.key ELSE active
TabOfJob(j) == j.key

DeleteLands(j) ==
  /\ j.op = "delete" /\ j.stage = "closing"
  /\ Becomes(j, {})
  /\ CloseTab(TabOfJob(j), tabs, active)
  /\ UNCHANGED <<server, data, calls, view, bulk, modal, busy, gestures, faults, history>>

(* The new name is opened first and the old tab closed after. *)
RenameLands(j) ==
  /\ j.op = "rename" /\ j.stage = "done"
  /\ Becomes(j, {[j EXCEPT !.stage = "tree"]})
  /\ CloseTab(j.key, OpenTab(tabs, j.to), j.to)
  /\ modal' = Closes(j, "rename")
  /\ removed' = removed \ {j.to}
  /\ UNCHANGED <<server, data, calls, view, bulk, busy, gestures, faults, stale, misfired>>

CopyLands(j) ==
  /\ j.op = "copy" /\ j.stage = "done"
  /\ Becomes(j, {})
  /\ modal' = Closes(j, "copy") /\ view' = Resting(j)
  /\ IF j.to = None THEN UNCHANGED <<workspace, removed>> ELSE Opens(j.to)
  /\ UNCHANGED <<server, data, calls, bulk, busy, gestures, faults, stale, misfired>>

ExportLands(j) ==
  /\ j.op = "export" /\ j.stage = "done"
  /\ Becomes(j, {}) /\ view' = Resting(j)
  /\ UNCHANGED <<server, workspace, data, calls, bulk, modal, busy, gestures, faults, history>>

PreviewLands(j) ==
  /\ j.op = "preview" /\ j.stage = "done"
  /\ Becomes(j, {}) /\ busy' = busy \ {"preview"}
  /\ bulk' = [bulk EXCEPT !.count = j.seen]
  /\ UNCHANGED <<server, workspace, data, calls, view, modal, gestures, faults, history>>

(* A bulk delete, a new key: first the tree. *)
SideTree(j) ==
  /\ j.op \in {"bulk", "create"} /\ j.stage = "done"
  /\ Becomes(j, {[j EXCEPT !.stage = "tree"]})
  /\ UNCHANGED <<server, workspace, data, calls, view, bulk, modal, busy, gestures, faults, history>>

BulkLands(j) ==
  /\ j.op = "bulk" /\ j.stage = "tree"
  /\ Becomes(j, {}) /\ busy' = busy \ {"bulk"}
  /\ bulk' = [bulk EXCEPT !.count = j.seen]
  /\ modal' = IF modal = "bulk" THEN None ELSE modal
  /\ UNCHANGED <<server, workspace, data, calls, view, gestures, faults, history>>

CreateLands(j) ==
  /\ j.op = "create" /\ j.stage = "tree"
  /\ Becomes(j, {}) /\ busy' = busy \ {"create"}
  /\ Opens(j.to)
  /\ modal' = IF modal = "create" THEN None ELSE modal
  /\ UNCHANGED <<server, data, calls, view, bulk, gestures, faults, stale, misfired>>

LookupLands(j) ==
  /\ j.op = "lookup" /\ j.stage = "done"
  /\ Becomes(j, {}) /\ busy' = busy \ {"lookup"}
  /\ Opens(j.to)
  /\ UNCHANGED <<server, data, calls, view, bulk, modal, gestures, faults, stale, misfired>>

(* A refusal, or a request that is lost before or after the server took it.*)
JobFails(j) ==
  /\ IF j.stage = "refused" THEN UNCHANGED faults
     ELSE j.stage \in {"asked", "done"} /\ faults < MaxFaults /\ faults' = faults + 1
  /\ Becomes(j, {})
  /\ IF j.key = None THEN busy' = busy \ {j.op} /\ UNCHANGED view
     ELSE view' = Resting(j) /\ UNCHANGED busy
  /\ data' = IF j.op \in Mutations \cup {"rename"} \/ (j.op = "copy" /\ j.to # None)
             THEN [data EXCEPT ![j.key].err = TRUE] ELSE data
  /\ stale' = IF j.applied /\ j.key # None THEN [stale EXCEPT ![j.key] = TRUE] ELSE stale
  /\ removed' = IF j.applied THEN removed \ {j.key} ELSE removed
  /\ UNCHANGED <<server, workspace, calls, bulk, modal, gestures, misfired>>
-----------------------------------------------------------------------------
(* Answers of reads. *)

Answer(c) ==
  /\ c.answer = None
  /\ \E answer \in {GetData(m, stored[c.key], c.opts) : m \in remembered[c.key]}
                      \cup (IF stored[c.key] = None THEN {Missing} ELSE {}) :
       calls' = (calls \ {c}) \cup {[c EXCEPT !.answer = answer]}
  /\ UNCHANGED <<server, workspace, data, jobs, view, bulk, modal, busy, gestures, faults, history>>

(* Mutant: a superseded page is shown as well. *)
EveryPage(c) == TRUE
NewestPage(c) == c.newest

Land(c) ==
  /\ c.answer \notin {None, Missing}
  /\ calls' = calls \ {c}
  /\ data' = IF NewestPage(c)
             THEN [data EXCEPT ![c.key].page = c.answer, ![c.key].loading = FALSE, ![c.key].err = FALSE]
             ELSE data
  /\ stale' = IF NewestPage(c) /\ (c.opts = data[c.key].opts \/ ~c.sound)
              THEN [stale EXCEPT ![c.key] = ~c.sound] ELSE stale
  /\ UNCHANGED <<server, workspace, jobs, view, bulk, modal, busy, gestures, faults, removed, misfired>>

Fail(c) ==
  /\ IF c.answer = Missing THEN UNCHANGED faults
     ELSE faults < MaxFaults /\ faults' = faults + 1
  /\ calls' = calls \ {c}
  /\ data' = IF NewestPage(c) THEN [data EXCEPT ![c.key].loading = FALSE, ![c.key].err = TRUE] ELSE data
  /\ stale' = [stale EXCEPT ![c.key] = TRUE]
  /\ UNCHANGED <<server, workspace, jobs, view, bulk, modal, busy, gestures, removed, misfired>>
-----------------------------------------------------------------------------
(* The tabs of the keys there are were restored, none is on screen yet.    *)
KeysInit ==
  /\ stored \in Stores /\ readOnly \in BOOLEAN
  /\ remembered = [k \in Names |-> Known(stored[k])]
  /\ tabs = SetToSeq({k \in Names : stored[k] # None})
  /\ active = IF tabs = <<>> THEN None ELSE tabs[1]
  /\ data = [k \in Names |-> [opts |-> DefaultOpts, page |-> None, loading |-> FALSE, err |-> FALSE]]
  /\ calls = {} /\ jobs = {}
  /\ view = Idle
  /\ bulk = [pattern |-> CHOOSE p \in Patterns : TRUE, count |-> None]
  /\ modal = None /\ busy = {}
  /\ gestures = 0 /\ faults = 0
  /\ stale = [k \in Names |-> FALSE] /\ removed = {} /\ misfired = FALSE

Addresses == UNION {DOMAIN stored[k].at : k \in {n \in Names : stored[n] # None}} \cup {0, 1}

ReadArrives == \E c \in calls : Answer(c) \/ Land(c) \/ Fail(c)
WriteArrives ==
  \E j \in jobs :
    \/ Apply(j) \/ MutationLands(j) \/ TreeLands(j) \/ DeleteLands(j) \/ RenameLands(j)
    \/ CopyLands(j) \/ ExportLands(j) \/ PreviewLands(j) \/ SideTree(j) \/ BulkLands(j)
    \/ CreateLands(j) \/ LookupMisses(j) \/ LookupLands(j) \/ JobFails(j)

Effects == ViewFollows \/ (view.key = active /\ (EditorFollows \/ \E j \in jobs : Reloaded(j)))
EffectDue ==
  view.key # active \/ view.editor.kind # EditorKind \/ \E j \in jobs : ReloadDue(j)

Editing ==
  \/ (\E i \in Addresses : BeginEdit(i) \/ RemoveElement(i) \/ \E x \in Texts : InsertElement(i, x))
  \/ CancelEdit \/ (\E x \in Texts : SaveEdit(x))
  \/ NextPage \/ PrevPage \/ LoadOlder \/ LoadNewer
Dialogs ==
  \/ (\E d \in KeyDialogs : Opening(d)) \/ CloseDialog
  \/ (\E x \in BOOLEAN : ConfirmTTL(x)) \/ ConfirmDelete
  \/ (\E n \in Names : RenameKey(n)) \/ (\E n \in Names \cup {None} : DuplicateKey(n)) \/ CopyAsJson
Sidebar ==
  \/ (\E p \in Patterns : ChangePattern(p))
  \/ RunPreview \/ RunDelete \/ (\E n \in Names : HandleLookup(n))
  \/ (\E n \in Names, kind \in NewKinds, x \in Texts : HandleCreateKey(n, kind, x))

Events ==
  \/ (\E k \in Names : Show(k)) \/ Close \/ Leave \/ Refresh
  \/ Editing \/ Dialogs \/ Sidebar \/ ReadArrives \/ WriteArrives
  \/ \E k \in Names : Elsewhere(k, Raw)

(* What an effect or an awaiting handler does next comes before the rest.  *)
KeysNext == Effects \/ (~EffectDue /\ Events)

Spec == KeysInit /\ [][KeysNext]_keyVars
-----------------------------------------------------------------------------
(* Properties. *)

(* Every variable stays in its range. *)
TypeOK ==
  /\ \A k \in Names : stored[k] = None \/ stored[k].kind \in Kinds
  /\ Range(tabs) \subseteq Names /\ IsInjective(tabs) /\ active \in Range(tabs) \cup {None}
  /\ \A c \in calls : c.key \in Names
  /\ \A j \in jobs : j.key \in Names \cup {None}
  /\ removed \subseteq Names /\ stale \in [Names -> BOOLEAN] /\ misfired \in BOOLEAN

Settled(k) == (\A c \in calls : c.key # k) /\ (\A j \in jobs : j.key # k)

(* A page shows what the server holds of a key: its elements, their number *)
(* and those before and after them, and its type, not whether it expires.  *)
Shows(p, s, o) == Readable(p, s) /\ p = Page(Through(p, s), o)

(* Whatever was edited, paged, superseded and left in between, a key on    *)
(* screen that is at rest shows what the server holds of it, at the page   *)
(* its options name, its own writes included, and the cache of types and   *)
(* expiries makes no difference to that.  Left out: the expiry itself,     *)
(* reads that were joined or superseded while the key changed, failures,   *)
(* and what others wrote (stale).                                          *)
KeyShowsTheServer ==
  LET k == view.key IN
  (k # None /\ k = active /\ Settled(k) /\ ~stale[k] /\ ~data[k].err) =>
    data[k].page # None /\ Shows(data[k].page, stored[k], data[k].opts)

(* A list is edited by index.  A removal reaches the element that its row  *)
(* showed when its button was pressed.  Left out: what others wrote and    *)
(* reads that failed or were superseded (stale), a view that was left and  *)
(* mounted anew while a write of its key was not read back, for its        *)
(* buttons are enabled over rows of before (LeftBehind), and a row that is *)
(* being edited.  Such a row shows its draft and not the element there is, *)
(* which is also why nothing is said of a save.                            *)
RemovalsHitTheirElement == ~misfired

(* "The key under this tab stops existing, so the tab has to follow it":   *)
(* a key that was deleted or renamed from its view has no tab any more,    *)
(* whichever tab was on screen when the answer came.                       *)
GoneKeysHaveNoTab ==
  \A k \in removed : k \in Range(tabs) => \E j \in jobs : j.key = k /\ j.applied
=============================================================================

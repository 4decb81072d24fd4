-------------------------------- MODULE Tables --------------------------------
(***************************************************************************)
(* Postgres tables on screen: the rows stores/data.ts keeps for each tab   *)
(* and the requests that fill them, and PgTableView with its page, filter  *)
(* and order, its selection, its pending changes and what writes them.     *)
(*                                                                         *)
(* One view serves every table tab that is shown in its place, so that     *)
(* what it began for one tab may end while it shows another.  A row is its *)
(* key and one value; a filter is the set of rows that satisfy it.         *)
(***************************************************************************)
EXTENDS Integers, Sequences, FiniteSets, SequencesExt

CONSTANTS
  Tabs,          \* tabs of tables, one table each
  Rows,          \* keys of rows, in the order of the table
  FirstRows,     \* those there are at first
  Shared,        \* those that others write too
  Filters,       \* filters beside the empty one
  Limits,        \* rows per page; the first tab starts with the largest
  MaxGestures,   \* bound: what the user does
  MaxFaults,     \* bound: requests that fail, and what others write
  None

Values == {0, 1}
(* No order and the ascending one are the order of the keys. *)
Orders == {"none", "desc"}
Views == 1..3
Dialogs == {"save", "delete", "add", "ddl"}

ASSUME TablesAssumption ==
  /\ Rows \subseteq Nat /\ FirstRows \cup Shared \subseteq Rows /\ IsFiniteSet(Rows)
  /\ Filters \subseteq SUBSET Rows /\ Limits \subseteq Nat \ {0} /\ Limits # {}
  /\ None \notin Tabs /\ None \notin Values /\ None \notin Dialogs /\ Tabs # {}
  /\ MaxGestures \in Nat /\ MaxFaults \in Nat

VARIABLES
  stored, layout, \* the server: rows and columns of each table
  data,          \* useDataStore: what each tab shows and asked for
  drafts,        \* its draftUpdates, draftDeletes and draftInserts
  calls,         \* reads under way
  jobs,          \* handlers of the view under way
  view,          \* the mounted PgTableView, tab None when there is none
  gestures, faults,
  stale,         \* history: a read was joined that may say something else
  lost           \* history: a pending change was dropped unwritten

vars == <<stored, layout, data, drafts, calls, jobs, view, gestures, faults, stale, lost>>
-----------------------------------------------------------------------------
(* Reading. *)

Largest(S) == CHOOSE n \in S : \A m \in S : m <= n
DefaultOpts == [filter |-> Rows, sort |-> "none", limit |-> Largest(Limits), offset |-> 0]

(* What the server answers of the rows and columns of a table: those after *)
(* offset in the order asked for.                                          *)
PageOf(o, rows, columns) ==
  LET all == SetToSortSeq({r \in o.filter : rows[r] # None},
                          LAMBDA a, b : IF o.sort = "desc" THEN a > b ELSE a < b)
      on == {all[i] : i \in (o.offset + 1)..(o.offset + o.limit) \cap DOMAIN all} IN
  [rows |-> [r \in on |-> rows[r]], more |-> o.offset + o.limit < Len(all),
   total |-> Len(all), columns |-> columns]
Page(o, t) == PageOf(o, stored[t], layout[t])

Key(op, t, o) == [op |-> op, tab |-> t, opts |-> o]
KeyOf(c) == Key(c.op, c.tab, c.opts)
Pending(k) == \E c \in calls : KeyOf(c) = k

NewCall(k) ==
  [op |-> k.op, tab |-> k.tab, opts |-> k.opts, newest |-> TRUE, sound |-> TRUE, answer |-> None]

Fetching(d, o) ==
  [d EXCEPT !.asked = TRUE, !.opts = o, !.loading = TRUE, !.dataErr = FALSE, !.mutErr = FALSE]

(* fetchData with opts o for a tab whose state is d: joined when the same  *)
(* question is on its way.                                                 *)
FetchData(t, d, o) ==
  LET k == Key("data", t, o) IN
  IF Pending(k)
  THEN /\ data' = [data EXCEPT ![t] = d] /\ UNCHANGED calls
       /\ stale' = [stale EXCEPT ![t] =
            @ \/ \E c \in calls : KeyOf(c) = k /\ ~(c.newest /\ c.sound)]
  ELSE /\ data' = [data EXCEPT ![t] = Fetching(d, o)]
       /\ calls' = {IF c.op = "data" /\ c.tab = t THEN [c EXCEPT !.newest = FALSE] ELSE c : c \in calls}
                     \cup {NewCall(k)}
       /\ stale' = [stale EXCEPT ![t] = FALSE]

(* Mutant: a page that was superseded is written as well. *)
IsAnyRequest(c) == TRUE
IsNewestRequest(c) == c.newest

Shown(d, a) ==
  [d EXCEPT !.rows = a.rows, !.more = a.more, !.total = a.total, !.columns = a.columns,
            !.loading = FALSE, !.dataErr = FALSE, !.mutErr = FALSE]

Failed(d) == [d EXCEPT !.loading = FALSE, !.dataErr = TRUE]

(* fetchSchema. *)
SchemaKey(t) == Key("schema", t, None)
FetchSchema(t) ==
  calls' = IF Pending(SchemaKey(t)) THEN calls ELSE calls \cup {NewCall(SchemaKey(t))}

(* setOpts: another filter or order starts over at the first page.         *)
SetOpts(d, part) ==
  LET o == [f \in DOMAIN d.opts |-> IF f \in DOMAIN part THEN part[f] ELSE d.opts[f]] IN
  IF {"filter", "sort"} \cap DOMAIN part # {} THEN [o EXCEPT !.offset = 0] ELSE o
-----------------------------------------------------------------------------
(* Pending changes. *)

NoDrafts == [updates |-> [r \in Rows |-> None], deletes |-> {}, inserts |-> 0]
Updated(dr) == {r \in Rows : dr.updates[r] # None}
PendingCount(dr) == Cardinality(Updated(dr)) + Cardinality(dr.deletes) + dr.inserts

(* draftCellValue. *)
DraftCellValue(t, r, fallback) ==
  IF drafts[t].updates[r] # None THEN drafts[t].updates[r] ELSE fallback

(* buildBulkMutatePayload: no update of a row that is deleted as well.     *)
BulkMutatePayload(dr) ==
  [dr EXCEPT !.updates = [r \in Rows |-> IF r \in dr.deletes THEN None ELSE dr.updates[r]]]

(* What the server makes of it, in one transaction; None when a row is gone. *)
BulkMutated(t, p) ==
  LET free == {r \in Rows : t[r] = None} IN
  IF \E r \in Updated(p) \cup p.deletes : t[r] = None THEN None
  ELSE IF p.inserts > Cardinality(free) THEN None
  ELSE LET new == CHOOSE S \in SUBSET free : Cardinality(S) = p.inserts IN
       [r \in Rows |-> CASE r \in p.deletes -> None
                         [] r \in new -> 0
                         [] OTHER -> IF p.updates[r] # None THEN p.updates[r] ELSE t[r]]

OneInsert == [NoDrafts EXCEPT !.inserts = 1]
OneDelete(r) == [NoDrafts EXCEPT !.deletes = {r}]
-----------------------------------------------------------------------------
(* The view. *)

NoSelection == [r \in Rows |-> None]
SelectedRows == {r \in Rows : view.selected[r] # None}

Here == IF view.tab = None THEN DefaultOpts ELSE data[view.tab].opts
D == data[view.tab]

(* What PgTableView renders; an error hides an empty table only.           *)
Screen ==
  IF view.tab = None THEN "none"
  ELSE LET noRows == DOMAIN D.rows = {} IN
       IF noRows /\ (D.dataErr \/ D.mutErr) THEN "error"
       ELSE IF noRows /\ D.loading THEN "skeleton"
       ELSE IF D.total = 0 THEN "empty" ELSE "table"

(* DataTable lays a cover over its rows and headers. *)
Covered == D.loading \/ view.saving

Displayed(r) == DraftCellValue(view.tab, r, D.rows[r])

Job(op, t, v, stage) ==
  [op |-> op, tab |-> t, view |-> v, stage |-> stage, payload |-> NoDrafts, rest |-> {},
   applied |-> FALSE, waits |-> None]

Idle == [tab |-> None, n |-> 0, selected |-> NoSelection, edit |-> FALSE, dialog |-> None,
         saving |-> FALSE, timer |-> FALSE]

Gesture == gestures < MaxGestures /\ gestures' = gestures + 1
(* Dialogs are modal. *)
Shows == view.tab # None /\ view.dialog = None
Free == Gesture /\ Shows
UsesToolbar == Free /\ Screen # "error"
UsesTable == Free /\ Screen = "table" /\ ~Covered

(* The mount effect, for the tab that is shown now: its drafts go, its     *)
(* rows are asked for.  The filters of a tab that had none yet count as    *)
(* changed and are asked for once more.                                    *)
Show(t) ==
  /\ Gesture /\ view.dialog = None /\ t # view.tab
  /\ LET n == IF view.tab = None THEN CHOOSE m \in Views : \A j \in jobs : j.view # m ELSE view.n IN
     view' = [Idle EXCEPT !.tab = t, !.n = n, !.saving = view.saving, !.timer = ~data[t].asked]
  /\ drafts' = [drafts EXCEPT ![t] = NoDrafts]
  /\ FetchData(t, data[t], data[t].opts)
  /\ jobs' = jobs \cup {[Job("mount", t, 0, "reload") EXCEPT !.waits = data[t].opts]}
  /\ UNCHANGED <<stored, layout, faults, lost>>

(* A tab of another kind, or another page. *)
Leave ==
  /\ Free
  /\ view' = Idle
  /\ UNCHANGED <<stored, layout, data, drafts, calls, jobs, faults, stale, lost>>

(* Refresh, Ctrl+R and Retry. *)
Refresh ==
  /\ Free
  /\ FetchData(view.tab, D, D.opts)
  /\ UNCHANGED <<stored, layout, drafts, jobs, view, faults, lost>>

(* Every control that changes what is asked for: setOpts, then fetchData.  *)
AskFor(part) ==
  LET o == SetOpts(D, part) IN
  /\ FetchData(view.tab, [D EXCEPT !.opts = o], o)
  /\ UNCHANGED <<stored, layout, drafts, jobs, faults, lost>>

HandleSortChange(s) ==
  /\ UsesTable /\ s # D.opts.sort
  /\ AskFor([sort |-> s]) /\ UNCHANGED view

HandleNext ==
  /\ UsesToolbar /\ D.more
  /\ AskFor([offset |-> D.opts.offset + D.opts.limit]) /\ UNCHANGED view

HandlePrev ==
  /\ UsesToolbar /\ D.opts.offset # 0
  /\ LET back == D.opts.offset - D.opts.limit IN
     AskFor([offset |-> IF back < 0 THEN 0 ELSE back])
  /\ UNCHANGED view

HandlePageSizeChange(n) ==
  /\ UsesToolbar /\ n # D.opts.limit
  /\ AskFor([limit |-> n, offset |-> 0]) /\ UNCHANGED view

(* A filter is typed: what is asked for changes at once, the request waits *)
(* for the typing to pause.                                                *)
HandleFilterChange(f) ==
  /\ Free /\ Screen = "table" /\ f # D.opts.filter
  /\ data' = [data EXCEPT ![view.tab].opts = SetOpts(D, [filter |-> f])]
  /\ view' = [view EXCEPT !.timer = TRUE]
  /\ UNCHANGED <<stored, layout, drafts, calls, jobs, faults, stale, lost>>

HandleClearFilters ==
  /\ UsesToolbar /\ D.opts.filter # Rows
  /\ AskFor([filter |-> Rows])
  /\ view' = [view EXCEPT !.timer = TRUE]

TimerFires ==
  /\ view.timer /\ view' = [view EXCEPT !.timer = FALSE]
  /\ FetchData(view.tab, D, [D.opts EXCEPT !.offset = 0])
  /\ UNCHANGED <<stored, layout, drafts, jobs, gestures, faults, lost>>
-----------------------------------------------------------------------------
(* Selecting and editing. *)

HandleToggleRow(r) ==
  /\ UsesTable /\ r \in DOMAIN D.rows
  /\ view' = [view EXCEPT !.selected[r] = IF @ = None THEN D.rows[r] ELSE None]
  /\ UNCHANGED <<stored, layout, data, drafts, calls, jobs, faults, stale, lost>>

(* Not while changes are pending. *)
HandleToggleEditMode ==
  /\ UsesToolbar
  /\ ~(view.edit /\ PendingCount(drafts[view.tab]) > 0)
  /\ view' = [view EXCEPT !.edit = ~@]
  /\ UNCHANGED <<stored, layout, data, drafts, calls, jobs, faults, stale, lost>>

HandleCellChange(r, v) ==
  /\ UsesTable /\ view.edit /\ r \in DOMAIN D.rows \ drafts[view.tab].deletes
  /\ v # Displayed(r)
  /\ drafts' = [drafts EXCEPT ![view.tab].updates[r] = v]
  /\ UNCHANGED <<stored, layout, data, calls, jobs, view, faults, stale, lost>>

(* toggleDraftDelete: a row to delete needs no update. *)
Marked(dr, rows) ==
  [dr EXCEPT !.deletes = @ \cup rows, !.updates = [r \in Rows |-> IF r \in rows THEN None ELSE @[r]]]

(* handleDeleteSelected in edit mode; otherwise it opens a dialog.         *)
HandleDeleteSelected ==
  /\ UsesToolbar /\ SelectedRows # {} /\ view.edit
  /\ drafts' = [drafts EXCEPT ![view.tab] = Marked(@, SelectedRows)]
  /\ view' = [view EXCEPT !.selected = NoSelection]
  /\ UNCHANGED <<stored, layout, data, calls, jobs, faults, stale, lost>>

HandleCancelAll ==
  /\ UsesToolbar /\ view.edit
  /\ drafts' = [drafts EXCEPT ![view.tab] = NoDrafts]
  /\ view' = [view EXCEPT !.selected = NoSelection, !.edit = FALSE]
  /\ UNCHANGED <<stored, layout, data, calls, jobs, faults, stale, lost>>

RemoveStagedInsert ==
  /\ UsesToolbar /\ drafts[view.tab].inserts > 0
  /\ drafts' = [drafts EXCEPT ![view.tab].inserts = @ - 1]
  /\ UNCHANGED <<stored, layout, data, calls, jobs, view, faults, stale, lost>>

OpenDialog(d) ==
  /\ Shows /\ Screen # "error"
  /\ d = "save" => view.edit
  /\ d = "delete" => SelectedRows # {} /\ ~view.edit
  /\ d = "ddl" => ~D.loading /\ ~view.saving
  /\ view' = [view EXCEPT !.dialog = d]
  /\ UNCHANGED <<stored, layout, data, drafts, calls, jobs, gestures, faults, stale, lost>>

CloseDialog ==
  /\ view.dialog # None
  /\ view' = [view EXCEPT !.dialog = None]
  /\ UNCHANGED <<stored, layout, data, drafts, calls, jobs, gestures, faults, stale, lost>>
-----------------------------------------------------------------------------
(* Writing. *)

(* A handler sends its request; the dialogs that ask for a confirmation    *)
(* are closed by their own button, the forms stay open.                    *)
Starts(j, dialog) ==
  /\ jobs' = jobs \cup {j}
  /\ view' = [view EXCEPT !.saving = TRUE, !.dialog = dialog]
  /\ UNCHANGED <<stored, layout, data, drafts, calls, faults, stale, lost>>

HandleSaveAll ==
  /\ Gesture /\ view.dialog = "save" /\ ~view.saving
  /\ PendingCount(drafts[view.tab]) > 0
  /\ Starts([Job("save", view.tab, view.n, "asked") EXCEPT
               !.payload = BulkMutatePayload(drafts[view.tab])], None)

ConfirmImmediateDelete ==
  /\ Gesture /\ view.dialog = "delete" /\ ~view.saving
  /\ Starts([Job("delete", view.tab, view.n, "asked") EXCEPT !.rest = SelectedRows], None)

HandleAddRowSubmit ==
  /\ Gesture /\ view.dialog = "add" /\ ~view.saving
  /\ IF view.edit
     THEN /\ drafts' = [drafts EXCEPT ![view.tab].inserts = @ + 1]
          /\ view' = [view EXCEPT !.dialog = None]
          /\ UNCHANGED <<stored, layout, data, calls, jobs, faults, stale, lost>>
     ELSE Starts([Job("insert", view.tab, view.n, "asked") EXCEPT !.payload = OneInsert], "add")

SubmitDDL ==
  /\ Gesture /\ view.dialog = "ddl" /\ ~view.saving /\ layout[view.tab] = 0
  /\ Starts(Job("ddl", view.tab, view.n, "asked"), "ddl")

(* The server takes one request.  Pages it answered before are outdated.   *)
Written(j) ==
  CASE j.op = "delete" -> BulkMutated(stored[j.tab], OneDelete(CHOOSE r \in j.rest : TRUE))
    [] j.op = "ddl" -> stored[j.tab]
    [] OTHER -> BulkMutated(stored[j.tab], j.payload)

Apply(j) ==
  /\ j.stage = "asked"
  /\ LET w == Written(j) IN
     IF w = None
     THEN /\ jobs' = (jobs \ {j}) \cup {[j EXCEPT !.stage = "refused"]}
          /\ UNCHANGED <<stored, layout, calls>>
     ELSE /\ jobs' = (jobs \ {j}) \cup {[j EXCEPT !.stage = "done", !.applied = TRUE]}
          /\ stored' = [stored EXCEPT ![j.tab] = w]
          /\ layout' = IF j.op = "ddl" THEN [layout EXCEPT ![j.tab] = 1] ELSE layout
          /\ calls' = {IF c.tab = j.tab /\ c.answer # None THEN [c EXCEPT !.sound = FALSE] ELSE c :
                         c \in calls}
  /\ UNCHANGED <<data, drafts, view, gestures, faults, stale, lost>>

(* Somebody else writes a row of the table on screen. *)
Elsewhere(r) ==
  /\ view.tab # None /\ faults < MaxFaults /\ faults' = faults + 1
  /\ LET t == view.tab IN
     /\ stored[t][r] = 0 /\ stored' = [stored EXCEPT ![t][r] = 1]
     /\ calls' = {IF c.tab = t /\ c.answer # None THEN [c EXCEPT !.sound = FALSE] ELSE c : c \in calls}
     /\ stale' = [stale EXCEPT ![t] = TRUE]
  /\ UNCHANGED <<layout, data, drafts, jobs, view, gestures, lost>>

(* A view that is gone has no state to set; one that shows another tab has. *)
(* Mutant: a handler minds only the tab that it was begun for. *)
LivesOnItsTab(j) == view.tab = j.tab
Lives(j) == view.tab # None /\ view.n = j.view

Reloads(j) == [j EXCEPT !.stage = "reload", !.waits = data[j.tab].opts]

SaveLands(j) ==
  /\ j.op = "save" /\ j.stage = "done"
  /\ drafts' = [drafts EXCEPT ![j.tab] = NoDrafts]
  /\ lost' = (lost \/ LET dr == drafts[j.tab] IN
                \/ \E r \in Updated(dr) : dr.updates[r] # j.payload.updates[r]
                \/ ~(dr.deletes \subseteq j.payload.deletes) \/ dr.inserts > j.payload.inserts)
  /\ view' = IF Lives(j) THEN [view EXCEPT !.selected = NoSelection, !.edit = FALSE,
                                          !.dialog = IF @ = "save" THEN None ELSE @]
             ELSE view
  /\ FetchData(j.tab, data[j.tab], data[j.tab].opts)
  /\ jobs' = (jobs \ {j}) \cup {Reloads(j)}
  /\ UNCHANGED <<stored, layout, gestures, faults>>

(* One row after the other; the page is read again after the last.         *)
DeleteLands(j) ==
  /\ j.op = "delete" /\ j.stage = "done"
  /\ LET rest == j.rest \ {CHOOSE r \in j.rest : TRUE} IN
     IF rest # {}
     THEN /\ jobs' = (jobs \ {j}) \cup {[j EXCEPT !.stage = "asked", !.rest = rest]}
          /\ UNCHANGED <<data, calls, view, stale>>
     ELSE /\ jobs' = (jobs \ {j}) \cup {Reloads(j)}
          /\ view' = IF Lives(j) THEN [view EXCEPT !.selected = NoSelection,
                                                  !.dialog = IF @ = "delete" THEN None ELSE @]
                     ELSE view
          /\ FetchData(j.tab, data[j.tab], data[j.tab].opts)
  /\ UNCHANGED <<stored, layout, drafts, gestures, faults, lost>>

InsertLands(j) ==
  /\ j.op = "insert" /\ j.stage = "done"
  /\ view' = IF Lives(j) /\ view.dialog = "add" THEN [view EXCEPT !.dialog = None] ELSE view
  /\ FetchData(j.tab, data[j.tab], data[j.tab].opts)
  /\ jobs' = (jobs \ {j}) \cup {Reloads(j)}
  /\ UNCHANGED <<stored, layout, drafts, gestures, faults, lost>>

(* handleDDLSuccess, once the tree is refreshed: first the columns ...     *)
DDLLands(j) ==
  /\ j.op = "ddl" /\ j.stage = "done"
  /\ FetchSchema(j.tab)
  /\ jobs' = (jobs \ {j}) \cup {[j EXCEPT !.stage = "schema"]}
  /\ UNCHANGED <<stored, layout, data, drafts, view, gestures, faults, stale, lost>>

(* ... then the rows. *)
SchemaDue(j) == j.stage = "schema" /\ ~Pending(SchemaKey(j.tab))
DDLReloads(j) ==
  /\ SchemaDue(j)
  /\ FetchData(j.tab, data[j.tab], data[j.tab].opts)
  /\ jobs' = (jobs \ {j}) \cup {Reloads(j)}
  /\ UNCHANGED <<stored, layout, drafts, view, gestures, faults, lost>>

(* A read has ended and the handler that waited for it goes on: a mounted  *)
(* tab asks for its columns, the others are done.                          *)
ReloadDue(j) == j.stage = "reload" /\ ~Pending(Key("data", j.tab, j.waits))
Reloaded(j) ==
  /\ ReloadDue(j)
  /\ jobs' = jobs \ {j}
  /\ IF j.op = "mount" /\ ~data[j.tab].dataErr THEN FetchSchema(j.tab) ELSE UNCHANGED calls
  /\ view' = IF j.op # "mount" /\ Lives(j)
             THEN [view EXCEPT !.saving = FALSE,
                               !.dialog = IF j.op = "ddl" /\ @ = "ddl" THEN None ELSE @]
             ELSE view
  /\ UNCHANGED <<stored, layout, data, drafts, gestures, faults, stale, lost>>

(* A refusal, or a request that is lost before or after the server took it.*)
JobFails(j) ==
  /\ IF j.stage = "refused" THEN UNCHANGED faults
     ELSE j.stage \in {"asked", "done"} /\ faults < MaxFaults /\ faults' = faults + 1
  /\ jobs' = jobs \ {j}
  /\ data' = IF j.op = "ddl" THEN data ELSE [data EXCEPT ![j.tab].mutErr = TRUE]
  /\ view' = IF Lives(j) THEN [view EXCEPT !.saving = FALSE] ELSE view
  /\ stale' = [stale EXCEPT ![j.tab] = @ \/ j.applied]
  /\ UNCHANGED <<stored, layout, drafts, calls, gestures, lost>>
-----------------------------------------------------------------------------
(* Answers. *)

Answer(c) ==
  /\ c.answer = None
  /\ calls' = (calls \ {c}) \cup
       {[c EXCEPT !.answer = IF c.op = "data" THEN Page(c.opts, c.tab) ELSE [columns |-> layout[c.tab]]]}
  /\ UNCHANGED <<stored, layout, data, drafts, jobs, view, gestures, faults, stale, lost>>

Land(c) ==
  /\ c.answer # None
  /\ calls' = calls \ {c}
  /\ data' = IF c.op = "schema" THEN [data EXCEPT ![c.tab].columns = c.answer.columns]
             ELSE IF IsNewestRequest(c) THEN [data EXCEPT ![c.tab] = Shown(@, c.answer)]
             ELSE data
  /\ stale' = [stale EXCEPT ![c.tab] = @ \/ (c.op = "schema" /\ ~c.sound)]
  /\ UNCHANGED <<stored, layout, drafts, jobs, view, gestures, faults, lost>>

Fail(c) ==
  /\ faults < MaxFaults /\ faults' = faults + 1
  /\ calls' = calls \ {c}
  /\ data' = IF c.op = "data" /\ IsNewestRequest(c) THEN [data EXCEPT ![c.tab] = Failed(@)] ELSE data
  /\ UNCHANGED <<stored, layout, drafts, jobs, view, gestures, stale, lost>>
-----------------------------------------------------------------------------
(* One table is open and read, the others were not shown yet.              *)
Init ==
  /\ stored = [t \in Tabs |-> [r \in Rows |-> IF r \in FirstRows THEN 0 ELSE None]]
  /\ layout = [t \in Tabs |-> 0]
  /\ LET first == CHOOSE t \in Tabs : TRUE
         new == [asked |-> FALSE, opts |-> DefaultOpts, rows |-> [r \in {} |-> 0], more |-> FALSE,
                 total |-> 0, columns |-> None, loading |-> FALSE, dataErr |-> FALSE, mutErr |-> FALSE] IN
     /\ data = [t \in Tabs |->
          IF t = first THEN Shown([new EXCEPT !.asked = TRUE], Page(DefaultOpts, t)) ELSE new]
     /\ view = [Idle EXCEPT !.tab = first, !.n = 1]
  /\ drafts = [t \in Tabs |-> NoDrafts]
  /\ calls = {} /\ jobs = {}
  /\ gestures = 0 /\ faults = 0
  /\ stale = [t \in Tabs |-> FALSE] /\ lost = FALSE

ReadArrives == \E c \in calls : Answer(c) \/ Land(c) \/ Fail(c)
WriteArrives ==
  \E j \in jobs : Apply(j) \/ SaveLands(j) \/ DeleteLands(j) \/ InsertLands(j) \/ DDLLands(j) \/ JobFails(j)

Continues == \E j \in jobs : DDLReloads(j) \/ Reloaded(j)
ContinueDue == \E j \in jobs : SchemaDue(j) \/ ReloadDue(j)

Events ==
  \/ (\E t \in Tabs : Show(t)) \/ Leave \/ Refresh
  \/ (\E s \in Orders : HandleSortChange(s))
  \/ HandleNext \/ HandlePrev \/ (\E n \in Limits : HandlePageSizeChange(n))
  \/ (\E f \in Filters \cup {Rows} : HandleFilterChange(f)) \/ HandleClearFilters \/ TimerFires
  \/ (\E r \in Rows : HandleToggleRow(r) \/ \E v \in Values : HandleCellChange(r, v))
  \/ HandleToggleEditMode \/ HandleDeleteSelected \/ HandleCancelAll \/ RemoveStagedInsert
  \/ (\E d \in Dialogs : OpenDialog(d)) \/ CloseDialog
  \/ HandleSaveAll \/ ConfirmImmediateDelete \/ HandleAddRowSubmit \/ SubmitDDL
  \/ ReadArrives \/ WriteArrives
  \/ \E r \in Shared : Elsewhere(r)

(* Whoever awaits a request goes on before anything else happens.          *)
Next == Continues \/ (~ContinueDue /\ Events)

Spec == Init /\ [][Next]_vars
-----------------------------------------------------------------------------
(* Properties. *)

(* Every variable stays in its range. *)
TypeOK ==
  /\ stored \in [Tabs -> [Rows -> Values \cup {None}]] /\ layout \in [Tabs -> {0, 1}]
  /\ \A t \in Tabs : DOMAIN data[t].rows \subseteq Rows
  /\ \A t \in Tabs : drafts[t].deletes \subseteq Rows /\ drafts[t].inserts \in Nat
  /\ view.tab \in Tabs \cup {None} /\ view.n \in {0} \cup Views
  /\ \A j \in jobs : j.tab \in Tabs
  /\ stale \in [Tabs -> BOOLEAN] /\ lost \in BOOLEAN

Settled(t) == (\A c \in calls : c.tab # t) /\ (\A j \in jobs : j.tab # t)

(* Whatever was asked for, superseded, saved and deleted, and in whatever  *)
(* order the answers came, a table that is at rest shows the rows of the   *)
(* page, filter and order it names, as the server has them, its own writes *)
(* included.  Left out: a read that joined one which was superseded or     *)
(* answered too early, and a write that was answered by an error (stale).  *)
TableShowsTheServer ==
  LET t == view.tab IN
  (t # None /\ Settled(t) /\ ~view.timer /\ ~stale[t] /\ ~data[t].dataErr) =>
    LET now == Page(data[t].opts, t) IN
    /\ data[t].rows = now.rows /\ data[t].more = now.more /\ data[t].total = now.total
    /\ data[t].columns = now.columns

(* The controls are covered exactly while a write that was begun in this    *)
(* view is under way, and one at a time, whichever tab the view shows by    *)
(* then and however the write ends: no write begins beside another, and     *)
(* the cover of one that is over does not stay.                             *)
CoveredWhileWriting ==
  LET writes == {j \in jobs : j.op # "mount" /\ view.tab # None /\ j.view = view.n} IN
  (view.saving <=> writes # {}) /\ Cardinality(writes) <= 1

(* "Changes will be written to the database in a single bulk transaction": *)
(* a save that succeeds drops no change that it did not write.             *)
NothingPendingIsLost == ~lost
=============================================================================

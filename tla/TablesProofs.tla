----------------------------- MODULE TablesProofs -----------------------------
(***************************************************************************)
(* Proofs about the tables on screen, for any tables, pages and filters    *)
(* and any number of gestures, handlers and faults.                        *)
(***************************************************************************)
EXTENDS Tables, TLAPS

(* The records have their fields, the functions their domains.             *)
IsRecord(r, fields) == r = [f \in fields |-> r[f]]
IsOpts(o) == IsRecord(o, {"filter", "sort", "limit", "offset"})
IsTab(d) ==
  /\ IsRecord(d, {"asked", "opts", "rows", "more", "total", "columns", "loading", "dataErr", "mutErr"})
  /\ IsOpts(d.opts) /\ d.asked \in BOOLEAN /\ d.dataErr \in BOOLEAN
IsCall(c) ==
  /\ IsRecord(c, {"op", "tab", "opts", "newest", "sound", "answer"})
  /\ c.op \in {"data", "schema"} /\ c.tab \in Tabs /\ c.newest \in BOOLEAN /\ c.sound \in BOOLEAN
IsJob(j) ==
  /\ IsRecord(j, {"op", "tab", "view", "stage", "payload", "rest", "applied", "waits"})
  /\ j.tab \in Tabs /\ j.applied \in BOOLEAN
  /\ j.stage \in {"done", "schema"} => j.applied
IsView(v) ==
  /\ IsRecord(v, {"tab", "n", "selected", "edit", "dialog", "saving", "timer"})
  /\ v.tab \in Tabs \cup {None} /\ v.timer \in BOOLEAN
  /\ v.timer \/ v.dialog # None => v.tab # None

ServerShape == stored = [t \in Tabs |-> stored[t]] /\ layout = [t \in Tabs |-> layout[t]]
DataShape == data = [t \in Tabs |-> data[t]] /\ \A t \in Tabs : IsTab(data[t])
CallsShape == \A c \in calls : IsCall(c)
JobsShape == \A j \in jobs : IsJob(j)
ViewShape == IsView(view)
StaleShape == stale \in [Tabs -> BOOLEAN]
Shapes == ServerShape /\ DataShape /\ CallsShape /\ JobsShape /\ ViewShape /\ StaleShape

(* A read whose answer no write has outdated carries what the server has;  *)
(* one read of the rows of a table is the newest.                          *)
Sound ==
  \A c \in calls : c.sound /\ c.answer # None =>
    IF c.op = "data" THEN c.answer = Page(c.opts, c.tab) ELSE c.answer.columns = layout[c.tab]
Newest(t) == {c \in calls : c.op = "data" /\ c.tab = t /\ c.newest}
OneNewest == \A t \in Tabs : \A c, d \in Newest(t) : c = d

(* A write that the server took and that no reload has followed yet.       *)
Unread(t) == \E j \in jobs : j.tab = t /\ j.applied /\ j.stage # "reload"

(* The newest read asks for what the tab names, but for a filter that is   *)
(* being typed, and knows of every write but those to be followed by a     *)
(* reload; without one the tab has the page, or an error.                  *)
Asked(t) ==
  \A c \in Newest(t) :
    /\ c.opts = data[t].opts \/ (view.timer /\ data[t].opts.offset = 0)
    /\ c.sound \/ Unread(t)
Matches(t) ==
  LET now == Page(data[t].opts, t) IN
  /\ data[t].rows = now.rows /\ data[t].more = now.more /\ data[t].total = now.total
  /\ data[t].columns = now.columns
Fresh(t) == ~Unread(t) /\ Newest(t) = {} /\ ~view.timer /\ ~data[t].dataErr => Matches(t)
Coherent == \A t \in Tabs : t = view.tab /\ ~stale[t] => Asked(t) /\ Fresh(t)

IInv == Shapes /\ Sound /\ OneNewest /\ Coherent

-----------------------------------------------------------------------------
(* What a step leaves alone keeps the parts of the invariant about it.     *)
LEMMA TablesFrame ==
  ASSUME IInv
  PROVE  /\ UNCHANGED <<stored, layout>> => ServerShape'
         /\ UNCHANGED data => DataShape'
         /\ UNCHANGED calls => CallsShape' /\ OneNewest'
         /\ UNCHANGED jobs => JobsShape'
         /\ UNCHANGED view => ViewShape'
         /\ UNCHANGED stale => StaleShape'
         /\ UNCHANGED <<stored, layout, calls>> => Sound'
         /\ UNCHANGED jobs => \A t \in Tabs : Unread(t)' <=> Unread(t)
         /\ UNCHANGED calls => \A t \in Tabs : Newest(t)' = Newest(t)
BY DEF IInv, Shapes, ServerShape, DataShape, CallsShape, JobsShape, ViewShape, StaleShape, Sound,
       OneNewest, Newest, Unread, Page, IsCall, IsJob, IsView

(* A page of a table depends on that table only.                           *)
LEMMA PageStays ==
  ASSUME NEW t, stored'[t] = stored[t], layout'[t] = layout[t]
  PROVE  \A o : Page(o, t)' = Page(o, t)
BY DEF Page

LEMMA MatchesStays ==
  ASSUME NEW t, stored'[t] = stored[t], layout'[t] = layout[t], data'[t] = data[t]
  PROVE  Matches(t)' <=> Matches(t)
BY DEF Matches, Page

(* A step that reads nothing and leaves what is on screen, the timer and   *)
(* the writes that await a reload as they are.                             *)
LEMMA QuietStep ==
  ASSUME IInv, UNCHANGED <<stored, layout, data, calls, stale>>,
         view'.tab = None \/ (/\ view'.tab = view.tab /\ view'.timer = view.timer
                              /\ \A u \in Tabs : u = view.tab => (Unread(u)' <=> Unread(u)))
  PROVE  Sound' /\ OneNewest' /\ Coherent' /\ ServerShape' /\ DataShape' /\ CallsShape' /\ StaleShape'
<1>1. Sound' /\ OneNewest' /\ ServerShape' /\ DataShape' /\ CallsShape' /\ StaleShape'
  BY TablesFrame
<1>2. SUFFICES ASSUME NEW t \in Tabs, t = view'.tab, ~stale'[t] PROVE Asked(t)' /\ Fresh(t)'
  BY <1>1 DEF Coherent
<1>3. /\ view.tab = t /\ Asked(t) /\ Fresh(t) /\ Newest(t)' = Newest(t) /\ (Unread(t)' <=> Unread(t))
      /\ view'.timer = view.timer
  BY <1>2, TablesAssumption, TablesFrame DEF IInv, Coherent
<1>4. Matches(t)' <=> Matches(t)
  BY MatchesStays
<1>5. Asked(t)'
  BY <1>3 DEF Asked
<1>6. Fresh(t)'
  BY <1>3, <1>4 DEF Fresh
<1> QED BY <1>5, <1>6
-----------------------------------------------------------------------------
(* What fetchData does.                                                    *)
LEMMA FetchKeeps ==
  ASSUME IInv, NEW t \in Tabs, NEW d, IsTab(d), NEW o, IsOpts(o), FetchData(t, d, o),
         UNCHANGED <<stored, layout>>
  PROVE  /\ ServerShape' /\ DataShape' /\ CallsShape' /\ StaleShape' /\ Sound' /\ OneNewest'
         /\ \A u \in Tabs \ {t} : data'[u] = data[u] /\ stale'[u] = stale[u] /\ Newest(u)' = Newest(u)
         /\ ~stale'[t] => \E c \in Newest(t)' : c.opts = o /\ c.sound
         /\ \/ data'[t].opts = o
            \/ data'[t] = d /\ Newest(t)' = Newest(t) /\ (stale[t] => stale'[t])
<1> DEFINE k == Key("data", t, o)
           Older(c) == IF c.op = "data" /\ c.tab = t THEN [c EXCEPT !.newest = FALSE] ELSE c
<1>1. /\ DataShape /\ CallsShape /\ StaleShape /\ Sound /\ OneNewest
      /\ ServerShape' /\ t \in DOMAIN data /\ t \in DOMAIN stale
  BY TablesFrame DEF IInv, Shapes, DataShape, StaleShape
<1>2. CASE Pending(k)
  <2>1. /\ data' = [data EXCEPT ![t] = d] /\ UNCHANGED calls
        /\ stale' = [stale EXCEPT ![t] = @ \/ \E c \in calls : KeyOf(c) = k /\ ~(c.newest /\ c.sound)]
    BY <1>2 DEF FetchData
  <2>2. DataShape' /\ data'[t] = d /\ \A u \in Tabs \ {t} : data'[u] = data[u]
    BY <1>1, <2>1 DEF DataShape
  <2>3. /\ StaleShape' /\ \A u \in Tabs \ {t} : stale'[u] = stale[u]
        /\ stale'[t] = (stale[t] \/ \E c \in calls : KeyOf(c) = k /\ ~(c.newest /\ c.sound))
    BY <1>1, <2>1 DEF StaleShape
  <2>4. CallsShape' /\ Sound' /\ OneNewest' /\ \A u \in Tabs : Newest(u)' = Newest(u)
    BY <2>1, TablesFrame
  <2>5. ASSUME ~stale'[t] PROVE \E c \in Newest(t)' : c.opts = o /\ c.sound
    <3>1. PICK c \in calls : KeyOf(c) = k
      BY <1>2 DEF Pending
    <3>2. c.newest /\ c.sound
      BY <2>3, <2>5, <3>1
    <3>3. c.op = "data" /\ c.tab = t /\ c.opts = o
      BY <3>1 DEF KeyOf, Key
    <3> QED BY <2>1, <3>1, <3>2, <3>3 DEF Newest
  <2> QED BY <1>1, <2>2, <2>3, <2>4, <2>5
<1>3. CASE ~Pending(k)
  <2>1. /\ data' = [data EXCEPT ![t] = Fetching(d, o)]
        /\ calls' = {Older(c) : c \in calls} \cup {NewCall(k)}
        /\ stale' = [stale EXCEPT ![t] = FALSE]
    BY <1>3 DEF FetchData
  <2>2. IsTab(Fetching(d, o)) /\ Fetching(d, o).opts = o
    BY DEF IsTab, IsRecord, Fetching
  <2>3. DataShape' /\ data'[t].opts = o /\ \A u \in Tabs \ {t} : data'[u] = data[u]
    BY <1>1, <2>1, <2>2 DEF DataShape
  <2>4. StaleShape' /\ \A u \in Tabs \ {t} : stale'[u] = stale[u]
    BY <1>1, <2>1 DEF StaleShape
  <2>5. /\ IsCall(NewCall(k)) /\ NewCall(k).op = "data" /\ NewCall(k).tab = t /\ NewCall(k).opts = o
        /\ NewCall(k).newest /\ NewCall(k).sound /\ NewCall(k).answer = None
    BY DEF NewCall, Key, IsCall, IsRecord
  <2>6. \A c \in calls : /\ IsCall(Older(c)) /\ Older(c).op = c.op /\ Older(c).tab = c.tab /\ Older(c).opts = c.opts
                         /\ Older(c).sound = c.sound /\ Older(c).answer = c.answer
                         /\ Older(c).newest = (c.newest /\ ~(c.op = "data" /\ c.tab = t))
                         /\ (~(c.op = "data" /\ c.tab = t) => Older(c) = c)
    <3> SUFFICES ASSUME NEW c \in calls, c.op = "data" /\ c.tab = t
        PROVE  LET e == [c EXCEPT !.newest = FALSE] IN
               /\ IsCall(e) /\ e.op = c.op /\ e.tab = c.tab /\ e.opts = c.opts
               /\ e.sound = c.sound /\ e.answer = c.answer /\ ~e.newest
      BY <1>1 DEF CallsShape, IsCall
    <3>1. IsCall(c)
      BY <1>1 DEF CallsShape
    <3> QED BY <3>1 DEF IsCall, IsRecord
  <2> HIDE DEF k, Older
  <2>7. CallsShape'
    BY <2>1, <2>5, <2>6 DEF CallsShape
  <2>8. \A u \in Tabs \ {t} : Newest(u)' = Newest(u)
    BY <2>1, <2>5, <2>6 DEF Newest
  <2>9. Newest(t)' = {NewCall(k)}
    <3>1. NewCall(k) \in Newest(t)'
      BY <2>1, <2>5 DEF Newest
    <3>2. ASSUME NEW e \in Newest(t)' PROVE e = NewCall(k)
      <4>1. e \in calls' /\ e.op = "data" /\ e.tab = t /\ e.newest
        BY DEF Newest
      <4>2. SUFFICES ASSUME NEW c \in calls, e = Older(c) PROVE FALSE
        BY <2>1, <4>1
      <4> QED BY <2>6, <4>1, <4>2
    <3> QED BY <3>1, <3>2
  <2>10. OneNewest'
    BY <1>1, <2>8, <2>9 DEF OneNewest
  <2>11. Sound'
    BY <1>1, <2>1, <2>5, <2>6, PageStays DEF Sound
  <2> QED BY <1>1, <2>3, <2>4, <2>5, <2>7, <2>8, <2>9, <2>10, <2>11
<1> QED BY <1>2, <1>3

(* After it the tab has asked for what it names, or does not count.        *)
LEMMA FetchSettles ==
  ASSUME IInv, NEW t \in Tabs, NEW d, IsTab(d), NEW o, IsOpts(o), FetchData(t, d, o),
         UNCHANGED <<stored, layout>>, ~stale'[t] => data'[t].opts = o,
         \/ view'.tab \in {t, None}
         \/ /\ view'.tab = view.tab /\ view'.timer = view.timer
            /\ \A u \in Tabs : u = view.tab => (Unread(u)' <=> Unread(u))
  PROVE  Coherent'
<1>1. SUFFICES ASSUME NEW u \in Tabs, u = view'.tab, ~stale'[u] PROVE Asked(u)' /\ Fresh(u)'
  BY DEF Coherent
<1>2. CASE u = t
  <2>1. PICK c \in Newest(t)' : c.opts = o /\ c.sound
    BY <1>1, <1>2, FetchKeeps
  <2>2. Newest(t)' = {c}
    BY <2>1, FetchKeeps DEF OneNewest
  <2> QED BY <1>1, <1>2, <2>1, <2>2 DEF Asked, Fresh
<1>3. CASE u # t
  <2>1. u = view.tab /\ view'.timer = view.timer /\ (Unread(u)' <=> Unread(u))
    BY <1>1, <1>3, TablesAssumption
  <2>2. data'[u] = data[u] /\ stale'[u] = stale[u] /\ Newest(u)' = Newest(u)
    BY <1>3, FetchKeeps
  <2>3. Asked(u) /\ Fresh(u) /\ (Matches(u)' <=> Matches(u))
    BY <1>1, <2>1, <2>2, MatchesStays DEF IInv, Coherent
  <2>4. Asked(u)'
    BY <2>1, <2>2, <2>3 DEF Asked
  <2>5. Fresh(u)'
    BY <2>1, <2>2, <2>3 DEF Fresh
  <2> QED BY <2>4, <2>5
<1> QED BY <1>2, <1>3

(* A tab asks for what it names.                                           *)
LEMMA FetchStep ==
  ASSUME IInv, NEW t \in Tabs, NEW d, IsTab(d), FetchData(t, d, d.opts), UNCHANGED <<stored, layout>>,
         \/ view'.tab \in {t, None}
         \/ /\ view'.tab = view.tab /\ view'.timer = view.timer
            /\ \A u \in Tabs : u = view.tab => (Unread(u)' <=> Unread(u))
  PROVE  ServerShape' /\ DataShape' /\ CallsShape' /\ StaleShape' /\ Sound' /\ OneNewest' /\ Coherent'
<1>1. IsOpts(d.opts)
  BY DEF IsTab
<1>2. /\ ServerShape' /\ DataShape' /\ CallsShape' /\ StaleShape' /\ Sound' /\ OneNewest'
      /\ data'[t].opts = d.opts
  BY <1>1, FetchKeeps
<1> QED BY <1>1, <1>2, FetchSettles

-----------------------------------------------------------------------------
(* Steps that ask for rows.                                                *)
LEMMA SetOptsKeeps ==
  ASSUME NEW d, IsTab(d), NEW part
  PROVE  /\ IsOpts(SetOpts(d, part)) /\ IsTab([d EXCEPT !.opts = SetOpts(d, part)])
         /\ [d EXCEPT !.opts = SetOpts(d, part)].opts = SetOpts(d, part)
         /\ "filter" \in DOMAIN part => SetOpts(d, part).offset = 0
<1>1. IsOpts(SetOpts(d, part)) /\ ("filter" \in DOMAIN part => SetOpts(d, part).offset = 0)
  BY DEF IsTab, IsOpts, IsRecord, SetOpts
<1> HIDE DEF SetOpts
<1> QED BY <1>1 DEF IsTab, IsRecord

LEMMA ShowStep ==
  ASSUME IInv, NEW t \in Tabs, Show(t)
  PROVE  IInv'
<1>1. IsTab(data[t]) /\ JobsShape /\ data[t].asked \in BOOLEAN
  BY DEF IInv, Shapes, DataShape, IsTab
<1>2. view'.tab = t /\ ViewShape'
  <2> DEFINE V(n) == [Idle EXCEPT !.tab = t, !.n = n, !.saving = view.saving, !.timer = ~data[t].asked]
  <2>1. PICK n : view' = V(n)
    BY DEF Show
  <2>2. V(n).tab = t /\ IsView(V(n))
    BY <1>1, TablesAssumption DEF Idle, IsView, IsRecord
  <2> HIDE DEF V
  <2> QED BY <2>1, <2>2 DEF ViewShape
<1>3. JobsShape'
  BY <1>1 DEF Show, JobsShape, Job, IsJob, IsRecord
<1>4. ServerShape' /\ DataShape' /\ CallsShape' /\ StaleShape' /\ Sound' /\ OneNewest' /\ Coherent'
  BY <1>1, <1>2, FetchStep DEF Show
<1> QED BY <1>2, <1>3, <1>4 DEF IInv, Shapes

LEMMA RefreshStep ==
  ASSUME IInv, Refresh
  PROVE  IInv'
<1>1. view.tab \in Tabs
  BY DEF Refresh, Free, Shows, IInv, Shapes, ViewShape, IsView
<1>2. IsTab(D) /\ JobsShape' /\ ViewShape'
  BY <1>1, TablesFrame DEF IInv, Shapes, DataShape, D, Refresh
<1>3. ServerShape' /\ DataShape' /\ CallsShape' /\ StaleShape' /\ Sound' /\ OneNewest' /\ Coherent'
  BY <1>1, <1>2, FetchStep DEF Refresh, D
<1> QED BY <1>2, <1>3 DEF IInv, Shapes

LEMMA AskForStep ==
  ASSUME IInv, NEW part, AskFor(part), view.tab # None,
         view' = view \/ view' = [view EXCEPT !.timer = TRUE]
  PROVE  IInv'
<1>1. view.tab \in Tabs
  BY DEF IInv, Shapes, ViewShape, IsView
<1>2. IsTab(D) /\ JobsShape'
  BY <1>1, TablesFrame DEF IInv, Shapes, DataShape, D, AskFor
<1>3. view'.tab = view.tab /\ ViewShape'
  BY <1>1, TablesAssumption DEF IInv, Shapes, ViewShape, IsView, IsRecord
<1>4. ServerShape' /\ DataShape' /\ CallsShape' /\ StaleShape' /\ Sound' /\ OneNewest' /\ Coherent'
  <2> DEFINE d == [D EXCEPT !.opts = SetOpts(D, part)]
  <2>1. IsTab(d) /\ d.opts = SetOpts(D, part)
    BY <1>2, SetOptsKeeps
  <2>2. FetchData(view.tab, d, d.opts) /\ UNCHANGED <<stored, layout>>
    BY <2>1 DEF AskFor
  <2> HIDE DEF d
  <2> QED BY <1>1, <1>3, <2>1, <2>2, FetchStep
<1> QED BY <1>2, <1>3, <1>4 DEF IInv, Shapes

LEMMA HandleFilterChangeStep ==
  ASSUME IInv, NEW f, HandleFilterChange(f)
  PROVE  IInv'
<1> DEFINE t == view.tab
           o == SetOpts(D, [filter |-> f])
<1>1. t \in Tabs /\ IsTab(data[t]) /\ D = data[t]
  BY DEF HandleFilterChange, Free, Shows, IInv, Shapes, ViewShape, IsView, DataShape, D
<1>2. /\ data' = [data EXCEPT ![t].opts = o] /\ view' = [view EXCEPT !.timer = TRUE]
      /\ UNCHANGED <<stored, layout, drafts, calls, jobs, faults, stale, lost>>
  BY DEF HandleFilterChange
<1>3. o.offset = 0 /\ IsTab([data[t] EXCEPT !.opts = o])
  BY <1>1, SetOptsKeeps
<1> HIDE DEF o
<1>4. data'[t].opts = o /\ DataShape'
  BY <1>1, <1>2, <1>3 DEF IInv, Shapes, DataShape, IsTab, IsRecord
<1>5. view'.tab = t /\ view'.timer /\ ViewShape'
  BY <1>1, <1>2, TablesAssumption DEF IInv, Shapes, ViewShape, IsView, IsRecord
<1>6. /\ ServerShape' /\ CallsShape' /\ JobsShape' /\ StaleShape' /\ Sound' /\ OneNewest'
      /\ Newest(t)' = Newest(t) /\ (Unread(t)' <=> Unread(t))
  BY <1>1, <1>2, TablesFrame
<1>7. ASSUME ~stale'[t] PROVE Asked(t)' /\ Fresh(t)'
  <2>1. Asked(t)
    BY <1>1, <1>2, <1>7 DEF IInv, Coherent
  <2>2. Asked(t)'
    BY <2>1, <1>3, <1>4, <1>5, <1>6 DEF Asked
  <2>3. Fresh(t)'
    BY <1>5 DEF Fresh
  <2> QED BY <2>2, <2>3
<1> QED BY <1>4, <1>5, <1>6, <1>7 DEF IInv, Shapes, Coherent

LEMMA TimerFiresStep ==
  ASSUME IInv, TimerFires
  PROVE  IInv'
<1> DEFINE t == view.tab
           o == [data[t].opts EXCEPT !.offset = 0]
<1>1. t \in Tabs /\ IsTab(data[t])
  BY DEF TimerFires, IInv, Shapes, ViewShape, IsView, DataShape
<1>2. /\ view' = [view EXCEPT !.timer = FALSE] /\ FetchData(t, data[t], o)
      /\ UNCHANGED <<stored, layout, drafts, jobs, gestures, faults, lost>>
  BY DEF TimerFires, D
<1>3. IsOpts(o) /\ (data[t].opts.offset = 0 => o = data[t].opts)
  BY <1>1 DEF IsTab, IsOpts, IsRecord
<1> HIDE DEF o
<1>4. view'.tab = t /\ ViewShape'
  BY <1>1, <1>2, TablesAssumption DEF IInv, Shapes, ViewShape, IsView, IsRecord
<1>5. JobsShape'
  BY <1>2, TablesFrame
<1>6. ServerShape' /\ DataShape' /\ CallsShape' /\ StaleShape' /\ Sound' /\ OneNewest'
  BY <1>1, <1>2, <1>3, FetchKeeps
<1>7. ASSUME ~stale'[t] PROVE data'[t].opts = o
  <2>1. SUFFICES ASSUME data'[t] = data[t], Newest(t)' = Newest(t), ~stale[t] PROVE data[t].opts = o
    BY <1>1, <1>2, <1>3, <1>7, FetchKeeps
  <2>2. PICK c \in Newest(t) : c.opts = o
    BY <1>1, <1>2, <1>3, <1>7, <2>1, FetchKeeps
  <2>3. Asked(t)
    BY <1>1, <2>1 DEF IInv, Coherent
  <2> QED BY <1>3, <2>2, <2>3 DEF Asked
<1>8. Coherent'
  BY <1>1, <1>2, <1>3, <1>4, <1>7, FetchSettles
<1> QED BY <1>4, <1>5, <1>6, <1>8 DEF IInv, Shapes

-----------------------------------------------------------------------------
(* Steps that read nothing.                                                *)
LEMMA ViewStep ==
  ASSUME IInv, UNCHANGED <<stored, layout, data, calls, jobs, stale>>, IsView(view'),
         view'.tab = None \/ (view'.tab = view.tab /\ view'.timer = view.timer)
  PROVE  IInv'
<1>1. JobsShape' /\ \A t \in Tabs : Unread(t)' <=> Unread(t)
  BY TablesFrame
<1>2. ServerShape' /\ DataShape' /\ CallsShape' /\ StaleShape' /\ Sound' /\ OneNewest' /\ Coherent'
  BY <1>1, QuietStep
<1> QED BY <1>1, <1>2 DEF IInv, Shapes, ViewShape

LEMMA SelectingStep ==
  ASSUME IInv,
         \/ Leave \/ (\E r \in Rows : HandleToggleRow(r) \/ \E v \in Values : HandleCellChange(r, v))
         \/ HandleToggleEditMode \/ HandleDeleteSelected \/ HandleCancelAll \/ RemoveStagedInsert
         \/ (\E d \in Dialogs : OpenDialog(d)) \/ CloseDialog
  PROVE  IInv'
<1>1. IsView(view)
  BY DEF IInv, Shapes, ViewShape
<1>2. UNCHANGED <<stored, layout, data, calls, jobs, stale>>
  BY DEF Leave, HandleToggleRow, HandleCellChange, HandleToggleEditMode, HandleDeleteSelected,
         HandleCancelAll, RemoveStagedInsert, OpenDialog, CloseDialog
<1>3. CASE Leave
  BY <1>2, <1>3, TablesAssumption, ViewStep DEF Leave, Idle, IsView, IsRecord
<1>4. CASE \E r \in Rows : HandleToggleRow(r)
  <2>1. PICK s : view' = [view EXCEPT !.selected = s] /\ view.tab # None
    BY <1>4 DEF HandleToggleRow, UsesTable, Free, Shows
  <2> QED BY <1>1, <1>2, <2>1, ViewStep DEF IsView, IsRecord
<1>5. CASE (\E r \in Rows : \E v \in Values : HandleCellChange(r, v)) \/ RemoveStagedInsert
  BY <1>1, <1>2, <1>5, ViewStep DEF HandleCellChange, RemoveStagedInsert
<1>6. CASE HandleToggleEditMode \/ HandleDeleteSelected \/ HandleCancelAll
  <2>1. view.tab # None
    BY <1>6 DEF HandleToggleEditMode, HandleDeleteSelected, HandleCancelAll, UsesToolbar, Free, Shows
  <2>2. \E s, e : \/ view' = [view EXCEPT !.edit = e]
                 \/ view' = [view EXCEPT !.selected = s]
                 \/ view' = [view EXCEPT !.selected = s, !.edit = e]
    BY <1>6 DEF HandleToggleEditMode, HandleDeleteSelected, HandleCancelAll
  <2> QED BY <1>1, <1>2, <2>1, <2>2, ViewStep DEF IsView, IsRecord
<1>7. CASE \E d \in Dialogs : OpenDialog(d)
  BY <1>1, <1>2, <1>7, ViewStep DEF OpenDialog, Shows, IsView, IsRecord
<1>8. CASE CloseDialog
  BY <1>1, <1>2, <1>8, ViewStep DEF CloseDialog, IsView, IsRecord
<1> QED BY <1>3, <1>4, <1>5, <1>6, <1>7, <1>8

(* A handler that has sent its request.                                    *)
LEMMA StartsStep ==
  ASSUME IInv, view.dialog # None, NEW j, IsJob(j), ~j.applied, NEW d, Starts(j, d)
  PROVE  IInv'
<1>1. IsView(view') /\ view'.tab = view.tab /\ view'.timer = view.timer
  BY DEF IInv, Shapes, ViewShape, IsView, IsRecord, Starts
<1>2. JobsShape' /\ \A t \in Tabs : Unread(t)' <=> Unread(t)
  BY DEF Starts, IInv, Shapes, JobsShape, Unread
<1>3. ServerShape' /\ DataShape' /\ CallsShape' /\ StaleShape' /\ Sound' /\ OneNewest' /\ Coherent'
  BY <1>1, <1>2, QuietStep DEF Starts
<1> QED BY <1>1, <1>2, <1>3 DEF IInv, Shapes, ViewShape

LEMMA SubmittingStep ==
  ASSUME IInv, HandleSaveAll \/ ConfirmImmediateDelete \/ HandleAddRowSubmit \/ SubmitDDL
  PROVE  IInv'
<1>1. view.dialog # None /\ view.tab \in Tabs
  BY TablesAssumption DEF HandleSaveAll, ConfirmImmediateDelete, HandleAddRowSubmit, SubmitDDL, IInv, Shapes,
     ViewShape, IsView, Dialogs
<1>2. CASE HandleSaveAll
  <2>1. ASSUME NEW p PROVE LET j == [Job("save", view.tab, view.n, "asked") EXCEPT !.payload = p] IN
                           IsJob(j) /\ ~j.applied
    BY <1>1 DEF Job, IsJob, IsRecord
  <2> QED BY <1>1, <1>2, <2>1, StartsStep DEF HandleSaveAll
<1>3. CASE ConfirmImmediateDelete
  <2>1. ASSUME NEW p PROVE LET j == [Job("delete", view.tab, view.n, "asked") EXCEPT !.rest = p] IN
                           IsJob(j) /\ ~j.applied
    BY <1>1 DEF Job, IsJob, IsRecord
  <2> QED BY <1>1, <1>3, <2>1, StartsStep DEF ConfirmImmediateDelete
<1>4. CASE HandleAddRowSubmit /\ view.edit
  BY <1>1, <1>4, ViewStep DEF HandleAddRowSubmit, IInv, Shapes, ViewShape, IsView, IsRecord
<1>5. CASE HandleAddRowSubmit /\ ~view.edit
  <2>1. ASSUME NEW p PROVE LET j == [Job("insert", view.tab, view.n, "asked") EXCEPT !.payload = p] IN
                           IsJob(j) /\ ~j.applied
    BY <1>1 DEF Job, IsJob, IsRecord
  <2> QED BY <1>1, <1>5, <2>1, StartsStep DEF HandleAddRowSubmit
<1>6. CASE SubmitDDL
  <2>1. LET j == Job("ddl", view.tab, view.n, "asked") IN IsJob(j) /\ ~j.applied
    BY <1>1 DEF Job, IsJob, IsRecord
  <2> QED BY <1>1, <1>6, <2>1, StartsStep DEF SubmitDDL
<1> QED BY <1>2, <1>3, <1>4, <1>5, <1>6

-----------------------------------------------------------------------------
(* Steps of the handlers that write.                                       *)

(* A write outdates the answers that are on their way.                     *)
LEMMA WriteOutdates ==
  ASSUME IInv, NEW t \in Tabs,
         calls' = {IF c.tab = t /\ c.answer # None THEN [c EXCEPT !.sound = FALSE] ELSE c : c \in calls},
         \A u \in Tabs \ {t} : stored'[u] = stored[u] /\ layout'[u] = layout[u]
  PROVE  /\ CallsShape' /\ Sound' /\ OneNewest'
         /\ \A u \in Tabs \ {t} : Newest(u)' = Newest(u)
         /\ \A e \in Newest(t)' : \E c \in Newest(t) : e.opts = c.opts
<1> DEFINE Outdated(c) == IF c.tab = t /\ c.answer # None THEN [c EXCEPT !.sound = FALSE] ELSE c
<1>1. calls' = {Outdated(c) : c \in calls}
  OBVIOUS
<1>2. CallsShape /\ Sound /\ OneNewest
  BY DEF IInv, Shapes
<1>3. \A c \in calls :
         /\ IsCall(Outdated(c)) /\ Outdated(c).op = c.op /\ Outdated(c).tab = c.tab
         /\ Outdated(c).opts = c.opts /\ Outdated(c).answer = c.answer /\ Outdated(c).newest = c.newest
         /\ (c.tab # t => Outdated(c) = c)
         /\ (c.tab = t => ~Outdated(c).sound \/ c.answer = None)
  BY <1>2 DEF CallsShape, IsCall, IsRecord
<1> HIDE DEF Outdated
<1>4. CallsShape'
  BY <1>1, <1>3 DEF CallsShape
<1>5. Sound'
  <2> SUFFICES ASSUME NEW c \in calls, Outdated(c).sound, c.answer # None, c.tab # t
      PROVE  IF c.op = "data" THEN c.answer = Page(c.opts, c.tab)' ELSE c.answer.columns = layout'[c.tab]
    BY <1>1, <1>3 DEF Sound
  <2>1. c.tab \in Tabs /\ c.sound
    BY <1>2, <1>3 DEF CallsShape, IsCall
  <2> QED BY <1>2, <2>1, PageStays DEF Sound
<1>6. \A u \in Tabs : Newest(u)' = {Outdated(c) : c \in Newest(u)}
  BY <1>1, <1>3 DEF Newest
<1>7. \A u \in Tabs \ {t} : \A c \in Newest(u) : Outdated(c) = c
  BY <1>3 DEF Newest
<1>8. OneNewest'
  BY <1>2, <1>6 DEF OneNewest
<1>9. ASSUME NEW u \in Tabs \ {t} PROVE Newest(u)' = Newest(u)
  <2>1. Newest(u)' = {Outdated(c) : c \in Newest(u)} /\ \A c \in Newest(u) : Outdated(c) = c
    BY <1>6, <1>7
  <2> QED BY <2>1
<1>10. \A e \in Newest(t)' : \E c \in Newest(t) : e.opts = c.opts
  BY <1>3, <1>6 DEF Newest
<1> QED BY <1>4, <1>5, <1>8, <1>9, <1>10

(* A handler goes on: the others stay.                                     *)
LEMMA JobGoesOn ==
  ASSUME IInv, NEW j \in jobs, NEW n, IsJob(n), n.tab = j.tab,
         jobs' = (jobs \ {j}) \cup {n}
  PROVE  /\ JobsShape'
         /\ \A u \in Tabs : u # j.tab => (Unread(u)' <=> Unread(u))
         /\ n.applied /\ n.stage # "reload" => Unread(j.tab)'
         /\ (n.applied /\ n.stage # "reload") = (j.applied /\ j.stage # "reload") =>
              \A u \in Tabs : (Unread(u)' <=> Unread(u))
BY DEF IInv, Shapes, JobsShape, Unread

LEMMA ApplyStep ==
  ASSUME IInv, NEW j \in jobs, Apply(j)
  PROVE  IInv'
<1>1. /\ IsJob(j) /\ j.stage = "asked" /\ UNCHANGED <<data, view, stale>>
      /\ j.tab \in Tabs
  BY DEF IInv, Shapes, JobsShape, Apply, IsJob
<1>2. ViewShape' /\ DataShape' /\ StaleShape'
  BY <1>1, TablesFrame
<1>3. CASE Written(j) = None
  <2>1. /\ jobs' = (jobs \ {j}) \cup {[j EXCEPT !.stage = "refused"]}
        /\ UNCHANGED <<stored, layout, calls>>
    BY <1>3 DEF Apply
  <2>2. /\ IsJob([j EXCEPT !.stage = "refused"]) /\ [j EXCEPT !.stage = "refused"].tab = j.tab
        /\ [j EXCEPT !.stage = "refused"].applied = j.applied
        /\ [j EXCEPT !.stage = "refused"].stage = "refused"
    BY <1>1 DEF IsJob, IsRecord
  <2>3. JobsShape' /\ \A u \in Tabs : (Unread(u)' <=> Unread(u))
    BY <1>1, <2>1, <2>2, JobGoesOn
  <2> QED BY <1>1, <1>2, <2>1, <2>3, QuietStep DEF IInv, Shapes
<1>4. CASE Written(j) # None
  <2> DEFINE w == Written(j)
             n == [j EXCEPT !.stage = "done", !.applied = TRUE]
  <2>1. /\ jobs' = (jobs \ {j}) \cup {n}
        /\ stored' = [stored EXCEPT ![j.tab] = w]
        /\ layout' = IF j.op = "ddl" THEN [layout EXCEPT ![j.tab] = 1] ELSE layout
        /\ calls' = {IF c.tab = j.tab /\ c.answer # None THEN [c EXCEPT !.sound = FALSE] ELSE c : c \in calls}
    BY <1>4 DEF Apply
  <2>2. IsJob(n) /\ n.tab = j.tab /\ n.applied /\ n.stage = "done"
    BY <1>1 DEF IsJob, IsRecord
  <2> HIDE DEF w, n
  <2>3. JobsShape' /\ Unread(j.tab)' /\ \A u \in Tabs : u # j.tab => (Unread(u)' <=> Unread(u))
    BY <2>1, <2>2, JobGoesOn
  <2>4. ServerShape' /\ \A u \in Tabs \ {j.tab} : stored'[u] = stored[u] /\ layout'[u] = layout[u]
    BY <1>1, <2>1 DEF IInv, Shapes, ServerShape
  <2>5. /\ CallsShape' /\ Sound' /\ OneNewest'
        /\ \A u \in Tabs \ {j.tab} : Newest(u)' = Newest(u)
        /\ \A e \in Newest(j.tab)' : \E c \in Newest(j.tab) : e.opts = c.opts
    BY <1>1, <2>1, <2>4, WriteOutdates
  <2>6. ASSUME NEW u \in Tabs, u = view.tab, ~stale[u] PROVE Asked(u)' /\ Fresh(u)'
    <3>1. Asked(u) /\ Fresh(u)
      BY <2>6 DEF IInv, Coherent
    <3>2. CASE u = j.tab
      BY <1>1, <2>3, <2>5, <3>1, <3>2 DEF Asked, Fresh
    <3>3. CASE u # j.tab
      <4>1. Newest(u)' = Newest(u) /\ (Unread(u)' <=> Unread(u)) /\ (Matches(u)' <=> Matches(u))
        BY <1>1, <2>3, <2>4, <2>5, <3>3, MatchesStays
      <4> QED BY <1>1, <3>1, <4>1 DEF Asked, Fresh
    <3> QED BY <3>2, <3>3
  <2> QED BY <1>1, <1>2, <2>3, <2>4, <2>5, <2>6 DEF IInv, Shapes, Coherent
<1> QED BY <1>3, <1>4

LEMMA ElsewhereStep ==
  ASSUME IInv, NEW r, Elsewhere(r)
  PROVE  IInv'
<1> DEFINE t == view.tab
<1>1. /\ t \in Tabs /\ UNCHANGED <<layout, data, drafts, jobs, view, gestures, lost>>
      /\ stored' = [stored EXCEPT ![t][r] = 1] /\ stale' = [stale EXCEPT ![t] = TRUE]
      /\ calls' = {IF c.tab = t /\ c.answer # None THEN [c EXCEPT !.sound = FALSE] ELSE c : c \in calls}
  BY DEF Elsewhere, IInv, Shapes, ViewShape, IsView
<1>2. ViewShape' /\ DataShape' /\ JobsShape'
  BY <1>1, TablesFrame
<1>3. StaleShape' /\ stale'[t]
  BY <1>1 DEF IInv, Shapes, StaleShape
<1>4. ServerShape' /\ \A u \in Tabs \ {t} : stored'[u] = stored[u] /\ layout'[u] = layout[u]
  BY <1>1 DEF IInv, Shapes, ServerShape
<1>5. CallsShape' /\ Sound' /\ OneNewest'
  BY <1>1, <1>4, WriteOutdates
<1> QED BY <1>1, <1>2, <1>3, <1>4, <1>5 DEF IInv, Shapes, Coherent

(* A handler asks for the rows of its tab and waits for them.              *)
LEMMA ReloadStep ==
  ASSUME IInv, NEW j \in jobs, FetchData(j.tab, data[j.tab], data[j.tab].opts),
         jobs' = (jobs \ {j}) \cup {Reloads(j)}, UNCHANGED <<stored, layout>>,
         IsView(view'), view'.tab = view.tab, view'.timer = view.timer
  PROVE  IInv'
<1>1. IsJob(j) /\ j.tab \in Tabs /\ IsTab(data[j.tab])
  BY DEF IInv, Shapes, JobsShape, IsJob, DataShape
<1>2. IsJob(Reloads(j)) /\ Reloads(j).tab = j.tab
  BY <1>1 DEF Reloads, IsJob, IsRecord
<1> HIDE DEF Reloads
<1>3. JobsShape' /\ \A u \in Tabs : u # j.tab => (Unread(u)' <=> Unread(u))
  BY <1>2, JobGoesOn
<1>4. ServerShape' /\ DataShape' /\ CallsShape' /\ StaleShape' /\ Sound' /\ OneNewest' /\ Coherent'
  BY <1>1, <1>3, FetchStep
<1> QED BY <1>3, <1>4 DEF IInv, Shapes, ViewShape

LEMMA SaveLandsStep ==
  ASSUME IInv, NEW j \in jobs, SaveLands(j)
  PROVE  IInv'
<1>1. IsView(view)
  BY DEF IInv, Shapes, ViewShape
<1>2. IsView(view') /\ view'.tab = view.tab /\ view'.timer = view.timer
  BY <1>1 DEF SaveLands, IsView, IsRecord
<1> QED BY <1>2, ReloadStep DEF SaveLands

LEMMA DeleteLandsStep ==
  ASSUME IInv, NEW j \in jobs, DeleteLands(j)
  PROVE  IInv'
<1> DEFINE rest == j.rest \ {CHOOSE r \in j.rest : TRUE}
           n == [j EXCEPT !.stage = "asked", !.rest = rest]
<1>1. IsView(view) /\ IsJob(j) /\ j.tab \in Tabs /\ j.stage = "done"
  BY DEF IInv, Shapes, ViewShape, JobsShape, IsJob, DeleteLands
<1>2. CASE rest # {}
  <2>1. UNCHANGED <<stored, layout, data, calls, view, stale>> /\ jobs' = (jobs \ {j}) \cup {n}
    BY <1>2 DEF DeleteLands
  <2>2. IsJob(n) /\ n.tab = j.tab /\ n.applied = j.applied /\ n.stage = "asked"
    BY <1>1 DEF IsJob, IsRecord
  <2> HIDE DEF n
  <2>3. JobsShape' /\ \A u \in Tabs : (Unread(u)' <=> Unread(u))
    BY <1>1, <2>1, <2>2, JobGoesOn
  <2>4. ViewShape'
    BY <2>1, TablesFrame
  <2> QED BY <2>1, <2>3, <2>4, QuietStep DEF IInv, Shapes
<1>3. CASE rest = {}
  <2>1. /\ jobs' = (jobs \ {j}) \cup {Reloads(j)} /\ UNCHANGED <<stored, layout>>
        /\ FetchData(j.tab, data[j.tab], data[j.tab].opts)
        /\ view' = IF Lives(j) THEN [view EXCEPT !.selected = NoSelection,
                                                !.dialog = IF @ = "delete" THEN None ELSE @]
                   ELSE view
    BY <1>3 DEF DeleteLands
  <2>2. IsView(view') /\ view'.tab = view.tab /\ view'.timer = view.timer
    BY <1>1, <2>1 DEF IsView, IsRecord
  <2> QED BY <2>1, <2>2, ReloadStep
<1> QED BY <1>2, <1>3

LEMMA InsertLandsStep ==
  ASSUME IInv, NEW j \in jobs, InsertLands(j)
  PROVE  IInv'
<1>1. IsView(view)
  BY DEF IInv, Shapes, ViewShape
<1>2. IsView(view') /\ view'.tab = view.tab /\ view'.timer = view.timer
  BY <1>1 DEF InsertLands, IsView, IsRecord
<1> QED BY <1>2, ReloadStep DEF InsertLands

LEMMA DDLReloadsStep ==
  ASSUME IInv, NEW j \in jobs, DDLReloads(j)
  PROVE  IInv'
<1>1. IsView(view')
  BY DEF IInv, Shapes, ViewShape, DDLReloads
<1> QED BY <1>1, ReloadStep DEF DDLReloads

(* The columns are asked for: the reads of rows stay.                      *)
LEMMA FetchSchemaKeeps ==
  ASSUME IInv, NEW t \in Tabs, FetchSchema(t) \/ UNCHANGED calls, UNCHANGED <<stored, layout>>
  PROVE  CallsShape' /\ Sound' /\ OneNewest' /\ \A u \in Tabs : Newest(u)' = Newest(u)
<1>1. CASE UNCHANGED calls
  BY <1>1, TablesFrame
<1>2. CASE calls' = calls \cup {NewCall(SchemaKey(t))}
  <2> DEFINE n == NewCall(SchemaKey(t))
  <2>1. IsCall(n) /\ n.op = "schema" /\ n.answer = None
    BY DEF NewCall, SchemaKey, Key, IsCall, IsRecord
  <2> HIDE DEF n
  <2>2. calls' = calls \cup {n}
    BY <1>2 DEF n
  <2>3. CallsShape' /\ \A u \in Tabs : Newest(u)' = Newest(u)
    BY <2>1, <2>2 DEF IInv, Shapes, CallsShape, Newest
  <2>4. OneNewest'
    BY <2>3 DEF IInv, OneNewest
  <2>5. Sound'
    BY <2>1, <2>2 DEF IInv, Sound, Page
  <2> QED BY <2>3, <2>4, <2>5
<1> QED BY <1>1, <1>2 DEF FetchSchema

(* A step that changes what the handlers wait for, not what awaits a       *)
(* reload, nor what the tables show.                                       *)
LEMMA HandlerStep ==
  ASSUME IInv, UNCHANGED <<stored, layout, data, stale>>, JobsShape',
         \A u \in Tabs : (Unread(u)' <=> Unread(u)),
         NEW t \in Tabs, FetchSchema(t) \/ UNCHANGED calls,
         IsView(view'), view'.tab = view.tab, view'.timer = view.timer
  PROVE  IInv'
<1>1. CallsShape' /\ Sound' /\ OneNewest' /\ \A u \in Tabs : Newest(u)' = Newest(u)
  BY FetchSchemaKeeps
<1>2. ServerShape' /\ DataShape' /\ StaleShape'
  BY TablesFrame
<1>3. ASSUME NEW u \in Tabs, u = view.tab, ~stale[u] PROVE Asked(u)' /\ Fresh(u)'
  <2>1. Asked(u) /\ Fresh(u) /\ (Matches(u)' <=> Matches(u))
    BY <1>3, MatchesStays DEF IInv, Coherent
  <2> QED BY <1>1, <2>1 DEF Asked, Fresh
<1> QED BY <1>1, <1>2, <1>3 DEF IInv, Shapes, ViewShape, Coherent

LEMMA DDLLandsStep ==
  ASSUME IInv, NEW j \in jobs, DDLLands(j)
  PROVE  IInv'
<1> DEFINE n == [j EXCEPT !.stage = "schema"]
<1>1. IsView(view') /\ IsJob(j) /\ j.tab \in Tabs /\ j.stage = "done"
  BY DEF IInv, Shapes, ViewShape, JobsShape, IsJob, DDLLands
<1>2. IsJob(n) /\ n.tab = j.tab /\ n.applied = j.applied /\ n.stage = "schema"
  BY <1>1 DEF IsJob, IsRecord
<1>3. jobs' = (jobs \ {j}) \cup {n}
  BY DEF DDLLands
<1> HIDE DEF n
<1>4. JobsShape' /\ \A u \in Tabs : (Unread(u)' <=> Unread(u))
  BY <1>1, <1>2, <1>3, JobGoesOn
<1> QED BY <1>1, <1>4, HandlerStep DEF DDLLands

LEMMA ReloadedStep ==
  ASSUME IInv, NEW j \in jobs, Reloaded(j)
  PROVE  IInv'
<1>1. IsView(view) /\ j.tab \in Tabs /\ j.stage = "reload"
  BY DEF IInv, Shapes, ViewShape, JobsShape, IsJob, Reloaded, ReloadDue
<1>2. JobsShape' /\ \A u \in Tabs : (Unread(u)' <=> Unread(u))
  BY <1>1 DEF IInv, Shapes, JobsShape, Reloaded, Unread
<1>3. IsView(view') /\ view'.tab = view.tab /\ view'.timer = view.timer
  BY <1>1 DEF Reloaded, IsView, IsRecord
<1>4. FetchSchema(j.tab) \/ UNCHANGED calls
  BY DEF Reloaded
<1> QED BY <1>1, <1>2, <1>3, <1>4, HandlerStep DEF Reloaded

(* A handler fails: the tab has an error, and when the server may have     *)
(* taken a write, no claim to show it.                                     *)
LEMMA JobFailsStep ==
  ASSUME IInv, NEW j \in jobs, JobFails(j)
  PROVE  IInv'
<1> DEFINE t == j.tab
<1>1. IsView(view) /\ t \in Tabs /\ IsTab(data[t]) /\ j.applied \in BOOLEAN
  BY DEF IInv, Shapes, ViewShape, JobsShape, IsJob, DataShape
<1>2. /\ jobs' = jobs \ {j} /\ UNCHANGED <<stored, layout, drafts, calls, gestures, lost>>
      /\ data' = IF j.op = "ddl" THEN data ELSE [data EXCEPT ![t].mutErr = TRUE]
      /\ stale' = [stale EXCEPT ![t] = @ \/ j.applied]
  BY DEF JobFails
<1>3. JobsShape' /\ \A u \in Tabs : u # t \/ ~j.applied => (Unread(u)' <=> Unread(u))
  BY <1>2 DEF IInv, Shapes, JobsShape, Unread
<1>4. IsView(view') /\ view'.tab = view.tab /\ view'.timer = view.timer
  BY <1>1 DEF JobFails, IsView, IsRecord
<1>5. StaleShape' /\ stale'[t] = (stale[t] \/ j.applied) /\ \A u \in Tabs \ {t} : stale'[u] = stale[u]
  BY <1>1, <1>2 DEF IInv, Shapes, StaleShape
<1>6. LET d == [data[t] EXCEPT !.mutErr = TRUE] IN
      /\ IsTab(d) /\ d.opts = data[t].opts /\ d.rows = data[t].rows /\ d.more = data[t].more
      /\ d.total = data[t].total /\ d.columns = data[t].columns /\ d.dataErr = data[t].dataErr
  BY <1>1 DEF IsTab, IsRecord
<1>7. DataShape' /\ \A u \in Tabs : /\ data'[u].opts = data[u].opts /\ data'[u].rows = data[u].rows
                                    /\ data'[u].more = data[u].more /\ data'[u].total = data[u].total
                                    /\ data'[u].columns = data[u].columns
                                    /\ data'[u].dataErr = data[u].dataErr
  BY <1>1, <1>2, <1>6 DEF IInv, Shapes, DataShape
<1>8. /\ ServerShape' /\ CallsShape' /\ Sound' /\ OneNewest'
      /\ \A u \in Tabs : Newest(u)' = Newest(u)
  BY <1>2, TablesFrame
<1>9. ASSUME NEW u \in Tabs, u = view.tab, ~stale'[u] PROVE Asked(u)' /\ Fresh(u)'
  <2>1. ~stale[u] /\ (Unread(u)' <=> Unread(u))
    BY <1>1, <1>3, <1>5, <1>9
  <2>2. Asked(u) /\ Fresh(u)
    BY <1>9, <2>1 DEF IInv, Coherent
  <2>3. Matches(u)' <=> Matches(u)
    BY <1>2, <1>7 DEF Matches, Page
  <2> QED BY <1>4, <1>7, <1>8, <2>1, <2>2, <2>3 DEF Asked, Fresh
<1> QED BY <1>3, <1>4, <1>5, <1>7, <1>8, <1>9 DEF IInv, Shapes, ViewShape, Coherent

-----------------------------------------------------------------------------
(* Steps of the reads.                                                     *)
LEMMA PageColumns ==
  ASSUME NEW o, NEW t
  PROVE  Page(o, t).columns = layout[t]
BY DEF Page, PageOf

LEMMA AnswersStay ==
  ASSUME Sound, UNCHANGED <<stored, layout>>, NEW c \in calls, c.sound, c.answer # None
  PROVE  IF c.op = "data" THEN c.answer = Page(c.opts, c.tab)' ELSE c.answer.columns = layout'[c.tab]
BY PageStays DEF Sound

LEMMA ShownIsTab ==
  ASSUME NEW d, IsTab(d), NEW a
  PROVE  /\ IsTab(Shown(d, a)) /\ Shown(d, a).opts = d.opts /\ Shown(d, a).rows = a.rows
         /\ Shown(d, a).more = a.more /\ Shown(d, a).total = a.total /\ Shown(d, a).columns = a.columns
BY DEF IsTab, IsRecord, Shown

LEMMA AnswerStep ==
  ASSUME IInv, NEW c \in calls, Answer(c)
  PROVE  IInv'
<1> DEFINE a == IF c.op = "data" THEN Page(c.opts, c.tab) ELSE [columns |-> layout[c.tab]]
           n == [c EXCEPT !.answer = a]
<1>1. IsCall(c) /\ UNCHANGED <<stored, layout, data, jobs, view, stale>> /\ calls' = (calls \ {c}) \cup {n}
  BY DEF IInv, Shapes, CallsShape, Answer
<1>2. ServerShape' /\ DataShape' /\ JobsShape' /\ ViewShape' /\ StaleShape'
      /\ \A u \in Tabs : (Unread(u)' <=> Unread(u)) /\ (Matches(u)' <=> Matches(u))
  BY <1>1, TablesFrame, MatchesStays
<1>3. /\ IsCall(n) /\ n.op = c.op /\ n.tab = c.tab /\ n.opts = c.opts /\ n.newest = c.newest
      /\ n.sound = c.sound /\ n.answer = a
  BY <1>1 DEF IsCall, IsRecord
<1>4. IF c.op = "data" THEN n.answer = Page(c.opts, c.tab)' ELSE n.answer.columns = layout'[c.tab]
  BY <1>1, <1>3 DEF Page
<1> HIDE DEF n
<1>5. CallsShape'
  BY <1>1, <1>3 DEF IInv, Shapes, CallsShape
<1>6. Sound'
  <2> SUFFICES ASSUME NEW e \in calls', e.sound, e.answer # None
      PROVE  IF e.op = "data" THEN e.answer = Page(e.opts, e.tab)' ELSE e.answer.columns = layout'[e.tab]
    BY DEF Sound
  <2>1. CASE e = n
    BY <1>3, <1>4, <2>1
  <2>2. CASE e \in calls
    BY <1>1, <2>2, AnswersStay DEF IInv
  <2> QED BY <1>1, <2>1, <2>2
<1>7. \A u \in Tabs : \/ Newest(u)' = Newest(u)
                      \/ c \in Newest(u) /\ Newest(u)' = (Newest(u) \ {c}) \cup {n}
  BY <1>1, <1>3 DEF Newest
<1>8. OneNewest'
  BY <1>7 DEF IInv, OneNewest
<1>9. ASSUME NEW u \in Tabs, u = view.tab, ~stale[u] PROVE Asked(u)' /\ Fresh(u)'
  <2>1. Asked(u) /\ Fresh(u)
    BY <1>9 DEF IInv, Coherent
  <2> QED BY <1>1, <1>2, <1>3, <1>7, <2>1 DEF Asked, Fresh
<1> QED BY <1>1, <1>2, <1>5, <1>6, <1>8, <1>9 DEF IInv, Shapes, Coherent

(* A read has ended: it is not under way any more.                         *)
LEMMA CallEnds ==
  ASSUME IInv, NEW c \in calls, calls' = calls \ {c}, UNCHANGED <<stored, layout>>
  PROVE  /\ ServerShape' /\ CallsShape' /\ Sound' /\ OneNewest'
         /\ \A u \in Tabs : c \notin Newest(u) => Newest(u)' = Newest(u)
         /\ \A u \in Tabs : c \in Newest(u) => Newest(u)' = {}
         /\ \A u \in Tabs : c \in Newest(u) <=> c.op = "data" /\ c.tab = u /\ c.newest
<1>1. ServerShape' /\ CallsShape' /\ Sound'
  BY TablesFrame DEF IInv, Shapes, CallsShape, Sound, Page
<1>2. \A u \in Tabs : Newest(u)' = Newest(u) \ {c}
  BY DEF Newest
<1> QED BY <1>1, <1>2 DEF IInv, OneNewest, Newest

LEMMA LandStep ==
  ASSUME IInv, NEW c \in calls, Land(c)
  PROVE  IInv'
<1> DEFINE t == c.tab
<1>1. /\ IsCall(c) /\ t \in Tabs /\ IsTab(data[t]) /\ c.answer # None
      /\ UNCHANGED <<stored, layout, jobs, view>> /\ calls' = calls \ {c}
      /\ stale' = [stale EXCEPT ![t] = @ \/ (c.op = "schema" /\ ~c.sound)]
  BY DEF IInv, Shapes, CallsShape, IsCall, DataShape, Land
<1>2. /\ ServerShape' /\ CallsShape' /\ Sound' /\ OneNewest' /\ JobsShape' /\ ViewShape'
      /\ \A u \in Tabs : (Unread(u)' <=> Unread(u))
  BY <1>1, CallEnds, TablesFrame
<1>3. /\ StaleShape' /\ stale'[t] = (stale[t] \/ (c.op = "schema" /\ ~c.sound))
      /\ \A u \in Tabs \ {t} : stale'[u] = stale[u]
  BY <1>1 DEF IInv, Shapes, StaleShape
<1>4. DataShape' /\ \A u \in Tabs \ {t} : data'[u] = data[u]
  <2>1. CASE c.op = "schema"
    <3>1. data' = [data EXCEPT ![t].columns = c.answer.columns]
      BY <2>1 DEF Land, IsNewestRequest
    <3>2. IsTab([data[t] EXCEPT !.columns = c.answer.columns])
      BY <1>1 DEF IsTab, IsRecord
    <3> QED BY <1>1, <3>1, <3>2 DEF IInv, Shapes, DataShape
  <2>2. CASE c.op # "schema" /\ c.newest
    <3>1. data' = [data EXCEPT ![t] = Shown(data[t], c.answer)]
      BY <2>2 DEF Land, IsNewestRequest
    <3>2. IsTab(Shown(data[t], c.answer))
      BY <1>1, ShownIsTab
    <3> QED BY <1>1, <3>1, <3>2 DEF IInv, Shapes, DataShape
  <2>3. CASE c.op # "schema" /\ ~c.newest
    BY <2>3, TablesFrame DEF Land, IsNewestRequest
  <2> QED BY <2>1, <2>2, <2>3
<1>5. ASSUME NEW u \in Tabs, u = view.tab, ~stale'[u], u # t PROVE Asked(u)' /\ Fresh(u)'
  <2>1. Asked(u) /\ Fresh(u)
    BY <1>3, <1>5 DEF IInv, Coherent
  <2>2. Newest(u)' = Newest(u) /\ data'[u] = data[u] /\ (Matches(u)' <=> Matches(u))
    BY <1>1, <1>4, <1>5, CallEnds, MatchesStays
  <2> QED BY <1>1, <1>2, <2>1, <2>2 DEF Asked, Fresh
<1>6. ASSUME t = view.tab, ~stale'[t] PROVE Asked(t)' /\ Fresh(t)'
  <2>1. Asked(t) /\ Fresh(t)
    BY <1>1, <1>3, <1>6 DEF IInv, Coherent
  <2>2. CASE c.op = "schema"
    <3>1. data' = [data EXCEPT ![t].columns = c.answer.columns]
      BY <2>2 DEF Land, IsNewestRequest
    <3>2. /\ data'[t].opts = data[t].opts /\ data'[t].rows = data[t].rows /\ data'[t].more = data[t].more
          /\ data'[t].total = data[t].total /\ data'[t].dataErr = data[t].dataErr
          /\ data'[t].columns = c.answer.columns
      BY <1>1, <3>1 DEF IInv, Shapes, DataShape, IsTab, IsRecord
    <3>3. Newest(t)' = Newest(t)
      BY <1>1, <2>2, CallEnds
    <3>4. c.answer.columns = layout[t]
      BY <1>1, <1>3, <1>6, <2>2 DEF IInv, Sound
    <3>5. Matches(t) => Matches(t)'
      <4>1. Page(data[t].opts, t)' = Page(data[t].opts, t)
        BY <1>1, <3>2 DEF Page
      <4> QED BY <3>2, <3>4, <4>1, PageColumns DEF Matches
    <3> QED BY <1>1, <1>2, <2>1, <3>2, <3>3, <3>5 DEF Asked, Fresh
  <2>3. CASE c.op # "schema" /\ c.newest
    <3>1. data' = [data EXCEPT ![t] = Shown(data[t], c.answer)] /\ c.op = "data"
      BY <1>1, <2>3 DEF Land, IsNewestRequest, IsCall
    <3>2. /\ data'[t].opts = data[t].opts /\ data'[t].rows = c.answer.rows /\ data'[t].more = c.answer.more
          /\ data'[t].total = c.answer.total /\ data'[t].columns = c.answer.columns
      BY <1>1, <3>1, ShownIsTab DEF IInv, Shapes, DataShape
    <3>3. c \in Newest(t) /\ Newest(t)' = {}
      BY <1>1, <2>3, <3>1, CallEnds
    <3>4. ASSUME ~Unread(t), ~view.timer PROVE Matches(t)'
      <4>1. c.opts = data[t].opts /\ c.sound
        BY <2>1, <3>3, <3>4 DEF Asked
      <4>2. c.answer = Page(data[t].opts, t)
        BY <1>1, <3>1, <4>1 DEF IInv, Sound
      <4>3. Page(data[t].opts, t)' = Page(data[t].opts, t)
        BY <1>1, <3>2 DEF Page
      <4> QED BY <3>2, <4>2, <4>3 DEF Matches
    <3> QED BY <1>1, <1>2, <3>3, <3>4 DEF Asked, Fresh
  <2>4. CASE c.op # "schema" /\ ~c.newest
    <3>1. UNCHANGED data /\ Newest(t)' = Newest(t)
      BY <1>1, <2>4, CallEnds DEF Land, IsNewestRequest
    <3>2. Matches(t)' <=> Matches(t)
      BY <1>1, <3>1, MatchesStays
    <3> QED BY <1>1, <1>2, <2>1, <3>1, <3>2 DEF Asked, Fresh
  <2> QED BY <2>2, <2>3, <2>4
<1> QED BY <1>1, <1>2, <1>3, <1>4, <1>5, <1>6 DEF IInv, Shapes, Coherent

LEMMA FailStep ==
  ASSUME IInv, NEW c \in calls, Fail(c)
  PROVE  IInv'
<1> DEFINE t == c.tab
<1>1. /\ t \in Tabs /\ IsTab(data[t])
      /\ UNCHANGED <<stored, layout, jobs, view, stale>> /\ calls' = calls \ {c}
      /\ data' = IF c.op = "data" /\ c.newest THEN [data EXCEPT ![t] = Failed(data[t])] ELSE data
  BY DEF IInv, Shapes, CallsShape, IsCall, DataShape, Fail, IsNewestRequest
<1>2. /\ ServerShape' /\ CallsShape' /\ Sound' /\ OneNewest' /\ JobsShape' /\ ViewShape' /\ StaleShape'
      /\ \A u \in Tabs : (Unread(u)' <=> Unread(u))
  BY <1>1, CallEnds, TablesFrame
<1>3. IsTab(Failed(data[t])) /\ Failed(data[t]).dataErr
  BY <1>1 DEF IsTab, IsRecord, Failed
<1>4. DataShape' /\ \A u \in Tabs : c \notin Newest(u) => data'[u] = data[u]
  BY <1>1, <1>3, CallEnds DEF IInv, Shapes, DataShape
<1>5. \A u \in Tabs : c \in Newest(u) => data'[u].dataErr /\ Newest(u)' = {}
  BY <1>1, <1>3, CallEnds DEF IInv, Shapes, DataShape
<1>6. ASSUME NEW u \in Tabs, u = view.tab, ~stale[u] PROVE Asked(u)' /\ Fresh(u)'
  <2>1. Asked(u) /\ Fresh(u)
    BY <1>6 DEF IInv, Coherent
  <2>2. CASE c \in Newest(u)
    BY <1>5, <2>2 DEF Asked, Fresh
  <2>3. CASE c \notin Newest(u)
    <3>1. Newest(u)' = Newest(u) /\ data'[u] = data[u] /\ (Matches(u)' <=> Matches(u))
      BY <1>1, <1>4, <2>3, CallEnds, MatchesStays
    <3> QED BY <1>1, <1>2, <2>1, <3>1 DEF Asked, Fresh
  <2> QED BY <2>2, <2>3
<1> QED BY <1>1, <1>2, <1>4, <1>6 DEF IInv, Shapes, Coherent
-----------------------------------------------------------------------------
LEMMA InitSettled == Init => IInv
<1> SUFFICES ASSUME Init PROVE IInv
  OBVIOUS
<1> DEFINE first == CHOOSE t \in Tabs : TRUE
           new == [asked |-> FALSE, opts |-> DefaultOpts, rows |-> [r \in {} |-> 0], more |-> FALSE,
                   total |-> 0, columns |-> None, loading |-> FALSE, dataErr |-> FALSE, mutErr |-> FALSE]
           read == [new EXCEPT !.asked = TRUE]
           shown == Shown(read, Page(DefaultOpts, first))
<1>1. first \in Tabs
  BY TablesAssumption
<1>2. /\ data = [t \in Tabs |-> IF t = first THEN Shown(read, Page(DefaultOpts, t)) ELSE new]
      /\ view = [Idle EXCEPT !.tab = first, !.n = 1] /\ calls = {} /\ jobs = {}
      /\ stale = [t \in Tabs |-> FALSE] /\ ServerShape
  BY DEF Init, ServerShape
<1>3. IsOpts(DefaultOpts)
  BY DEF DefaultOpts, IsOpts, IsRecord
<1>4. IsTab(new) /\ IsTab(read) /\ read.opts = DefaultOpts
  BY <1>3 DEF IsTab, IsRecord
<1> HIDE DEF new, read, first
<1>5. \A p : /\ IsTab(Shown(read, p)) /\ Shown(read, p).opts = DefaultOpts /\ Shown(read, p).rows = p.rows
             /\ Shown(read, p).more = p.more /\ Shown(read, p).total = p.total
             /\ Shown(read, p).columns = p.columns
  BY <1>4, ShownIsTab
<1>6. DataShape
  BY <1>2, <1>4, <1>5 DEF DataShape
<1>7. data[first] = shown
  BY <1>1, <1>2
<1>8. ViewShape /\ view.tab = first
  BY <1>1, <1>2, TablesAssumption DEF ViewShape, IsView, IsRecord, Idle
<1>9. Matches(first)
  BY <1>5, <1>7 DEF Matches
<1>10. CallsShape /\ JobsShape /\ Sound /\ OneNewest /\ StaleShape
  BY <1>2 DEF CallsShape, JobsShape, Sound, OneNewest, Newest, StaleShape
<1>11. Coherent
  BY <1>2, <1>8, <1>9 DEF Coherent, Asked, Newest, Fresh
<1> QED BY <1>2, <1>6, <1>8, <1>10, <1>11 DEF IInv, Shapes

LEMMA StepKeeps == IInv /\ [Next]_vars => IInv'
<1> SUFFICES ASSUME IInv, [Next]_vars PROVE IInv'
  OBVIOUS
<1>1. CASE UNCHANGED vars
  <2>1. UNCHANGED <<stored, layout, data, calls, jobs, view, stale>>
    BY <1>1 DEF vars
  <2> QED BY <2>1, ViewStep DEF IInv, Shapes, ViewShape
<1>2. CASE Continues
  BY <1>2, DDLReloadsStep, ReloadedStep DEF Continues
<1>3. CASE Events
  <2>1. CASE \E t \in Tabs : Show(t)
    BY <2>1, ShowStep
  <2>2. CASE \/ Leave \/ (\E r \in Rows : HandleToggleRow(r) \/ \E v \in Values : HandleCellChange(r, v))
             \/ HandleToggleEditMode \/ HandleDeleteSelected \/ HandleCancelAll \/ RemoveStagedInsert
             \/ (\E d \in Dialogs : OpenDialog(d)) \/ CloseDialog
    BY <2>2, SelectingStep
  <2>3. CASE Refresh
    BY <2>3, RefreshStep
  <2>4. CASE (\E s \in Orders : HandleSortChange(s)) \/ HandleNext \/ HandlePrev
             \/ (\E n \in Limits : HandlePageSizeChange(n)) \/ HandleClearFilters
    BY <2>4, AskForStep DEF HandleSortChange, HandleNext, HandlePrev, HandlePageSizeChange, HandleClearFilters,
       UsesTable, UsesToolbar, Free, Shows
  <2>5. CASE \E f \in Filters \cup {Rows} : HandleFilterChange(f)
    BY <2>5, HandleFilterChangeStep
  <2>6. CASE TimerFires
    BY <2>6, TimerFiresStep
  <2>7. CASE HandleSaveAll \/ ConfirmImmediateDelete \/ HandleAddRowSubmit \/ SubmitDDL
    BY <2>7, SubmittingStep
  <2>8. CASE ReadArrives
    BY <2>8, AnswerStep, LandStep, FailStep DEF ReadArrives
  <2>9. CASE WriteArrives
    BY <2>9, ApplyStep, SaveLandsStep, DeleteLandsStep, InsertLandsStep, DDLLandsStep, JobFailsStep
    DEF WriteArrives
  <2>10. CASE \E r \in Shared : Elsewhere(r)
    BY <2>10, ElsewhereStep
  <2> QED BY <1>3, <2>1, <2>2, <2>3, <2>4, <2>5, <2>6, <2>7, <2>8, <2>9, <2>10 DEF Events
<1> QED BY <1>1, <1>2, <1>3 DEF Next

(* Every table at rest shows what the server has of the page, filter and   *)
(* order it names, however many tabs share the view, handlers overlap and  *)
(* answers come late: the newest read of the tab on screen asks for what   *)
(* the tab names and either knows of every write or a reload is to come.   *)
THEOREM TableShowsTheServerHolds == Spec => []TableShowsTheServer
<1>1. IInv => TableShowsTheServer
  <2> SUFFICES ASSUME IInv, view.tab # None, Settled(view.tab), ~view.timer, ~stale[view.tab],
                      ~data[view.tab].dataErr
      PROVE  Matches(view.tab)
    BY DEF TableShowsTheServer, Matches
  <2>1. view.tab \in Tabs /\ Fresh(view.tab)
    BY DEF IInv, Shapes, ViewShape, IsView, Coherent
  <2>2. Newest(view.tab) = {} /\ ~Unread(view.tab)
    BY DEF Settled, Newest, Unread
  <2> QED BY <2>1, <2>2 DEF Fresh
<1> QED BY <1>1, InitSettled, StepKeeps, PTL DEF Spec
=============================================================================

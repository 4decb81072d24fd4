------------------------------- MODULE Workspace ------------------------------
(***************************************************************************)
(* The tabs of the browser (stores/workspace.ts), the page that shows them *)
(* and the address bar it mirrors them in (DataViewPage), the snapshot     *)
(* that brings them back after a reload (lib/workspacePersistence.ts), and *)
(* the list of connections that decides which of them are still about      *)
(* something.                                                              *)
(*                                                                         *)
(* A tab's id tells what it was opened on: the kind, the connection and    *)
(* the object with its filter, or a number.  navigationHistory is written  *)
(* and never read, and is left out with labels, time to live and types.    *)
(***************************************************************************)
EXTENDS Integers, Sequences, FiniteSets, SequencesExt, Subsequence

CONSTANTS
  Stored,        \* ids of connections the server may hold
  NewConns,           \* those it is yet to make
  Servers,       \* what the server may hold to begin with
  Visits,        \* pairs of connections an earlier visit may have had open
  Runtime,       \* ids that address another database of a stored connection
  Parent,        \* parentConnectionId
  Objects, Filters,
  Consoles,      \* the kinds of console: "sql", "redis-cli"
  MaxTabs,       \* bound: tabs the user opens; a link may still open one
  MaxGestures,   \* bound: what the user does
  MaxFaults,     \* bound: crashes, failed requests, refused writes
  Nil, Malformed, Unread, Reading

Ids == Stored \cup Runtime
FilterSets == {{}} \cup {{f} : f \in Filters}

ASSUME WorkspaceAssumption ==
  /\ Parent \in [Ids -> Stored] /\ \A c \in Stored : Parent[c] = c
  /\ Servers \subseteq SUBSET (Stored \ NewConns) /\ Visits \subseteq (Ids \X Ids) /\ NewConns \subseteq Stored /\ Stored \cap Runtime = {} /\ Nil \notin Ids
  /\ MaxTabs \in Nat /\ MaxGestures \in Nat /\ MaxFaults \in Nat

VARIABLES
  tabs, active,  \* the open tabs in order, and activeTabId
  activeBy,      \* activeTabByConnection
  chips,         \* openConnectionIds
  view,          \* treeConnByPage, a page itself where it has no entry
  asks,          \* the data store's filters per tab it knows
  typed,         \* console tabs with a draft
  ending,        \* DELETEs of sessions under way: tab and connection
  sessions,      \* the server's sessions with a transaction: tab and connection
  runs,          \* runs under way, and whether they leave a transaction open
  page, url,     \* the route, and the link in its query, or Nil
  synced,        \* syncedQueryRef
  ran,           \* the dependencies the two effects of the page last ran with
  stored,        \* the server's connections
  list, loaded, failed,  \* the browser's list of them, loadedOnce and error
  fetching,      \* pendingConnectionsFetch: what it will answer, or Nil
  removing,      \* a DELETE under way, and whether the server has done it
  unsynced,      \* the effect that prunes is due
  lookup,        \* a resolveObjectType under way: its connection, or Nil
  storage, timer,  \* localStorage; the debounce
  gestures, faults,
  made,          \* history: connections made in this run
  given,         \* history: the address came from outside, or from a link to
                 \* the page one is on, and was not mirrored since
  orphans        \* history: sessions a crash, a lost DELETE or a late run left

tabVars == <<tabs, active, activeBy, ending>>
addressVars == <<page, url, synced, given>>
pageVars == <<addressVars, ran>>
sessionVars == <<sessions, runs, orphans>>
serverVars == <<stored, list, loaded, failed, fetching, removing, unsynced, made>>
boundVars == <<gestures, faults>>
workspaceVars == <<tabVars, chips, view, asks, typed, pageVars, serverVars, lookup, storage, timer,
          boundVars, sessionVars>>
-----------------------------------------------------------------------------
(* Tabs. *)

(* tabPageId. *)
Page(t) == IF t.anchor # Nil THEN t.anchor ELSE t.conn
PageTabs(c) == SelectSeq(tabs, LAMBDA t : Page(t) = c)

ObjectId(c, o, fs) == <<"object", c, o, fs>>
NumberedId(kind, c, n) == <<kind, c, n>>
OverviewId(c) == <<"overview", c>>

IdsOf(ts) == {ts[i].id : i \in DOMAIN ts}
Open == IdsOf(tabs)
TabOf(id) == CHOOSE t \in ToSet(tabs) : t.id = id

NewTab(kind, id, c) ==
  [kind |-> kind, id |-> id, conn |-> c, anchor |-> Nil, object |-> Nil,
   filter |-> {}, trail |-> <<>>]
ObjectTab(c, anchor, o, fs, trail) ==
  [NewTab("object", ObjectId(c, o, fs), c)
     EXCEPT !.anchor = anchor, !.object = o, !.filter = fs, !.trail = trail]

(* sqlTargets, and startSqlSessionCleanup on a change of the tabs. *)
Targets(ts) == {<<t.id, t.conn>> : t \in {u \in ToSet(ts) : u.kind = "sql"}}
(* endSession sends a DELETE that nobody waits for.                         *)
(* Mutant: a tab that moved to another database keeps the session it had. *)
EndSessionsOfTabs(new) ==
  ending' = ending \cup {s \in Targets(tabs) : s[1] \notin IdsOf(new)}
EndSessions(new) == ending' = ending \cup (Targets(tabs) \ Targets(new))

(* The subscription that mirrors activeTabId into activeTabByConnection. *)
Remembered(memory, ts, id) ==
  IF id = Nil \/ id = active \/ id \notin IdsOf(ts) THEN memory
  ELSE LET t == CHOOSE u \in ToSet(ts) : u.id = id IN [memory EXCEPT ![t.conn] = id]

(* A change of the tabs and of the active one, with all that subscribes to  *)
(* it, the debounced save among them.                                       *)
Become(new, id) ==
  /\ tabs' = new /\ active' = id
  /\ activeBy' = Remembered(activeBy, new, id)
  /\ EndSessions(new)
  /\ timer' = TRUE

Activate(id) == Become(tabs, id)

Room == Len(tabs) < MaxTabs

(* openTab. *)
OpensTab(c, o, page_) ==
  LET id == ObjectId(c, o, {}) IN
  IF id \in Open THEN Activate(id)
  ELSE /\ Room
       /\ Become(Append(tabs, ObjectTab(c, IF page_ = c THEN Nil ELSE page_, o, {}, <<id>>)), id)

(* The filters a tab is asked with now: the data store's, or its own. *)
Asked(t) == IF asks[t.id] # Nil THEN asks[t.id] ELSE t.filter

(* filtersEqual over the tabs of one object. *)
Showing(c, o, fs) ==
  SelectSeq(tabs, LAMBDA t : t.kind = "object" /\ t.conn = c /\ t.object = o /\ Asked(t) = fs)

(* What openLinkedTab and openTabWithFilter do when no tab shows it. *)
OpensFiltered(c, o, fs, trail) ==
  /\ Room
  /\ asks' = [asks EXCEPT ![ObjectId(c, o, fs)] = fs]
  /\ Become(Append(tabs, ObjectTab(c, Nil, o, fs, Append(trail, ObjectId(c, o, fs)))),
            ObjectId(c, o, fs))

(* withoutClosedTabs. *)
Alone(t, trail) == [t EXCEPT !.trail = IF trail = <<>> THEN <<t.id>> ELSE trail]
Kept(kept) ==
  [i \in DOMAIN kept |->
     IF kept[i].kind # "object" THEN kept[i]
     ELSE Alone(kept[i], SelectSeq(kept[i].trail, LAMBDA id : id \in IdsOf(kept)))]
-----------------------------------------------------------------------------
(* The page. *)

(* Mutant: a page with tabs but no memory of one shows none. *)
ShownIfRemembered ==
  LET here == PageTabs(page) IN
  IF page = Nil \/ here = <<>> THEN Nil
  ELSE IF active \in IdsOf(here) THEN active
  ELSE IF activeBy[page] \in IdsOf(here) THEN activeBy[page] ELSE Nil

(* activeTab of DataViewPage. *)
Shown ==
  LET here == PageTabs(page) IN
  IF page = Nil \/ here = <<>> THEN Nil
  ELSE IF active \in IdsOf(here) THEN active
  ELSE IF activeBy[page] \in IdsOf(here) THEN activeBy[page]
  ELSE Last(here).id

Link(o, fs) == [object |-> o, filters |-> fs]
DeepLinks == [object : Objects, filters : FilterSets]

(* encodeObjectDeepLink of the tab that is shown. *)
Outgoing ==
  IF Shown = Nil \/ TabOf(Shown).kind # "object" THEN Nil
  ELSE Link(TabOf(Shown).object, Asked(TabOf(Shown)))

(* The dependencies of the two effects: the tab that is shown and its       *)
(* filters, the page and its address; that tab and the active one.          *)
ShownTab == IF Shown = Nil THEN Nil ELSE TabOf(Shown)
MirrorDeps == <<page, url, ShownTab, IF Shown \in DOMAIN asks THEN asks[Shown] ELSE Nil>>
SettleDeps == <<ShownTab, active>>
NeverRan == [mirror |-> Nil, settle |-> Nil]
MirrorDue == ran.mirror # MirrorDeps
SettleDue == ran.settle # SettleDeps

(* The effects of a render are over. *)
Quiet == (page # Nil => ~MirrorDue /\ ~SettleDue) /\ ~unsynced

(* purgeTabsWhere: gone are the connections that are dead. *)
Purge(gone) ==
  LET dead == {id \in Open : \E t \in ToSet(tabs) : t.id = id /\ (t.conn \in gone \/ Page(t) \in gone)}
      rest == Filtered(tabs, {i \in DOMAIN tabs : tabs[i].conn \notin gone /\ Page(tabs[i]) \notin gone})
  IN /\ tabs' = rest
     /\ active' = IF active \in dead THEN Nil ELSE active
     /\ activeBy' = [c \in Ids |-> IF c \in gone \/ activeBy[c] \in dead THEN Nil ELSE activeBy[c]]
     /\ EndSessions(rest)
     /\ chips' = chips \ gone
     /\ view' = [c \in Ids |-> IF c \in gone \/ view[c] \in gone THEN c ELSE view[c]]
     /\ timer' = TRUE

(* Mutant: a purge that overlooks the databases of the connection. *)
PurgeThatIdOnly(c) == Purge({c})
PurgeConnection(c) == Purge({d \in Ids : Parent[d] = c})
PruneMissingConnections == Purge({d \in Ids : Parent[d] \notin list})
MayPrune == loaded /\ ~failed /\ list # {}

(* What loadPersisted makes of the storage. *)
Fresh == [tabs |-> <<>>, active |-> Nil, activeBy |-> [c \in Ids |-> Nil], chips |-> {}, drafts |-> {}]
Restorable(s) == IF s \in {Nil, Malformed} THEN Fresh ELSE s

(* buildSnapshot. *)
Snapshot ==
  [tabs |-> tabs, active |-> active, activeBy |-> activeBy, chips |-> chips,
   drafts |-> {t \in typed : \E u \in ToSet(tabs) : u.id = t /\ u.kind = "sql"}]

(* restoreWorkspace and restoreObjectTabFilters, on a page that loads. *)
AllIds == {ObjectId(c, o, fs) : c \in Ids, o \in Objects, fs \in FilterSets}
Seeded(ts) ==
  [id \in AllIds |->
     LET own == {t \in ToSet(ts) : t.id = id /\ t.kind = "object" /\ t.filter # {}} IN
     IF own = {} THEN Nil ELSE (CHOOSE t \in own : TRUE).filter]

(* The effect of DataViewPage that opens the chip of a page. *)
Visited(cs, c) == IF c = Nil THEN cs ELSE cs \cup {c}

Loads(s) ==
  LET r == Restorable(s) IN
  /\ tabs' = r.tabs /\ active' = r.active /\ activeBy' = r.activeBy
  /\ chips' = Visited(r.chips, page') /\ timer' = (chips' # r.chips)
  /\ typed' = r.drafts /\ asks' = Seeded(r.tabs)
  /\ view' = [c \in Ids |-> c]
  /\ list' = {} /\ loaded' = FALSE /\ failed' = FALSE /\ fetching' = Nil
  /\ removing' = [conn |-> Nil, phase |-> "idle"] /\ unsynced' = FALSE /\ lookup' = Nil
  /\ synced' = Unread /\ ran' = NeverRan
  /\ orphans' = orphans \cup (sessions \ (Targets(r.tabs) \cup ending))

(* What an earlier visit may have left: a filtered table of c, as a foreign  *)
(* key followed there leaves it, and a console                              *)
(* on d, on the page of its server.                                         *)
EarlierTabs(c, d, o, f) ==
  <<ObjectTab(c, Nil, o, {f}, <<ObjectId(c, o, {f})>>),
    [NewTab("sql", NumberedId("sql", Parent[d], 1), d) EXCEPT !.anchor = IF Parent[d] = d THEN Nil ELSE Parent[d]]>>
Earlier(c, d, o, f) ==
  [Fresh EXCEPT !.tabs = EarlierTabs(c, d, o, f), !.active = NumberedId("sql", Parent[d], 1),
                !.chips = {Parent[c], Parent[d]}]
Visit == {Earlier(v[1], v[2], o, f) : v \in Visits, o \in Objects, f \in Filters}

WorkspaceInit ==
  /\ storage \in {Nil, Malformed} \cup Visit
  /\ LET r == Restorable(storage) IN
     /\ tabs = r.tabs /\ active = r.active /\ activeBy = r.activeBy
     /\ page \in {Nil} \cup (Stored \ NewConns) /\ chips = Visited(r.chips, page)
     /\ timer = (chips # r.chips)
     /\ typed = r.drafts /\ asks = Seeded(r.tabs)
  /\ stored \in Servers
  /\ sessions = Targets(tabs) /\ ending = {} /\ runs = {} /\ view = [c \in Ids |-> c]
  /\ url = Nil /\ synced = Unread /\ ran = NeverRan /\ given = FALSE
  /\ list = {} /\ loaded = FALSE /\ failed = FALSE /\ fetching = Nil
  /\ removing = [conn |-> Nil, phase |-> "idle"] /\ unsynced = FALSE /\ lookup = Nil
  /\ gestures = 0 /\ faults = 0 /\ made = {} /\ orphans = {}

(* A gesture finds the effects of the last render run. *)
Gesture ==
  /\ gestures < MaxGestures /\ gestures' = gestures + 1 /\ Quiet
  /\ UNCHANGED faults
Fault == faults < MaxFaults /\ faults' = faults + 1 /\ UNCHANGED gestures
-----------------------------------------------------------------------------
(* What the user does with tabs.                                           *)

clientData == <<chips, view, asks, typed, pageVars, serverVars, lookup, storage, timer>>
notSessions == <<clientData, boundVars>>

sameData == <<view, serverVars, lookup, storage, sessionVars>>

(* A gesture on the page that leaves everything else as it is. *)
Here == Gesture /\ page # Nil /\ UNCHANGED <<pageVars, sameData>>

OpenFromTree(o) ==
  /\ Here /\ OpensTab(view[page], o, page) /\ UNCHANGED <<chips, asks, typed>>

(* openSqlTab and openRedisCliTab: the lowest number that is free. *)
OpenNumbered(kind) ==
  /\ Here /\ Room
  /\ LET n == CHOOSE k \in 1..(MaxTabs + 1) :
               /\ NumberedId(kind, page, k) \notin Open
               /\ \A j \in 1..(k - 1) : NumberedId(kind, page, j) \in Open
         id == NumberedId(kind, page, n)
     IN Become(Append(tabs, NewTab(kind, id, page)), id)
  /\ UNCHANGED <<chips, asks, typed>>

OpenOverviewTab ==
  /\ Here
  /\ LET id == OverviewId(page) IN
     IF id \in Open THEN Activate(id)
     ELSE Room /\ Become(Append(tabs, NewTab("overview", id, page)), id)
  /\ UNCHANGED <<chips, asks, typed>>

SetActiveTab(t) ==
  /\ Here /\ t \in ToSet(PageTabs(page)) /\ t.id # active
  /\ Activate(t.id) /\ UNCHANGED <<chips, asks, typed>>

(* openTabWithFilter, from the active tab. *)
BaseTrail ==
  IF active \in Open /\ TabOf(active).kind = "object"
  THEN Alone(TabOf(active), TabOf(active).trail).trail ELSE <<>>
OpensWithFilter(c, o, f) ==
  IF Showing(c, o, {f}) # <<>>
  THEN Activate(Head(Showing(c, o, {f})).id) /\ UNCHANGED asks
  ELSE OpensFiltered(c, o, {f}, BaseTrail)

ShownObject == {t \in ToSet(tabs) : t.id = Shown /\ t.kind = "object"}
ShownConsole == {t \in ToSet(tabs) : t.id = Shown /\ t.kind = "sql"}

(* handleNavigateToFk and handleNavigateReferencedBy of the table view. *)
NavigateToFk(o, f) ==
  /\ Here /\ \E t \in ShownObject : OpensWithFilter(t.conn, o, f)
  /\ UNCHANGED <<chips, typed>>

TabsBut(id) == Filtered(tabs, {i \in DOMAIN tabs : tabs[i].id # id})

(* goBackFromTab. *)
GoBackFromTab ==
  /\ Here
  /\ \E t \in ShownObject :
       /\ Len(t.trail) >= 2
       /\ Become(TabsBut(t.id), t.trail[Len(t.trail) - 1])
  /\ UNCHANGED <<chips, asks, typed>>

(* handleFilterChange: the data store has them, the tab keeps its own. *)
HandleFilterChange(fs) ==
  /\ Here
  /\ \E t \in ShownObject : Asked(t) # fs /\ asks' = [asks EXCEPT ![t.id] = fs]
  /\ UNCHANGED <<tabVars, chips, typed, timer>>

(* What copies the tab that is shown makes it another to the effects. *)
ShownIsCopied == ran' = IF ShownObject = {} THEN ran ELSE NeverRan

(* handleClearFilters, with clearObjectTabFilterState. *)
HandleClearFilters ==
  /\ Gesture /\ ShownIsCopied
  /\ \E t \in ShownObject :
       /\ Asked(t) # {}
       /\ asks' = [asks EXCEPT ![t.id] = {}]
       /\ Become([i \in DOMAIN tabs |->
                    IF tabs[i].id = t.id THEN [tabs[i] EXCEPT !.filter = {}, !.trail = <<t.id>>]
                    ELSE tabs[i]], active)
  /\ UNCHANGED <<chips, typed, addressVars, sameData>>

(* rebindSqlTab: a database of the same server. *)
RebindSqlTab(c) ==
  /\ Here
  /\ \E t \in ShownConsole :
       /\ c # t.conn /\ Parent[c] = Parent[t.conn]
       /\ Become([i \in DOMAIN tabs |->
                    IF tabs[i].id = t.id
                    THEN [tabs[i] EXCEPT !.conn = c, !.anchor = IF c = Page(t) THEN Nil ELSE Page(t)]
                    ELSE tabs[i]], active)
  /\ UNCHANGED <<chips, asks, typed>>

(* setEditorValue of a console. *)
TypeDraft ==
  /\ Here /\ \E t \in ShownConsole : t.id \notin typed /\ typed' = typed \cup {t.id}
  /\ timer' = TRUE /\ UNCHANGED <<tabVars, chips, asks>>

(* A run goes out, to begin a transaction or to end one (runStatements). *)
RunStatements(begins) ==
  /\ Gesture
  /\ \E t \in ShownConsole : runs' = runs \cup {[target |-> <<t.id, t.conn>>, begins |-> begins]}
  /\ UNCHANGED <<tabVars, sessions, orphans, clientData>>

(* The server has run it, wherever its tab is by now; or it did nothing.    *)
RunLands(r) ==
  /\ runs' = runs \ {r}
  /\ sessions' = IF r.begins THEN sessions \cup {r.target} ELSE sessions \ {r.target}
  /\ Parent[r.target[2]] \in stored
  /\ orphans' = IF r.begins THEN orphans \cup ({r.target} \ (Targets(tabs) \cup ending)) ELSE orphans
  /\ UNCHANGED <<tabVars, notSessions>>
RunFails(r) ==
  /\ runs' = runs \ {r}
  /\ UNCHANGED <<tabVars, sessions, orphans, notSessions>>

(* The DELETE of a session arrives, and finds one or none; or it is lost.   *)
EndLands(s) ==
  /\ ending' = ending \ {s} /\ sessions' = sessions \ {s}
  /\ UNCHANGED <<tabs, active, activeBy, runs, orphans, notSessions>>
EndIsLost(s) ==
  /\ Fault
  /\ ending' = ending \ {s} /\ orphans' = orphans \cup ({s} \cap sessions)
  /\ UNCHANGED <<tabs, active, activeBy, sessions, runs, clientData>>

(* setTreeConn: the tree of a page shows another database of its server. *)
SetTreeConn(c) ==
  /\ Gesture /\ page # Nil /\ c # view[page] /\ Parent[c] = Parent[page]
  /\ view' = [view EXCEPT ![page] = c]
  /\ UNCHANGED <<tabVars, chips, asks, typed, pageVars, serverVars, lookup, storage, timer,
                 sessionVars>>
-----------------------------------------------------------------------------
(* Closing.  The user is asked about the consoles of a closing that show a  *)
(* transaction (SqlConsole), and who refuses leaves things as they are.    *)

Closing(new, id) ==
  /\ Gesture
  /\ Become(new, id)
  /\ UNCHANGED <<asks, typed, view, serverVars, lookup, storage, sessionVars>>

Visible(t) == page # Nil /\ t \in ToSet(PageTabs(page))
Place(ts, t) == CHOOSE i \in DOMAIN ts : ts[i].id = t.id /\ \A j \in 1..(i - 1) : ts[j].id # t.id

(* closeTab: the trails that lead through the tab start after it. *)
Cut(t, id) ==
  IF t.kind # "object" \/ id \notin ToSet(t.trail) THEN t
  ELSE LET i == CHOOSE k \in DOMAIN t.trail : t.trail[k] = id /\ \A j \in 1..(k - 1) : t.trail[j] # id
       IN Alone(t, SubSeq(t.trail, i + 1, Len(t.trail)))
CloseTab(t) ==
  /\ Visible(t)
  /\ LET rest == TabsBut(t.id)
         next == IF rest = <<>> THEN Nil
                 ELSE IF Place(tabs, t) <= Len(rest) THEN rest[Place(tabs, t)].id ELSE Last(rest).id
     IN Closing([i \in DOMAIN rest |-> Cut(rest[i], t.id)], IF active = t.id THEN next ELSE active)
  /\ UNCHANGED <<chips, pageVars>>

(* closeTabsExcept, from the menu of a tab: it closes the tabs of every    *)
(* page.                                                                   *)
CloseOthers(t) ==
  /\ Visible(t) /\ Len(PageTabs(page)) >= 2
  /\ Closing(Kept(Filtered(tabs, {i \in DOMAIN tabs : tabs[i].id = t.id})), t.id)
  /\ ShownIsCopied /\ UNCHANGED <<chips, addressVars>>
CloseToTheRight(t) ==
  /\ Visible(t) /\ Place(PageTabs(page), t) < Len(PageTabs(page))
  /\ Closing(Kept(Filtered(tabs, {i \in DOMAIN tabs : i < Place(tabs, t) \/ tabs[i].id = t.id})), t.id)
  /\ ShownIsCopied /\ UNCHANGED <<chips, addressVars>>
CloseAllTabs ==
  /\ page # Nil /\ PageTabs(page) # <<>>
  /\ Closing(<<>>, Nil)
  /\ UNCHANGED <<chips, pageVars>>

Unmounts == synced' = Unread /\ ran' = NeverRan

(* The X of a chip: closeConnection, and the page moves on to a chip that  *)
(* is left, or to the list.                                                *)
CloseConnection(c) ==
  /\ page # Nil /\ c \in chips /\ Parent[c] \in list
  /\ LET rest == Filtered(tabs, {i \in DOMAIN tabs : Page(tabs[i]) # c}) IN
     /\ Gesture
     /\ tabs' = rest /\ active' = IF active \in IdsOf(rest) THEN active ELSE Nil
     /\ activeBy' = [activeBy EXCEPT ![c] = Nil]
     /\ EndSessions(rest) /\ timer' = TRUE
     /\ chips' = chips \ {c}
  /\ IF c # page THEN UNCHANGED pageVars
     ELSE /\ page' \in (IF chips = {c} THEN {Nil} ELSE chips \ {c})
          /\ url' = Nil /\ given' = FALSE
          /\ IF page' = Nil THEN Unmounts ELSE UNCHANGED <<synced, ran>>
  /\ UNCHANGED <<asks, typed, view, serverVars, lookup, storage, sessionVars>>
-----------------------------------------------------------------------------
(* Going from page to page.                                                *)

(* findConnection: what a route, a chip or a card can lead to. *)
Known == {c \in Ids : Parent[c] \in list}

GoesTo(c) ==
  /\ page' = c /\ url' = Nil /\ given' = (c = page) /\ UNCHANGED <<synced, ran>>
  /\ chips' = Visited(chips, c)

elsewhere == <<tabVars, asks, typed, view, serverVars, lookup, storage, sessionVars>>

Navigate(c) ==
  /\ Gesture
  /\ c \in list \cup (IF page = Nil THEN {} ELSE chips \cap Known) /\ c # page
  /\ GoesTo(c) /\ timer' = (timer \/ chips' # chips)
  /\ UNCHANGED elsewhere

GoHome ==
  /\ Gesture /\ page # Nil
  /\ page' = Nil /\ url' = Nil /\ given' = FALSE /\ Unmounts
  /\ UNCHANGED <<chips, timer, elsewhere>>

(* Back or Forward of the browser: an address the page has to consume. *)
PopState(c, link) ==
  /\ Gesture /\ <<c, link>> # <<page, url>>
  /\ page' = c /\ url' = link /\ given' = (link # Nil) /\ UNCHANGED <<synced, ran>>
  /\ chips' = Visited(chips, c) /\ timer' = (timer \/ chips' # chips)
  /\ UNCHANGED elsewhere

(* useOpenLink, to the end in postgres and, once the type is known, to the *)
(* end in redis.                                                           *)
OpenLink(c, o, f) ==
  /\ Gesture /\ page # Nil /\ c \in list
  /\ OpensWithFilter(c, o, f) /\ GoesTo(c)
  /\ UNCHANGED <<typed, view, serverVars, lookup, storage, sessionVars>>
LookUp(c) ==
  /\ Gesture /\ page # Nil /\ lookup = Nil /\ c \in list /\ lookup' = c
  /\ UNCHANGED <<tabVars, chips, asks, typed, pageVars, view, serverVars, storage, timer, sessionVars>>
LookupLands(o) ==
  /\ lookup # Nil /\ lookup' = Nil
  /\ OpensTab(lookup, o, lookup) /\ GoesTo(lookup)
  /\ UNCHANGED <<asks, typed, view, serverVars, storage, boundVars, sessionVars>>
LookupFails ==
  /\ lookup # Nil /\ lookup' = Nil /\ Fault
  /\ UNCHANGED <<tabVars, chips, view, asks, typed, pageVars, serverVars, storage, timer, sessionVars>>

(* openLinkedTab: what becomes of the tabs, and which is active. *)
Linked(c, link) ==
  LET id == ObjectId(c, link.object, link.filters)
      found == IF link.filters = {} THEN SelectSeq(tabs, LAMBDA t : t.id = id)
               ELSE Showing(c, link.object, link.filters)
  IN IF found # <<>> THEN [tabs |-> tabs, id |-> Head(found).id, new |-> FALSE]
     ELSE [tabs |-> Append(tabs, ObjectTab(c, Nil, link.object, link.filters, <<id>>)),
           id |-> id, new |-> TRUE]

(* The effects of DataViewPage after a render, those whose dependencies it  *)
(* changed, in their order: an address that came from outside is opened, or *)
(* what is shown mirrored; then the tab the render resolved is made the     *)
(* active one.                                                              *)
Settles(memory, ts, id) ==
  LET settles == SettleDue /\ Shown \notin {Nil, active} IN
  /\ tabs' = ts /\ EndSessions(ts) /\ timer' = TRUE
  /\ active' = IF settles THEN Shown ELSE id
  /\ activeBy' = IF settles THEN [memory EXCEPT ![TabOf(Shown).conn] = Shown] ELSE memory

Consume ==
  /\ MirrorDue /\ url # synced /\ url # Nil
  /\ LET link == Linked(page, url) IN
     /\ Settles(Remembered(activeBy, link.tabs, link.id), link.tabs, link.id)
     /\ asks' = IF link.new /\ url.filters # {} THEN [asks EXCEPT ![link.id] = url.filters] ELSE asks
  /\ synced' = url /\ UNCHANGED <<url, given>>

Mirror ==
  /\ MirrorDue => url = synced \/ url = Nil
  /\ IF MirrorDue
     THEN url' = Outgoing /\ synced' = Outgoing /\ given' = FALSE
     ELSE UNCHANGED <<url, synced, given>>
  /\ IF SettleDue /\ Shown \notin {Nil, active}
     THEN Settles(activeBy, tabs, active) ELSE UNCHANGED <<tabVars, timer>>
  /\ UNCHANGED asks

EffectsRun ==
  /\ page # Nil /\ (MirrorDue \/ SettleDue)
  /\ ran' = [mirror |-> MirrorDeps, settle |-> SettleDeps]
PageEffects ==
  /\ EffectsRun
  /\ Consume \/ Mirror
  /\ UNCHANGED <<chips, view, typed, page, serverVars, lookup, storage,
                 boundVars, sessionVars>>
-----------------------------------------------------------------------------
(* The list of connections.                                                *)

clientOnly == <<tabVars, chips, view, asks, typed, pageVars, lookup, storage, timer, sessionVars>>

(* The pages fetch a list they do not have; after an error the user may. *)
FetchConnections ==
  /\ fetching = Nil /\ list = {} /\ ~loaded
  /\ fetching' = Reading /\ failed' = FALSE
  /\ UNCHANGED <<stored, list, loaded, removing, unsynced, made, clientOnly, boundVars>>
RetryConnections ==
  /\ Gesture /\ page = Nil /\ failed /\ fetching = Nil
  /\ fetching' = Reading /\ failed' = FALSE /\ unsynced' = TRUE
  /\ UNCHANGED <<stored, list, loaded, removing, made, clientOnly>>
ListIsRead ==
  /\ fetching = Reading /\ fetching' = stored
  /\ UNCHANGED <<stored, list, loaded, failed, removing, unsynced, made, clientOnly, boundVars>>
ListLands ==
  /\ fetching \notin {Nil, Reading}
  /\ list' = fetching /\ loaded' = TRUE /\ fetching' = Nil /\ unsynced' = TRUE
  /\ UNCHANGED <<stored, failed, removing, made, clientOnly, boundVars>>
ListFails ==
  /\ fetching # Nil /\ Fault
  /\ fetching' = Nil /\ failed' = TRUE /\ loaded' = TRUE /\ unsynced' = TRUE
  /\ UNCHANGED <<stored, list, removing, made, clientOnly>>

(* create, from the wizard, which then goes to the connection's page. *)
CreateConnection(c) ==
  /\ Gesture /\ page = Nil /\ c \in NewConns \ made
  /\ stored' = stored \cup {c} /\ list' = list \cup {c} /\ made' = made \cup {c}
  /\ unsynced' = TRUE
  /\ GoesTo(c) /\ timer' = TRUE
  /\ UNCHANGED <<loaded, failed, fetching, removing, tabVars, asks, typed, view, lookup, storage,
                 sessionVars>>

(* deleteConnectionEverywhere, from a card of the list. *)
RemoveConnection(c) ==
  /\ Gesture /\ page = Nil /\ c \in list /\ removing.phase = "idle"
  /\ removing' = [conn |-> c, phase |-> "sent"]
  /\ UNCHANGED <<pageVars, stored, list, loaded, failed, fetching, unsynced, made,
                 tabVars, chips, view, asks, typed, lookup, storage, timer, sessionVars>>
ServerRemoves ==
  /\ removing.phase = "sent"
  /\ removing' = [removing EXCEPT !.phase = "done"] /\ stored' = stored \ {removing.conn}
  /\ sessions' = {s \in sessions : Parent[s[2]] # removing.conn}
  /\ UNCHANGED <<list, loaded, failed, fetching, unsynced, made, runs, orphans,
                 tabVars, chips, view, asks, typed, pageVars, lookup, storage, timer, boundVars>>
RemovalLands ==
  /\ removing.phase = "done"
  /\ removing' = [conn |-> Nil, phase |-> "idle"]
  /\ list' = list \ {removing.conn} /\ unsynced' = TRUE
  /\ PurgeConnection(removing.conn)
  /\ UNCHANGED <<stored, loaded, failed, fetching, made, asks, typed, pageVars, lookup,
                 storage, boundVars, sessionVars>>
RemovalFails ==
  /\ removing.phase # "idle" /\ Fault
  /\ removing' = [conn |-> Nil, phase |-> "idle"]
  /\ UNCHANGED <<stored, list, loaded, failed, fetching, unsynced, made, clientOnly>>

(* The effect of App: syncWorkspaceWithConnections. *)
SyncWorkspace ==
  /\ unsynced /\ unsynced' = FALSE
  /\ IF MayPrune THEN PruneMissingConnections ELSE UNCHANGED <<tabVars, chips, view, timer>>
  /\ UNCHANGED <<stored, list, loaded, failed, fetching, removing, made, asks, typed,
                 pageVars, lookup, storage, boundVars, sessionVars>>
-----------------------------------------------------------------------------
(* Saving and loading.                                                     *)

(* The debounce runs out: schedulePersist. *)
Persist ==
  /\ timer /\ timer' = FALSE
  /\ \/ storage' = Snapshot /\ UNCHANGED boundVars
     \/ Fault /\ UNCHANGED storage
  /\ UNCHANGED <<tabVars, chips, view, asks, typed, pageVars, serverVars, lookup, sessionVars>>

(* A page load: an address typed or pasted, or the same again.  The page   *)
(* that goes is hidden first, and flushPersist saves.                      *)
Arrive(c, link) ==
  /\ Gesture
  /\ page' = c /\ url' = link /\ given' = (link # Nil)
  /\ storage' = Snapshot /\ Loads(Snapshot)
  /\ UNCHANGED <<sessions, runs, ending, stored, made>>

(* The browser dies: what was not saved is gone. *)
Crash ==
  /\ Fault /\ UNCHANGED <<page, url, storage>> /\ given' = (url # Nil) /\ Loads(storage)
  /\ UNCHANGED <<sessions, runs, ending, stored, made>>
-----------------------------------------------------------------------------
TabGesture ==
  \/ \E o \in Objects : OpenFromTree(o)
  \/ \E kind \in Consoles : OpenNumbered(kind)
  \/ OpenOverviewTab \/ GoBackFromTab \/ HandleClearFilters
  \/ \E o \in Objects, f \in Filters : NavigateToFk(o, f)
  \/ \E fs \in FilterSets : HandleFilterChange(fs)
  \/ \E c \in Ids : RebindSqlTab(c) \/ SetTreeConn(c)
  \/ TypeDraft \/ \E begins \in BOOLEAN : RunStatements(begins)
  \/ \E t \in ToSet(tabs) : SetActiveTab(t) \/ CloseTab(t) \/ CloseOthers(t) \/ CloseToTheRight(t)
  \/ CloseAllTabs \/ \E c \in chips : CloseConnection(c)

PageGesture ==
  \/ \E c \in Ids : Navigate(c) \/ LookUp(c)
  \/ \E c \in Ids, o \in Objects, f \in Filters : OpenLink(c, o, f)
  \/ GoHome
  \/ \E c \in Stored : CreateConnection(c) \/ RemoveConnection(c)
  \/ \E c \in (Stored \ NewConns) \cup made, link \in DeepLinks \cup {Nil} : Arrive(c, link) \/ PopState(c, link)
  \/ RetryConnections

Happens ==
  \/ FetchConnections \/ ListIsRead \/ ListLands \/ ListFails
  \/ ServerRemoves \/ RemovalLands \/ RemovalFails
  \/ \E o \in Objects : LookupLands(o)
  \/ \E r \in runs : RunLands(r) \/ RunFails(r)
  \/ \E s \in ending : EndLands(s) \/ EndIsLost(s)
  \/ LookupFails \/ Persist \/ Crash

WorkspaceNext == TabGesture \/ PageGesture \/ Happens \/ PageEffects \/ SyncWorkspace

WorkspaceSpec == WorkspaceInit /\ [][WorkspaceNext]_workspaceVars

(* React runs the effects of a render: PageEffects is the step that does. *)
FairSpec == WorkspaceSpec /\ WF_ran(EffectsRun)
-----------------------------------------------------------------------------
WorkspaceTypeOK ==
  /\ \A t \in ToSet(tabs) : t.conn \in Ids /\ t.anchor \in Ids \cup {Nil} /\ t.filter \in FilterSets
  /\ activeBy \in [Ids -> {Nil} \cup {activeBy[c] : c \in Ids}]
  /\ chips \subseteq Ids /\ view \in [Ids -> Ids] /\ asks \in [AllIds -> {Nil} \cup FilterSets]
  /\ page \in Ids \cup {Nil} /\ url \in DeepLinks \cup {Nil} /\ synced \in DeepLinks \cup {Nil, Unread}
  /\ list \subseteq stored \cup Stored /\ lookup \in Ids \cup {Nil}
  /\ {loaded, failed, unsynced, timer} \subseteq BOOLEAN

(* A session with a transaction has its console: however a tab goes (its X, *)
(* the menus, a chip, a deletion, a prune) or moves to another database,    *)
(* the session it held, or that a run of it is yet to open, has its DELETE  *)
(* on the way.  Three things leave a session behind: a crash that loses the *)
(* tab, a DELETE that is lost, and a run that the DELETE overtook.          *)
SessionsHaveTheirTab == sessions \subseteq Targets(tabs) \cup ending \cup orphans

(* A deletion leaves nothing that would ask the server about the           *)
(* connection: no tab that lives on it, reads from it or from a database   *)
(* of it, no chip, no tree that shows it, no memory of what was active.    *)
LeavesNoTrace(c) ==
  /\ \A t \in ToSet(tabs) : Parent[t.conn] # c /\ Parent[Page(t)] # c
  /\ \A d \in Ids :
       /\ Parent[d] = c => d \notin chips /\ view[d] = d /\ activeBy[d] = Nil
       /\ Parent[d] # c => Parent[view[d]] # c
DeletionLeavesNoTrace == [][\A c \in Stored : RemovalLands /\ c = removing.conn => LeavesNoTrace(c)']_workspaceVars

(* The page comes to rest on a tab of its own, with that tab's address in   *)
(* the bar.  An address that came from outside stays where it made no tab   *)
(* but the one that was on screen be shown: no dependency of the mirror     *)
(* changed.                                                                 *)
Settled ==
  page # Nil /\ PageTabs(page) # <<>> =>
    active \in IdsOf(PageTabs(page)) /\ (given \/ url = Outgoing)
PageSettles == []<>Settled

(* An address that came from outside is what the page shows. *)
LinkIsShown == [][PageEffects /\ url # synced /\ url # Nil => Outgoing' = url]_workspaceVars
=============================================================================

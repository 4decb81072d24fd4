# Kizuna in TLA+

Kizuna is a web client for Postgres, Redis and Kafka: a Go server that keeps connections to
the databases and a React front end that talks to it over HTTP. This directory holds TLA+
models of the parts in which order, timing and failure decide whether what a user sees or does
is right, the TLC runs that check them on small instances, and TLAPS proofs of what holds on
every instance.

Paths below are relative to `src/`; `stores/`, `lib/`, `components/` and `pages/` are those of
`src/frontend/src`. `PROJECT.json` lists every component with its sources and status, every
hazard with the line where it bites, and the code each definition translates.

## 1. The system

    browser:  pages and components  --gestures-->  stores (Zustand)  --fetch-->  server
              effects follow the stores               |
                                             localStorage (tabs, drafts, health)

    server:   internal/api (handlers)
                 |            \
         internal/config    internal/connector (manager)
         config.json         |        |         |
                           postgres  redis    kafka
                           pool, console sessions

A handler asks the manager for a connector, which opens it with settings it reads from the
configuration; an edit or a delete changes the configuration first and then asks the manager to
remove the connector and those of its runtime databases. In the browser, a component keeps the
state of one screen, a store what outlives it. A gesture sends a request; its answer is worked
into whatever the store and the screen hold by the time it arrives. Most of what can go wrong
there is about that last half sentence.

| Component | State | Operations | What is hard | What makes it correct |
|---|---|---|---|---|
| Connection manager, `internal/connector/manager.go` | open connectors, calls that are opening one, cooldowns; one RW lock | get, check, remove, close all | a dial runs outside the lock, between reading the settings and publishing the connector; `Close` runs under it | one dial per key; no connector is lost; nobody is given settings replaced before he asked; nobody waits for ever |
| Console sessions, `internal/connector/postgres/session.go` | per console tab: its turn, its pinned connection, its idle timer | run, read the state, end, expire, close | timers, ends, runs, cancels and the pool's `Close` in any order; a bounded pool | a transaction rolled back while idle is told before anything is autocommitted; a late timer spares a run |
| Configuration store, `internal/config`, `handlers/{connections,folders,links}.go` | connections, folders, links; `config.json` | create, update, delete, arrange; load, mend, save | change and save are two critical sections; the file is written in place | the file ends as the memory is; answers last; folders stay a forest |
| Kafka reader, `internal/connector/kafka/messages.go` | nothing between requests: the cursor travels through the browser | resolve bounds, consume windows, select a page, build the cursor | records arrive, age out, are compacted, topics are recreated; reads run out of time | paging never skips; "no more" is true; paging ends |
| Client SQL console, `stores/sqlConsole.ts`, `components/SqlConsole` | runs, results, transaction bar, history, editor | run, stop, explain, read the transaction, end it, walk the history | answers of superseded runs and reads | a tab belongs to its newest run; the bar tells the truth in the end |
| Client Kafka store, `stores/kafka.ts`, `components/kafka` | the one list of a topic tab | pages, Load older, search, Search all, anchors, filters | all of them write the same list | no row of an older search; an export that says "complete" is |
| Client workspace, `stores/workspace.ts`, `pages/DataViewPage.tsx`, `lib/workspacePersistence.ts` | tabs, chips, the active tab, the address, the snapshot | open, follow, rebind, close, restore, purge, prune | effects that mirror each other; deletions here and elsewhere; reloads | a session has its tab, or its end is on the way; a deletion leaves no trace; a page comes to rest |
| Client object tree, same store, `components/ObjectTree.tsx`, `Sidebar.tsx` | cached levels, cursor, key filter, node, visible schemas | load, refresh, scan on, filter, open, change | overlapping answers | the tree answers its filter; a finished scan is complete |
| Client tables, `stores/data.ts`, `components/PgTableView.tsx`, `DataTable` | rows, options, selection, drafts | page, sort, filter, edit, save, delete, add | joined and superseded reads; one view for all tabs | what is shown is what the server holds |
| Redis client, `components/RedisKeyView.tsx`, `components/redis` | keys on screen, editors, dialogs, bulk delete, console | edit, page, rename, copy, delete, run commands | edits by index; handlers that end over another key | the page is the server's; a removal hits its element; danger asks first |
| Links, `lib/links.ts`, `stores/links.ts`, `components/links` | links between objects | follow, menus, create, change, remove | patterns taken apart and put together; overlapping answers | there and back; the list is the server's |
| Connection list, `pages/ConnectionListPage.tsx`, `stores/{folders,connectionHealth,connections}.ts`, `components/folders` | folders, positions, health and its cache | move, order, rename, remove; test, poll | the client redoes what the server did; passes, single tests and prunes overlap | the list is the server's; nothing vanishes; opening it tests all |

The rest, with the reason why it is left out, is in section 8.

## 2. Modules

| Module | What it is | Run with |
|---|---|---|
| `ConnectorCache` | abstract specification: what the manager promises a request | |
| `ConnectionManager` | `manager.go` with the handlers that drive it | `MCConnectionManager` |
| `ConnectionManagerRefinement` | the mapping under which the second implements the first | |
| `ConsoleSession` | `postgres/session.go`, and the pool as far as it touches it | `MCConsoleSession` |
| `FolderTree` | the functions of `config/folders.go` on a tree of folders | |
| `ConfigStore` | the store, its handlers and `config.json`, over `FolderTree` | `MCConfigStore` |
| `KafkaReader` | one tab paging through a topic, with the topic's own life | `MCKafkaReader` |
| `SqlConsole` | the console in the browser | `MCSqlConsole` |
| `KafkaClient` | a topic tab in the browser | `MCKafkaClient` |
| `Workspace` | tabs, pages, address, snapshot, list of connections | `MCWorkspace` |
| `ObjectTree` | the tree of one connection, its filters and refreshes | `MCObjectTree` |
| `Tables` | the tables on screen | `MCTables` |
| `ConnectionFolders` | the folders of the connection list, over `FolderTree` | `MCTables` |
| `ConnectionHealth` | the health of connections, its cache and its passes | `MCTables` |
| `RedisKeys` | the keys on screen and what edits them | `MCRedis` |
| `RedisCli` | the Redis console | `MCRedis` |
| `Links` | links between objects, seen from a Redis key | `MCRedis` |
| `Subsequence` | `Array.prototype.filter`: what is left of a sequence at some positions | with its users |
| `SubsequenceProofs` | what `Filtered` keeps, and where | |
| `ConnectionManagerProofs` | theorems about `ConnectionManager` and that it implements `ConnectorCache` | |
| `ConfigStoreProofs` | theorems about connections and folders: `FolderTree`, `ConfigStore`, `ConnectionFolders`, `Workspace` | |
| `ConsoleProofs` | theorems about consoles, on the server (`ConsoleSession`) and in the browser (`SqlConsole`) | |
| `KafkaProofs` | theorems about topics, on the server (`KafkaReader`) and in the browser (`KafkaClient`) | |
| `ObjectTreeProofs` | theorems about what is beside the page: `ConnectionHealth` and `ObjectTree` | |
| `TablesProofs` | theorems about `Tables` | |
| `RedisKeysProofs` | theorems about `RedisKeys`, `RedisCli` and `Links` | |

`MCTables` and `MCRedis` put modules side by side that share no state: a behaviour chooses one
of them and stays with it, so that the run checks each on its own instance.

### Conventions

A request under way is a record in a set (or a slot); serving it and the landing of its answer
are two steps, so that everything may happen between them and answers overtake each other. What
the server holds is a variable of its own, and "the client shows the server" compares the two.
An await in the code is a boundary between two actions; code between two awaits is one action,
with the React effects that follow it where they are synchronous with the render. Variables
marked *history* appear in no guard; they say what a property has to leave out. Names follow the
source wherever two modules do not need the same one.

### Server

**ConnectionManager.** A request is one goroutine; `pc` is where it stands between two critical
sections. A key is a stored connection or a runtime database. A connector and a `connectorCall`
are named by the request that opens them, settings by the request that stored them. `m.mu` is a
variable because `Close` runs under it; all other critical sections are one step. Update and
Delete write the store first and then remove: take the lock, close connector after connector,
clear failures, detach calls in flight. `UpdateVisibleSchemas` (operation `schemas`) reads the
whole connection, stores it again later (`WriteBack`) and removes nothing, so it may restore
settings that were replaced in between; the visible schemas themselves are not told apart from
the rest. A connector in `Draining` returns from `Close` when
nobody uses it (pgxpool). Left out: who the client is, what a dial sends, lastValidatedAt.

**ConsoleSession.** A session object is named by the run that created it, so two objects of one
tab are different. `turn` is the session's lock, `conn` its connection with the server's view of
the transaction, `gen`, `armed` and `fired` the idle timer: a timer that went off waits in
`fired` for the lock, which is where `idleGen` matters. A statement is its effect on the
transaction. Close takes the sessions out of the map, ends them one after the other, then waits
for the pool; requests that hold the connector go on meanwhile.

**ConfigStore, FolderTree.** The process loads any file a hand may have written, mends folder
after folder in any order, serves, and stops at any moment. A handler changes the memory in one
step and saves in two, `SaveStart` (truncated) and `SaveEnd`. Update works on a copy taken
earlier; a link is validated in two looks. Left out: names and positions of folders (the browser
module has the positions), body checks, the first creation of the encryption key.

**KafkaReader.** Each page is one `GetData`: the two listings side by side, rounds of
`consumeWindows`, then the answer, which selects the page and builds the cursor.
`consumeWindows` finishes partition after partition and ends in one of the ways the code tells
apart: all landed, page satisfied, budget spent, nothing landed, fetch failed, topic gone.
Meanwhile records arrive, age out and are compacted, the topic is recreated, and another tab may
renew the topic id. Rows of partitions are merged by timestamps, which are arbitrary. Left out:
match filters, decoding, seeking by time.

### Browser

**SqlConsole.** A run is sent, served or lost, answered, and settles its history when it was
stopped. The server's session of a tab is a queue and the state of its transaction
(`ConsoleSession` has the rest). `controller` is `sqlRunControllers`, which decides whose answer
may be shown. The transaction bar reads beside the runs; the history panel lists, filters,
clears, and the editor walks through it: a step that changes its text is reported back as typed
(`Synced`), unless the tab had left the screen while the step waited for its list. Reload and expiry happen at any moment.

**KafkaClient.** The tab has one list; a page replaces it, Load older extends it, a search fills
it step by step, and Search all loops. `controller` is the scan that owns the tab. The reader is
abstract: it answers some part of the window next to the cursor, and says whether there is more.

**Workspace.** A tab is its kind, connection, anchor (the page it was opened from) and object
with its filter. `PageEffects` are the effects of `DataViewPage` that settle the active tab,
mirror it into the address and consume an address that arrived. They run when a dependency has
changed since they ran last (`ran`, `MirrorDeps`, `SettleDeps`), and gestures find them run. A
run of a console is under way in `runs` and opens or ends its session when it lands; what ends
with a tab is a DELETE under way in `ending`, which lands at any time or is lost.
`SyncWorkspace` is the prune of `App`. The list of connections is fetched, fails, is retried and
overtaken by creations. `Snapshot` and `Loads` are what is saved and restored; a crash loses what
the debounce has not written.

**ObjectTree.** Levels with their items, flags and errors, requests with the stamp that says
which is the newest, refreshes that go from the root through the open schemas, a scan continued
by its cursor, filters, nodes, a change of the server that a refresh follows, and the filter of
visible schemas, which is saved and comes back through the connection.

**Tables.** `data` is one entry of `useDataStore` per tab: rows, options, flags. `calls` are its
reads: one that asks what a running one asks joins it, a newer one supersedes it. `jobs` are
handlers of the view with their stages: saving in one request or row by row, deleting over the
selection, adding a row, changing a column, and re-reading afterwards. `view` is the one
`PgTableView`, with the filter's debounce, the selection with its snapshots, and the dialogs.

**RedisKeys, RedisCli.** The same store for keys; an editor per type, of which the list is
edited by index, with a draft that stays with the index over reloads; the server answers type
and expiry from a cache, so `remembered` holds every pair a key has had and a read goes by any
of them; rename, copy, expiry, delete, creation, keys by name, and the bulk delete with
its preview. The console splits its text one way (statements) and looks for danger another way
(lines), asks, runs and lists earlier commands.

**Links.** Keys, patterns and values are sequences of symbols, so that prefixes and suffixes
overlap and captures are computed as the code does. The menus, "Show all" and the pickers offer
what the groups hold; following asks the server for the type of a key where the code does.

**ConnectionFolders, ConnectionHealth.** A board is the folder tree with the positions of
folders and connections; server and client make the same moves on their own boards. The health
module has the passes over the list with their workers, the cache in the browser's storage, the
prune, the page's own test, and a list that is fetched, fails and is retried.

## 3. Runs

| Run | What it shows | Instance |
|---|---|---|
| `ConnectionManager` | `SingleFlight`, `NoLeak`, and that it implements `ConnectorCache` (`ServesLikeTheAbstractCache`) | three requests: an owner, a waiter or a later request, and an edit, which is what each hazard takes; two connections, one with a runtime database |
| `ConnectionManagerLive` | `EveryRequestFinishes` | three requests on one draining connection: a user that keeps `Close` waiting, the removal, one queued behind its lock |
| `ConsoleSession` | `PinnedIsBounded`, `ExpiryIsTold`, `IdleClockSparesRuns`, `EveryRequestFinishes` | three requests, two tabs, a pool of one; a run of one statement, since runs may follow each other |
| `ConfigStore` | `FoldersAreAForest`, `SettledFileIsMemory`, `AnswersAreDurable` | two handlers, two folders, one connection, one link; restarts without bound |
| `KafkaReader` | `NeverSkips`, `ExhaustedMeansAll`, `PagingEnds` | two partitions of up to three offsets, any of them without a record; pages of two rows, up to three rounds, so that rows of one round are trimmed by the next; browsing both ways, a scan each way; one change of the topic and one failed or late read |
| `SqlConsole` | `NewestRunOwnsTheTab`, `BarSettles` | one tab, two runs, two reads of the transaction, three lists, two faults: a run that replaces another while both a read and a list of the first are under way |
| `KafkaClient` | `OldSearchLeavesNoRows`, `ExportIsHonest`, `SpinnersStop` | three messages, two partitions, pages of two, a cap of two matches: every boundary of page, window and cap is met; three requests at once |
| `KafkaClientContention` | `SearchKeepsItsMatches` is violated, section 6 | the same |
| `Workspace` | `SessionsHaveTheirTab`, `DeletionLeavesNoTrace`, `PageSettles` | two connections, one to be made, a runtime database; an earlier visit with a filtered table and a console on another page; two gestures on top, one fault |
| `ObjectTree` | `TreeAnswersItsFilter`, `FinishedScanIsComplete`, `OpenSchemasAreFresh`, `SpinnersStop` | two schemas with a table; three keys on two masters, one of which comes and goes; three gestures, two refreshes or scans at a time |
| `Tables` | `TableShowsTheServer`, `CoveredWhileWriting`; `FoldersShowTheServer`, `NothingVanishes`; `OpeningTestsAll`, `CacheOutlivesFailures` | two tables of two or three rows on pages of one or two; two folders and two connections, two requests at a time; two connections, or one and one to be made, a worker, an outage |
| `Redis` | `KeyShowsTheServer`, `RemovalsHitTheirElement`, `GoneKeysHaveNoTab`; `DangerAsksFirst`; `ThereAndBack`, `LinksShowTheServer` | a list of two pages beside a hash, a stream or nothing, three gestures; two consoles, five inputs; three keys, four sets of links, three clicks |

Bounds are on what the user and the outside do, never on what the program does in answer; the
`Max...` constants name them. Two overlapping requests, and a third gesture that changes what
they were asked for, are what each hazard of the browser takes; the sizes are the smallest at
which a page is followed by another, a selection spans pages, a pattern's ends overlap.
Each property was seen to fail under a plausible bug in the code (`mutants` in `PROJECT.json`).

`TypeOK` of each module is the type invariant (`SessionTypeOK` in `ConsoleSession`). It was
model-checked while the models were written, and is proved for the four modules of the server;
the other proofs begin with the shapes of the state they need. The runs spend their time on the
other properties.
Symmetry is used in safety runs only.

Every run sets `CHECK_DEADLOCK FALSE`: every system here may rightly stop. Requests are a finite
set and each runs once; a user may do nothing any more, and gestures are bounded; a process
whose torn `config.json` does not parse stays down. That nobody is stuck on the way is what the
liveness properties say instead.

## 4. Fairness

* `ConnectionManager`: weak fairness of each request's own next step: goroutines are scheduled,
  Go's mutex hands over to whoever waits longest, a dial ends within its timeout, a statement
  that borrows a connection ends. Beginning a request, giving up a wait and the end of a
  cooldown are not fair.
* `ConsoleSession`: in addition the timers, which the Go runtime fires. Giving up is not fair:
  the property does not rest on clients that lose patience.
* `KafkaReader`: the reader's steps together; brokers answer, and what they do not answer ends
  with the read budget. Changes of the topic and failures are not fair, and bounded: a log that
  grows for ever need not have an end.
* `KafkaClient`, `ObjectTree`: requests are answered or their deadline passes (every fetch has
  one), and handlers run. `Workspace`: React runs effects whose dependencies changed (`EffectsRun`), and no others. Gestures are never fair.

The other runs check safety only; "settles" there means that nothing is under way.

## 5. Proofs

TLAPS proves, for every value of the constants under the named assumptions:

* `ConnectionManagerProofs`: the type invariant, `SingleFlight`, `NoLeak`, `CacheFollowsConfig`,
  `FailureFollowsConfig`, `NoStaleAnswer` and the action property `CheckSparesOthers`, from
  `ManagerAssumption`. No invariant is inductive alone. The strengthening ties a request's place
  to its call (`SingleFlight` needs that a call that is opening is either registered or
  removed), a connector's status to who may still hold it (`NoLeak`), and the version of a call
  to the settings written since (`CacheFollowsConfig` needs that only a pending edit can make
  them differ, and that its removal, under the lock to the end, catches both the cached
  connector and the call in flight). `NoStaleAnswer` then follows because a retired version is
  current again only when a write-back of `UpdateVisibleSchemas` restores it, and is otherwise
  never carried by a connector or a call that may still be handed to a request that began
  afterwards. What such a write-back takes out of the store is `displaced` until the next
  removal: the connectors it was opened with stay, and the theorems name them.
  `Refinement` shows step by step that the manager implements `ConnectorCache`: `Begin` is
  `Ask`, `WriteConfig` is `Edit`, `WriteBack` is `PutBack`, `RemoveFinish` is `Answer`, the steps that give a request its
  connector are `Serve`, all others stutter.
* `ConfigStoreProofs`: the type invariant, `FoldersAreAForest` for any number of folders (a
  lemma for each operation of `FolderTree`: a set of folders closed under "parent of", which is
  what a loop is, cannot come about), `MendingSparesTheTree`, `SettledFileIsMemory` (while a save
  is under way the memory does not change, so all saves under way carry the same data) and
  `AnswersAreDurable`.
* `ConfigStoreProofs`, from `ConnectionFoldersAssumption`: `FoldersShowTheServer` and
  `NothingVanishes`, for any boards. The lists of the browser are a moment of the server's past:
  there is a history of the server's boards since the answer that landed last, each made from
  the one before by the change of a request whose answer is still to land (`Story`). Landing the
  oldest answer is then one step of that history, since client and server work a change into a
  board alike (`Applied`), and with nothing to land the history is one board long. Every board of
  it is a forest, in which a connection's folder exists, and from that each folder that a card or
  a folder below it keeps is reached from the top.
* `ConfigStoreProofs`, from `WorkspaceAssumption`: `SessionsHaveTheirTab` and the action property
  `DeletionLeavesNoTrace`, for any connections with their runtime databases, tabs, faults and
  reloads. All that a step writes is a place (`PlacesInv`): tabs of known kinds, pages, chips,
  trees and the stored snapshot name connections there may be. `Purge` takes a set of connections
  that holds the runtime databases of each of its members out of all of them at once, and sends
  an end for the sessions of the tabs it takes; what survives is about other connections
  (`PurgeKeeps`). A session is its tab's, or an end of it is under way, or it was left behind by a
  crash, a lost end, or a run that landed after the end (`orphans`).

* `ConsoleProofs`, from `SessionAssumption`: the type invariant, `PinnedIsBounded`,
  `EndedIsOver`, `ExpiryIsTold` and the action property `IdleClockSparesRuns`, for any number of
  tabs, requests and connections. The strengthening says where a request can stand with which
  session (`RequestInv`, `CloseInv`), that a turn and its holder name each other (`TurnInv`), what
  a connection may be while a run holds the turn and between runs (`ConnInv`), that a timer of
  the session's present generation was started after its last run and only while nobody holds
  the turn (`TimerInv`, which is what `idleGen` is for), that somebody can still end a session
  that holds a connection (`ReachInv`), and that no run has the turn of a tab that is still to
  be told of an expiry (`OwedInv`).
* `KafkaProofs`, from `ReaderAssumption`: the type invariant, `NeverSkips` and
  `ExhaustedMeansAll`, for any partitions, page size and number of rounds, whatever fails: reads,
  and listings of some or all partitions. A partition whose end some page could not list is
  pinned at its start for that page (section 7), and is the one thing both leave out
  (`unlisted`): what is said of the other partitions of the same page stands. While the topic the tab began with stays the same, the listings are
  right (`ListedInv`) and everything between where the tab began and the edge has been shown
  (`BrowseInv`, `NothingSkipped`). Within a request the rounds leave no gap (`CoverInv`): a
  partition is covered up to its outermost row, over a window that was read to its end, and up
  to the floor of its next window. Lemma `FrontierCovers` then shows that where `Frontier` puts
  the edge, behind whatever the page left out, nothing unread lies between.
* `ConsoleProofs`, from `ConsoleAssumption`: `OwnerIsNewest` and `NewestRunOwnsTheTab`. That a tab shows nothing of a superseded run needs that runs
  are numbered in the order they are sent (`OrderInv`), that an owner is the newest run and the
  newest run under way is the owner (`OwnerInv`), and that a run which waits for the history
  waits for one list only and has had its answer (`ListInv`).
* `ConsoleProofs`, from `ConsoleAssumption`: `BarSettles`. Requests are served in the order of a
  session's queue, each of which is there once and is of the tab (`QueueShape`). What the bar will
  be told by a read or a run under way is true when it is told, for nothing served after it changes
  the session (`ReportInv`); and the bar is right, or will be once the session has ended, or will
  be told (`BarInv`). A read that a run has overtaken tells nothing, which is what `sqlRunStarts`
  is for. With nothing under way the first case is left.
* `KafkaProofs`, from `KafkaClientAssumption`: `OldSearchLeavesNoRows`, and that whatever
  spins waits for a request that is under way (`SpinsForARequest`). The module's handlers are
  functions on the state of a tab, so the invariant is one of such states (`Good`): the owner of
  a scan is a step of the newest search, every row of the list is of a page or of the newest
  search, and each spinner has its request. Beginning a search sends two requests at most, which
  is why every lemma about it asks for two free slots, and `Room`, the guard of gestures, gives
  them.
* `KafkaProofs`, from `KafkaClientAssumption`: `ExportIsHonest`. An answer to a step tells: it
  holds what is wanted between the cursor it was asked with and its own, and says truly whether
  more is to come (`Tells`, lemma `AnswerTells`; a window is the first of what lies ahead in the
  order of the view, lemma `WindowIs`). So the list of a search holds what is wanted up to its
  cursor unless the cap cut it off (`ListTells`), because a step that goes on goes on where that
  list ends (`GoesOn`): it was sent from it, and whatever replaced the list in between has
  replaced the step. A list with no cursor and no cap then holds every match.
* `RedisKeysProofs`, from `RedisKeysAssumption`: `KeyShowsTheServer`, `RemovalsHitTheirElement`
  and `GoneKeysHaveNoTab`, for any keys of any kind, any page size and any number of gestures,
  faults and handlers. A key at rest shows the server because reads that are sound carry what the
  server holds (`Sound`), whichever type and expiry the server went by (`Shows`); one read of a
  key is the newest and carries the options the tab names (`Asked`), a page without a newer read
  or an unread write is fresh (`Fresh`), and a key on screen has a page, an error or a read to
  come (`Shown`). A removal by index (`Removals`) needs a weaker fact that also holds while pages
  are turned: every row on screen is where the server has it (`Current`); and that a view with a
  write under way says it is saving, one write at a time (`Saving`, from a fresh identity for
  every view that is mounted, lemma `FreshIdIsFresh`). `Gone` ties a deleted key's tab to the
  handler that closes it.
* `RedisKeysProofs`, from `RedisCliAssumption`: `DangerAsksFirst`, for any words, consoles and
  texts. Wherever a part of the splitter begins, a line of the question's reading begins with the
  same word, or the part begins with a quote (`LinesSeeStatements`); so a text in which no line
  begins with danger has no statement that does (`StatementsAreTexts`), and every way to send one
  - the button, the question, the history - passes that look (`ARunIsAsked`).
* `RedisKeysProofs`, from `LinksAssumption`: `LinksShowTheServer`, for any links and any number
  of clicks and faults. It is proved link by link. What a list will say of a link once the
  answers under way have landed is what the server says of it (`Catches`), for the list on
  screen and for each list that is under way; the newest change the server has worked in decides
  what that is. Answers that overtook one another are unsound (`outdated`); the order of service
  is read off the marks each answer carries of those it missed.
* `RedisKeysProofs`, from `LinksAssumption` and `AcceptedAssumption`: `ThereAndBack`, for any
  keys and patterns. A key that a pattern matches is its two sides with what it captures between
  them, since they do not overlap (lemmas `ApartIs`, `JoinedIs`, `CapturedIs`, `BuiltIs`), and a
  value without two dollars in a row is put in as it is (`PlainStays`). It takes an invariant to
  say that there are stars to capture at: `LinksLead` follows what the dialog let through to the
  server, into answers and into the list.
* `TablesProofs`, from `TablesAssumption`: `TableShowsTheServer`, for any tables, filters, page
  sizes and handlers. What the server answers for a page stays opaque (`PageOf`): the proof
  needs only that it depends on the options, the rows and the columns. A read that no write has
  outdated carries that answer (`Sound`); one read of a table is the newest; it asks for what the
  tab names, or a filter is being typed, and it knows of every write but those whose handler
  will read again (`Asked`, `Unread`); without one the tab has the page or an error (`Fresh`).
* `ObjectTreeProofs`, from `HealthAssumption`: `OpeningTestsAll` and the action property
  `CacheOutlivesFailures`. A fresh entry was answered since the list was opened, or is asked, or
  is in a pass that trusts no entry (`FirstAsked`), and every connection on the list has an entry
  or is in a pass (`AllAsked`); the list that prunes entries holds every connection there is but
  those being created (`Whole`, `Single`), which is why an entry of a connection that exists
  survives.
* `ObjectTreeProofs`, from `TreeAssumption`: `TreeAnswersItsFilter`, `FinishedScanIsComplete` and
  `OpenSchemasAreFresh`, for any keyspace, schemas, filters, masters and failures. One fetch of a
  path is the newest (`OneLatest`), and a refresh is there while a fetch of it is (`Turns`). In a
  Redis tree (`Scans`) the newest fetch asks for the filter and the node on screen, and while the
  list is of others it is on its way or has failed; a continued scan that has kept its list has
  the cursor of the tree; and what was found covers every position up to the cursor (`Covers`),
  so that two pages in a row cover what both cover (lemma `PagesJoin`) and a list without a
  cursor covers the keyspace. In a Postgres tree the tables cached of a schema are the server's
  (`Cached`), or its newest fetch is on its way with the server's answer (`Due`), or a change is
  about to be followed by its refresh, or the schema was passed over (`skipped`).

The invariants were model-checked before they were proved (those of `RedisKeys`, `ObjectTree`
and `KafkaClient` on the instance of their run and on deeper ones, those of `KafkaReader` also
with two changes of the topic), and that changed the models where they were wrong. A list of
Redis may be edited amiss when its view was left and mounted anew between a write and its reload
(section 7): a claim about edits by index had held only because three gestures are too few, and
`RemovalsHitTheirElement` names the case now. A reload that is superseded by the page the user turned to leaves the tab without
it, which `stale` had missed. What the walk through the history of the Redis console leaves in
the editor when an entry is gone was modelled as nothing, where the code keeps the text that is
there (redisCli.ts 176-216); that a proof could not find where a text came from showed it.

The assumptions say what the constants are: finite sets of requests, keys and slots, values that
are not the value for "none", and, for `RedisKeys`, that what the server holds at first is a
function on the names with content under numbers. `HealthAssumption` says what a browser may
have cached: nothing that was being checked (`persistEntries` leaves it out), and nothing about a
connection that is yet to be made. In `TreeAssumption`, SCAN meets every key of the keyspace once.
`ConnectionFoldersAssumption` begins with boards that are forests, which is what `ConfigStore`
hands out; in `RedisCliAssumption` a line end is not one of the words; in `LinksAssumption` a link
keeps its id, and the id of a new one was never used; in `AcceptedAssumption` the links the
server has at first passed its checks (links.go 141-197), which ask no less than the dialog.

Only model-checked: every liveness property (fairness and ENABLED are out of the prover's reach),
and `Tables!CoveredWhileWriting`, which is left to its run. No module declares a RECURSIVE operator;
folds and sets take their place. What `Array.prototype.filter` leaves of a sequence is a
definition by rank (`Subsequence`), so that `SubsequenceProofs` can say what is kept and in which
order; which dollars `String.replace` keeps is one as well (`Replacement`).

## 6. Statements the code does not keep

Some modules state what a comment or a message of the program says and the code does not do.
They are stated beside the properties and not run, except the one that is a finding.

* `KafkaClient!SearchKeepsItsMatches` (the run `KafkaClientContention`): a page load that was
  under way when a search began replaces its matches, though kafka.ts 794-796 says the two never
  contend.
* `KafkaReader!NoMixedRows`: a recreated topic is noticed by the first request that meets the
  stale id; another tab's cursor goes on in the new topic and its rows join the old ones
  (messages.go 1659-1674).
* `ConsoleSession!DropIsToldAsLost`: a batch that begins its own transaction and is canceled in
  it is answered "idle" (session.go 107, against 36-38). `NothingPinnedAtPoolClose`: a run that
  holds the connector pins a connection after `endAllSessions` (250, against 248-249).
* `ConfigStore!SavedConnectionsHaveFolders`: an edit that raced the removal of a folder saves its
  connection into a folder that is gone. `SavedLinksResolve`: a link validated before its
  connection was deleted is stored after the cascade.
* `Workspace!LinkIsShown`: an address that names a tab which lives on another page is consumed
  without showing it (DataViewPage.tsx 103); one that arrives while the page has a tab to settle
  on is opened behind that tab.
* `ObjectTree!CreatedTableIsInTheTree`: the message after a table was created is true of open
  schemas only.
* `Tables!NothingPendingIsLost`: edits marked while a save is under way are wiped when it ends.

## 7. Met while modelling

What the models leave out of a property (the history variables `stale`, `mixed`, `astray`,
`outdated`, `misled`, `skipped`, `crossed`, `displaced`, `orphans`, `unlisted`) are cases in which the code has no guard. They, and
what else was noticed:

* Reads join one under way with the same options, though it may have been superseded or be older
  than the write that asks for the reload (data.ts 216). A failed refresh over rows shows no
  error. A delete over pages that fails half way leaves the rest selected.
* A continued scan that lands after the filter changed is appended to the other filter's keys; a
  cursor of another node is refused, or skips keys. Saves of visible schemas may be reordered.
* Redis editors are not keyed by the key: a draft survives a switch to another loaded key of the
  same type, and Save writes it there. In a list the draft is kept by index (ListEditor.tsx
  38-39, 85-109): after a removal or an insertion above it, the row shows it in the place of the
  element that moved in, and Save overwrites that one. Removals of a list by index hit another
  element after a reload that failed or joined, after another client's push, in a row that shows
  such a draft, and when a view that was removing
  an element is left and mounted anew before the list is read again: the saving flag is the
  view's own, so the buttons are enabled over the rows of before. `Number('')` is saved as 0.
* The pattern of a bulk delete may be changed while its count is under way: the count then
  enables the delete of a pattern nobody counted (BulkActions.tsx 35), and outlives the dialog
  and the connection.
* The expiry of a key may be shown as it was before a change of it for up to ten seconds: a read
  or a listing that began before the write fills the cache again after the write emptied it
  (helpers.go 22, data.go 161, keys.go 531, mutate.go 97).
* The Redis console does not look for dangerous commands in quotes; a question survives the way
  back to another connection's console and is answered there; the walk through the history does
  not get past its first entry, because the editor's effect resets it. So it is in the SQL
  console: Up gets no further than the newest entry, and Down does not bring the draft back
  (SqlEditor.tsx 376-392, sqlConsole.ts 260-275), unless the tab was away while the list loaded.
* A console's session outlives its tab until its idle timer or the end of the connector when the
  DELETE is lost or a run of the tab lands after it. Tab numbers are used again: a late DELETE may
  end the session of another console.
* An address that names a tab already on screen with other filters stays as it is, and one of an
  object asked for while the page settles on another tab stays in the bar though it is not shown.
  An answer that navigates to the page one is on, between the mirror's write and its next run,
  leaves a bare address. "Close others" and "Close to the right" close tabs of every page and ask
  about those on screen (TabBar.tsx 73).
* Rows checked on another page are copied as they were when they were checked, though the grid may
  have shown newer ones since (table.ts 130-137).
* `buildRedisKey` replaces with a string, so `$$` and `$&` in a value are interpreted. Two groups
  of link menus have no "Show all". A list of links read before a creation and landing after it
  drops the new link; the reverse order shows it twice.
* Answers of folder moves that land out of order may leave a loop in the browser's list: every
  folder and connection in it vanishes until the folders are read again. A rename sends the
  parent shown at the time and so undoes a move under way. A folder that is empty below a
  filtered one is hidden, though ConnectionListPage.tsx 65-69 says it belongs to every view.
* A list of connections that is retried while one is created is taken for whole: restored tabs of
  all others are pruned, and their cached health as well. An edited connection keeps its old
  health until the time to live. Overlapping passes exceed the limit of concurrent tests.
* An answer of the wizard's test that was begun before it was closed settles the next form.
* In the Kafka browser, the search dialog's `await onSeekChange` awaits nothing, and "Search all"
  does nothing while an error is shown.
* On the server, an end offset that could not be listed pins its partition at the start
  (messages.go 1650); an update of visible schemas that races an edit puts the old credentials
  back (connections.go 299); a config.json that was cut short does not load (config.go 94).

## 8. Not modelled

* Kafka topics, groups, produced records; of the Redis connector the scans over nodes and the
  steps within a copy, a rename across slots or a bulk delete; Postgres data, DDL and catalog: each operation is one or a few commands to a server
  that serialises them. What the browser does with their answers is modelled.
* Kafka and DDL dialogs, overviews, lookups, suggestions, the palette: a form and one request, or
  a read that is shown. The wizard's forms and their test.
* In the modelled parts: within the tree, namespaces of Redis, Kafka lists and visibility of
  system objects; for tables, dropping one, references, the overview, widths and scrolling; for
  Redis, the comparison of keys and the command helper; links that start at tables and topics.
* Middleware, routing, encryption, formatting, parsing, rendering: stateless, or layout.
* Database servers, brokers and the network are outside: they appear as the outcomes the code
  distinguishes, and are the external definitions of the map.

## 9. Plan

Every safety property of a passing run but the one named in section 5 is a theorem. What would
come next:

1. An abstract store of rows that `Tables` and `RedisKeys` both implement at rest: the proofs of
   `TableShowsTheServer` and `KeyShowsTheServer` have the same parts (`Sound`, `Asked`, `Fresh`).
2. The Redis connector's scans over nodes, and the transaction of `mutate.go`.
3. The Kafka server's groups and offsets, beside `KafkaReader`.

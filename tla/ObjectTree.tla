------------------------------ MODULE ObjectTree -----------------------------
(***************************************************************************)
(* The object tree of one connection beside its page: what stores/         *)
(* workspace.ts caches of the server's schemas and keys, the requests that *)
(* fill it, ObjectTree and Sidebar that ask for them, the key filter and   *)
(* the filter of visible schemas with its copy in the configuration.       *)
(*                                                                         *)
(* A Postgres tree has a root of schemas and a level per schema; a Redis   *)
(* tree is one flat list of keys, read page by page with a cursor.  A key  *)
(* filter is the set of keys it matches, a cluster node the set it owns.   *)
(***************************************************************************)
EXTENDS Integers, Sequences, FiniteSets, SequencesExt

CONSTANTS
  Schemas, Tables,
  Keyspace,      \* the keys in the order SCAN meets them
  Volatile,      \* those that are made and deleted one by one
  Patterns,      \* key filters beside the empty one
  Nodes,         \* masters beside "all masters"
  MaxGestures,   \* bound: what the user and other clients do
  MaxFaults,     \* bound: requests that fail
  MaxCalls,      \* bound: refreshes, continued scans or saved filters at a time
  None, Root

Keys == Range(Keyspace)
Paths == Schemas \cup {Root}
Cursors == [single : BOOLEAN, pos : DOMAIN Keyspace]  \* where a scan is

(* Changes of the server that a refresh follows. *)
Stages == {"asked", "done", "refreshing"}
Jobs ==
  [op : {"table", "drop"}, schema : Schemas, object : Tables, stage : Stages]
    \cup [op : {"key"}, schema : {Root}, object : Volatile, stage : Stages]
    \cup [op : {"bulk"}, schema : {Root}, object : Patterns, stage : Stages]

ASSUME TreeAssumption ==
  /\ Keyspace \in Seq(Keys) /\ IsInjective(Keyspace) /\ Volatile \subseteq Keys
  /\ None \notin Cursors \cup Jobs /\ \A found \in SUBSET Keys : found # None
  /\ Patterns \subseteq SUBSET Keys /\ Nodes \subseteq SUBSET Keys
  /\ Root \notin Schemas
  /\ MaxGestures \in Nat /\ MaxFaults \in Nat /\ MaxCalls \in Nat \ {0}

VARIABLES
  kind,          \* "redis" or "postgres"
  schemas, tables, keys,  \* what the server has
  tree,          \* items, cursor, loading, errors, loaded, expanded
  pattern, node, \* keyPatternByConnection, selectedNodeByConnection
  calls,         \* requests of the tree under way
  refreshes,     \* calls of refreshTree that have not returned
  refreshing,    \* treeRefreshingByConnection
  job,           \* a change of the server that a refresh follows, or None
  mounted,       \* the page shows the tree
  visible,       \* visibleSchemasByConnection, None for every schema
  persisted,     \* the connection's visible_schemas, as the browser knows them
  filed,         \* and as the configuration has them
  puts,          \* changes of the filter under way
  gestures, faults,
  mixed,         \* history: pages of two lists were put together
  fits,          \* history: the list was read with the filter and node there are
  told,          \* history: tables the user was told are in the tree
  skipped        \* history: schemas cached but not re-read by the last refresh

serverVars == <<schemas, tables, keys>>
askVars == <<pattern, node>>
filterVars == <<visible, persisted, filed, puts>>
historyVars == <<mixed, fits, told, skipped>>
vars == <<kind, serverVars, tree, askVars, calls, refreshes, refreshing, job, mounted,
          filterVars, gestures, faults, historyVars>>
-----------------------------------------------------------------------------
(* Requests. *)

NewCall(op, path, n, pat, nd, cursor) ==
  [op |-> op, path |-> path, n |-> n, pattern |-> pat, node |-> nd, cursor |-> cursor,
   newest |-> TRUE, sound |-> TRUE, answer |-> None]

(* treeFetchSeq: a fetch of a path takes its turn from the earlier ones.   *)
Claimed(cs, paths) ==
  {IF c.path \in paths /\ c.op # "more" THEN [c EXCEPT !.newest = FALSE] ELSE c : c \in cs}

(* History: the list a continued scan was to go on from is gone.           *)
Unsound(cs) == {IF c.op = "more" THEN [c EXCEPT !.sound = FALSE] ELSE c : c \in cs}

Pending(path) == \E c \in calls : c.op = "load" /\ c.path = path

(* History: what is fetched may be older than what the user was told.      *)
Older(cs) == {IF c.op = "more" THEN c ELSE [c EXCEPT !.sound = FALSE] : c \in cs}

(* fetchTree without refresh: joined while one is under way.               *)
FetchTree(path, t) ==
  IF Pending(path) THEN tree' = t /\ UNCHANGED calls
  ELSE /\ calls' = Claimed(calls, {path}) \cup {NewCall("load", path, 1, pattern, node, None)}
       /\ tree' = [t EXCEPT !.loading[path] = TRUE, !.errors[path] = FALSE]

FreeNumbers(used) == (1..MaxCalls) \ used

(* The schemas a refresh re-reads: a Redis tree has only its root.         *)
Reread == {Root} \cup (IF kind = "redis" THEN {} ELSE tree.expanded)

(* refreshTree, up to its await.  pat and nd are what its fetches send.    *)
RefreshTree(t, cs, pat, nd, forJob) ==
  /\ FreeNumbers({r.n : r \in refreshes}) # {}
  /\ LET n == CHOOSE m \in FreeNumbers({r.n : r \in refreshes}) : TRUE IN
     /\ refreshes' = {[r EXCEPT !.newest = FALSE] : r \in refreshes}
                       \cup {[n |-> n, newest |-> TRUE, job |-> forJob]}
     /\ calls' = Claimed(Older(cs), Reread) \cup {NewCall("refresh", p, n, pat, nd, None) : p \in Reread}
  /\ refreshing' = TRUE
  /\ tree' = t
  /\ skipped' = skipped \cup {s \in Schemas \ Reread : t.items[s] # None \/ Pending(s)}

-----------------------------------------------------------------------------
(* The server. *)

(* One budget of SCAN: the next key of the node.  A cursor of all masters  *)
(* names its node, and one of a single master is only a number: the other  *)
(* kind is refused.                                                        *)
KeyPage(c) ==
  LET single == c.node # Keys
      from == IF c.cursor = None THEN 0 ELSE c.cursor.pos
      left == {i \in DOMAIN Keyspace : i > from /\ Keyspace[i] \in c.node}
      next == Min(left) IN
  IF c.cursor # None /\ c.cursor.single # single THEN [ok |-> FALSE, items |-> {}, cursor |-> None]
  ELSE IF left = {} THEN [ok |-> TRUE, items |-> {}, cursor |-> None]
  ELSE [ok |-> TRUE, items |-> {Keyspace[next]} \cap keys \cap c.pattern,
        cursor |-> IF left = {next} THEN None ELSE [single |-> single, pos |-> next]]

Listing(path) ==
  [ok |-> TRUE, cursor |-> None,
   items |-> IF path = Root THEN schemas ELSE IF path \in schemas THEN tables[path] ELSE {}]

Answer(c) ==
  /\ c.answer = None
  /\ calls' = (calls \ {c}) \cup
       {[c EXCEPT !.answer = IF kind = "redis" THEN KeyPage(c) ELSE Listing(c.path)]}
  /\ UNCHANGED <<kind, serverVars, tree, askVars, refreshes, refreshing, job, mounted,
                 filterVars, gestures, faults, historyVars>>
-----------------------------------------------------------------------------
(* Answers. *)

(* Mutant: the answer of a superseded fetch is written as well. *)
IsAnyFetch(c) == TRUE
IsNewest(c) == c.newest

(* Mutant: a refresh, which sets no loading flag, clears none. *)
LoadedQuietly(t, c) ==
  [t EXCEPT !.items[c.path] = c.answer.items,
            !.cursor = IF c.path = Root THEN c.answer.cursor ELSE @,
            !.loading[c.path] = @ /\ c.op = "refresh",
            !.errors[c.path] = FALSE, !.loaded[c.path] = TRUE]
Loaded(t, c) ==
  [t EXCEPT !.items[c.path] = c.answer.items,
            !.cursor = IF c.path = Root THEN c.answer.cursor ELSE @,
            !.loading[c.path] = FALSE, !.errors[c.path] = FALSE, !.loaded[c.path] = TRUE]

LoadFailed(t, c) ==
  [t EXCEPT !.loading[c.path] = FALSE, !.errors[c.path] = TRUE,
            !.loaded[c.path] = @ /\ c.op = "refresh"]

(* scanMoreKeys: the page is added to whatever the tree holds by now.      *)
(* Mutant: it takes the place of what the tree holds. *)
ReplacedBy(t, c) ==
  [t EXCEPT !.items[Root] = c.answer.items, !.cursor = c.answer.cursor, !.loading[Root] = FALSE]
Appended(t, c) ==
  [t EXCEPT !.items[Root] = (IF @ = None THEN {} ELSE @) \cup c.answer.items,
            !.cursor = c.answer.cursor, !.loading[Root] = FALSE]

ScanFailed(t) == [t EXCEPT !.loading[Root] = FALSE, !.errors[Root] = TRUE]

(* The prune after a refresh: by the root as it is, unless that is in error. *)
Pruned(t) ==
  LET dead == {s \in Schemas : t.items[s] # None /\ s \notin t.items[Root]} IN
  IF kind = "redis" \/ t.errors[Root] THEN t
  ELSE [t EXCEPT !.items = [p \in Paths |-> IF p \in dead THEN None ELSE @[p]],
                 !.loaded = [p \in Paths |-> @[p] /\ p \notin dead],
                 !.errors = [p \in Paths |-> @[p] /\ p \notin dead],
                 !.expanded = @ \ dead]

StillRefreshing(r) == refreshing /\ ~r.newest

(* A fetch is over; when it was the last of its refresh, refreshTree goes  *)
(* on, and with it whoever waited for it.                                  *)
Settle(c, t) ==
  LET rest == calls \ {c}
      ends == {r \in refreshes : c.op = "refresh" /\ r.n = c.n
                                   /\ ~\E d \in rest : d.op = "refresh" /\ d.n = c.n} IN
  IF ends = {} THEN tree' = t /\ UNCHANGED <<refreshes, refreshing, job, told>>
  ELSE LET r == CHOOSE x \in ends : TRUE IN
       /\ refreshes' = refreshes \ {r}
       /\ refreshing' = StillRefreshing(r)
       /\ tree' = IF r.newest THEN Pruned(t) ELSE t
       /\ IF r.job THEN /\ job' = None
                        /\ told' = IF job.op = "table" THEN told \cup {<<job.schema, job.object>>}
                                   ELSE told
          ELSE UNCHANGED <<job, told>>

Land(c) ==
  /\ c.answer # None /\ c.answer.ok
  /\ IF c.op = "more"
     THEN /\ Settle(c, Appended(tree, c))
          /\ calls' = Unsound(calls \ {c})
          /\ mixed' = (mixed \/ ~c.sound)
          /\ UNCHANGED <<fits, skipped>>
     ELSE /\ Settle(c, IF IsNewest(c) THEN Loaded(tree, c) ELSE tree)
          /\ calls' = IF IsNewest(c) THEN Unsound(calls \ {c}) ELSE calls \ {c}
          /\ mixed' = (mixed /\ ~(IsNewest(c) /\ c.path = Root))
          /\ fits' = (fits \/ (IsNewest(c) /\ c.path = Root))
          /\ skipped' = IF IsNewest(c) /\ c.sound THEN skipped \ {c.path} ELSE skipped
  /\ UNCHANGED <<kind, serverVars, askVars, mounted, filterVars, gestures, faults>>

(* A timeout, a server that answers an error, or a cursor it refuses.      *)
Fail(c) ==
  /\ IF c.answer # None /\ ~c.answer.ok THEN UNCHANGED faults
     ELSE faults < MaxFaults /\ faults' = faults + 1
  /\ Settle(c, IF c.op = "more" THEN ScanFailed(tree)
               ELSE IF IsNewest(c) THEN LoadFailed(tree, c) ELSE tree)
  /\ calls' = calls \ {c}
  /\ UNCHANGED <<kind, serverVars, askVars, mounted, filterVars, gestures, mixed, fits, skipped>>
-----------------------------------------------------------------------------
(* What the user does in any tree. *)

Gesture == gestures < MaxGestures /\ gestures' = gestures + 1

RootIsEmpty == tree.items[Root] \in {None, {}}
Available == IF tree.items[Root] = None THEN {} ELSE tree.items[Root]
Selection == IF visible # None THEN visible ELSE persisted

(* filteredRootItems. *)
ShownSchemas == IF Selection = None THEN Available ELSE Available \cap Selection

(* What ObjectTree renders.  An error is shown in place of an empty tree   *)
(* only: over a list it is not seen.                                       *)
Screen ==
  IF RootIsEmpty
  THEN IF tree.loading[Root] \/ (~tree.loaded[Root] /\ ~tree.errors[Root]) THEN "skeleton"
       ELSE IF tree.errors[Root] THEN "error" ELSE "empty"
  ELSE IF kind = "postgres" /\ ~tree.loading[Root] /\ tree.loaded[Root] /\ ShownSchemas = {}
       THEN "no schemas" ELSE "tree"

(* And what an open schema does. *)
SchemaScreen(s) ==
  IF Screen # "tree" \/ s \notin tree.expanded \cap ShownSchemas THEN "closed"
  ELSE IF tree.loading[s] THEN "skeleton" ELSE IF tree.errors[s] THEN "error" ELSE "tables"

(* hydrateVisibleSchemas, an effect of Sidebar: the connection's filter is the tree's. *)
Hydrated(v, here) == IF kind = "postgres" /\ here THEN v ELSE visible

(* The page is opened: Sidebar hydrates the filter, ObjectTree reads the root. *)
Mount ==
  /\ ~mounted /\ mounted' = TRUE
  /\ FetchTree(Root, tree)
  /\ visible' = Hydrated(persisted, TRUE)
  /\ UNCHANGED <<kind, serverVars, askVars, refreshes, refreshing, job, persisted, filed, puts,
                 gestures, faults, historyVars>>

Unmount ==
  /\ Gesture /\ mounted /\ mounted' = FALSE
  /\ UNCHANGED <<kind, serverVars, tree, askVars, calls, refreshes, refreshing, job, filterVars,
                 faults, historyVars>>

(* Retry in the banner that an empty root or an open schema shows.         *)
Retry(path) ==
  /\ Gesture /\ mounted
  /\ (IF path = Root THEN Screen ELSE SchemaScreen(path)) = "error"
  /\ FetchTree(path, tree)
  /\ UNCHANGED <<kind, serverVars, askVars, refreshes, refreshing, job, mounted, filterVars,
                 faults, historyVars>>
-----------------------------------------------------------------------------
(* Redis. *)

PressRefresh ==
  /\ Gesture /\ mounted /\ kind = "redis" /\ ~refreshing
  /\ RefreshTree(tree, calls, pattern, node, FALSE)
  /\ UNCHANGED <<kind, serverVars, askVars, job, mounted, filterVars, faults, mixed, fits, told>>

(* RedisKeyFilter, once typing has paused. *)
TypedPattern(p) == mounted /\ kind = "redis" /\ p # pattern

(* setKeyPattern: what was found under the other   *)
(* filter is dropped, but for a page that is still on its way.             *)
Dropped(t) ==
  [t EXCEPT !.items = [p \in Paths |-> None], !.cursor = None,
            !.loaded = [p \in Paths |-> FALSE], !.errors = [p \in Paths |-> FALSE]]

SetKeyPattern(p) ==
  /\ Gesture /\ TypedPattern(p)
  /\ pattern' = p /\ fits' = FALSE
  /\ RefreshTree(Dropped(tree), Unsound(calls), p, node, FALSE)
  /\ UNCHANGED <<kind, serverVars, node, job, mounted, filterVars, faults, mixed, told>>

(* setSelectedNode: the keys of the other node stay until the answer.      *)
SetSelectedNode(nd) ==
  /\ Gesture /\ mounted /\ kind = "redis" /\ nd # node
  /\ node' = nd /\ fits' = FALSE
  /\ RefreshTree(tree, Unsound(calls), pattern, nd, FALSE)
  /\ UNCHANGED <<kind, serverVars, pattern, job, mounted, filterVars, faults, mixed, told>>

MoreNumbers == FreeNumbers({c.n : c \in {d \in calls : d.op = "more"}})

ScanMoreShown == tree.cursor # None /\ Screen \in {"tree", "empty"}

(* scanMoreKeys, below the list and in the empty tree of an unfinished scan. *)
ScanMoreKeys ==
  /\ Gesture /\ mounted /\ kind = "redis"
  /\ ScanMoreShown /\ ~tree.loading[Root] /\ MoreNumbers # {}
  /\ tree' = [tree EXCEPT !.loading[Root] = TRUE]
  /\ LET c == NewCall("more", Root, CHOOSE n \in MoreNumbers : TRUE, pattern, node, tree.cursor) IN
     calls' = calls \cup {[c EXCEPT !.sound = fits]}
  /\ UNCHANGED <<kind, serverVars, askVars, refreshes, refreshing, job, mounted, filterVars,
                 faults, historyVars>>

(* Other clients. *)
KeyChurns(k) ==
  /\ Gesture /\ kind = "redis" /\ k \in Volatile
  /\ keys' = IF k \in keys THEN keys \ {k} ELSE keys \cup {k}
  /\ UNCHANGED <<kind, schemas, tables, tree, askVars, calls, refreshes, refreshing, job, mounted,
                 filterVars, faults, historyVars>>
-----------------------------------------------------------------------------
(* Postgres. *)

(* toggleSchema. *)
Toggled(open, s) == IF s \in open THEN open \ {s} ELSE open \cup {s}

(* handleNodeClick: opening a schema reads it unless it is cached.         *)
HandleNodeClick(s) ==
  /\ Gesture /\ mounted /\ kind = "postgres" /\ Screen = "tree" /\ s \in ShownSchemas
  /\ LET t == [tree EXCEPT !.expanded = Toggled(@, s)] IN
     IF s \notin tree.expanded /\ tree.items[s] = None THEN FetchTree(s, t)
     ELSE tree' = t /\ UNCHANGED calls
  /\ UNCHANGED <<kind, serverVars, askVars, refreshes, refreshing, job, mounted, filterVars,
                 faults, historyVars>>

SchemaDropped(s) ==
  /\ Gesture /\ kind = "postgres" /\ s \in schemas
  /\ schemas' = schemas \ {s}
  /\ tables' = [tables EXCEPT ![s] = {}]
  /\ UNCHANGED <<kind, keys, tree, askVars, calls, refreshes, refreshing, job, mounted,
                 filterVars, faults, historyVars>>
-----------------------------------------------------------------------------
(* Changes of the server that a refresh of the tree follows. *)

Job(op, s, o) == [op |-> op, schema |-> s, object |-> o, stage |-> "asked"]

(* submitCreateTable, from the menu of a schema. *)
CreateTable(s, o) ==
  /\ Gesture /\ mounted /\ kind = "postgres" /\ job = None
  /\ Screen = "tree" /\ s \in ShownSchemas
  /\ job' = Job("table", s, o)
  /\ UNCHANGED <<kind, serverVars, tree, askVars, calls, refreshes, refreshing, mounted,
                 filterVars, faults, historyVars>>

(* The drop of a table from its own tab. *)
DropTable(s, o) ==
  /\ Gesture /\ mounted /\ kind = "postgres" /\ job = None /\ o \in tables[s]
  /\ job' = Job("drop", s, o)
  /\ UNCHANGED <<kind, serverVars, tree, askVars, calls, refreshes, refreshing, mounted,
                 filterVars, faults, historyVars>>

(* handleCreateKey of Sidebar. *)
HandleCreateKey(k) ==
  /\ Gesture /\ mounted /\ kind = "redis" /\ job = None /\ k \in Volatile \ keys
  /\ job' = Job("key", Root, k)
  /\ UNCHANGED <<kind, serverVars, tree, askVars, calls, refreshes, refreshing, mounted,
                 filterVars, faults, historyVars>>

(* runDelete of BulkActions: every key that a pattern matches. *)
RunDelete(p) ==
  /\ Gesture /\ mounted /\ kind = "redis" /\ job = None
  /\ job' = Job("bulk", Root, p)
  /\ UNCHANGED <<kind, serverVars, tree, askVars, calls, refreshes, refreshing, mounted,
                 filterVars, faults, historyVars>>

ServerChanges ==
  /\ job # None /\ job.stage = "asked"
  /\ job.op = "table" => job.schema \in schemas
  /\ job' = [job EXCEPT !.stage = "done"]
  /\ tables' = CASE job.op = "table" -> [tables EXCEPT ![job.schema] = @ \cup {job.object}]
                 [] job.op = "drop" -> [tables EXCEPT ![job.schema] = @ \ {job.object}]
                 [] OTHER -> tables
  /\ keys' = CASE job.op = "key" -> keys \cup {job.object}
               [] job.op = "bulk" -> keys \ job.object
               [] OTHER -> keys
  /\ told' = IF job.op = "drop" THEN told \ {<<job.schema, job.object>>} ELSE told
  /\ UNCHANGED <<kind, schemas, tree, askVars, calls, refreshes, refreshing, mounted,
                 filterVars, gestures, faults, mixed, fits, skipped>>

JobLands ==
  /\ job # None /\ job.stage = "done"
  /\ job' = [job EXCEPT !.stage = "refreshing"]
  /\ RefreshTree(tree, calls, pattern, node, TRUE)
  /\ UNCHANGED <<kind, serverVars, askVars, mounted, filterVars, gestures, faults, mixed, fits, told>>

(* The request fails, before or after the server did it: nothing is re-read. *)
JobFails ==
  /\ job # None /\ job.stage # "refreshing"
  /\ IF job.op = "table" /\ job.schema \notin schemas THEN UNCHANGED faults
     ELSE faults < MaxFaults /\ faults' = faults + 1
  /\ job' = None
  /\ IF job.stage = "done" THEN skipped' = skipped \cup {job.schema} /\ calls' = Older(calls)
     ELSE UNCHANGED <<skipped, calls>>
  /\ UNCHANGED <<kind, serverVars, tree, askVars, refreshes, refreshing, mounted,
                 filterVars, gestures, mixed, fits, told>>
-----------------------------------------------------------------------------
(* The filter of visible schemas. *)

Put(n, by, v) == [n |-> n, by |-> by, value |-> v, before |-> persisted, stage |-> "sent"]
PutNumber == CHOOSE n \in 1..(Cardinality(puts) + 1) : \A p \in puts : p.n # n
Saving == \E p \in puts : p.by = "save"

(* SchemaFilterDialog: any choice but the one there is, all of them as None. *)
FilterChoices ==
  LET default == IF visible = None THEN Available ELSE visible IN
  {IF Cardinality(v) = Cardinality(Available) THEN None ELSE v :
     v \in SUBSET (default \cup Available) \ {default}}

(* handleSaveVisibleSchemas: the tree follows at once. *)
HandleSaveVisibleSchemas(v) ==
  /\ Gesture /\ mounted /\ kind = "postgres" /\ ~Saving /\ Available # {}
  /\ visible' = v
  /\ puts' = puts \cup {Put(PutNumber, "save", v)}
  /\ UNCHANGED <<kind, serverVars, tree, askVars, calls, refreshes, refreshing, job, mounted,
                 persisted, filed, faults, historyVars>>

(* normalizeVisibleSchemasSelection, and the effect of ObjectTree that     *)
(* drops schemas the server no longer has from the filter, here and there. *)
NormalizedSelection == IF Selection = None THEN None ELSE Selection \cap Available
SyncDue ==
  /\ mounted /\ kind = "postgres" /\ tree.items[Root] # None
  /\ Selection # None /\ Selection # NormalizedSelection

SyncVisibleSchemas ==
  /\ SyncDue
  /\ visible' = NormalizedSelection
  /\ puts' = IF persisted # NormalizedSelection
              THEN puts \cup {Put(PutNumber, "sync", NormalizedSelection)}
              ELSE puts
  /\ UNCHANGED <<kind, serverVars, tree, askVars, calls, refreshes, refreshing, job, mounted,
                 persisted, filed, gestures, faults, historyVars>>

FilterIsFiled(p) ==
  /\ p.stage = "sent"
  /\ filed' = p.value
  /\ puts' = (puts \ {p}) \cup {[p EXCEPT !.stage = "filed"]}
  /\ UNCHANGED <<kind, serverVars, tree, askVars, calls, refreshes, refreshing, job, mounted,
                 visible, persisted, gestures, faults, historyVars>>

FilterAnswered(p) == p.value

(* updateVisibleSchemas answers; the connection changes and Sidebar, while *)
(* it is there, hydrates the tree's filter from it.                        *)
FilterLands(p) ==
  /\ p.stage = "filed"
  /\ puts' = puts \ {p}
  /\ persisted' = FilterAnswered(p)
  /\ visible' = Hydrated(persisted', mounted)
  /\ UNCHANGED <<kind, serverVars, tree, askVars, calls, refreshes, refreshing, job, mounted,
                 filed, gestures, faults, historyVars>>

(* A save that fails puts back what the connection had when it was made.   *)
FilterFails(p) ==
  /\ faults < MaxFaults /\ faults' = faults + 1
  /\ puts' = puts \ {p}
  /\ visible' = IF p.by = "save" THEN p.before ELSE visible
  /\ UNCHANGED <<kind, serverVars, tree, askVars, calls, refreshes, refreshing, job, mounted,
                 persisted, filed, gestures, historyVars>>
-----------------------------------------------------------------------------
Init ==
  /\ kind \in {"redis", "postgres"}
  /\ schemas = IF kind = "postgres" THEN Schemas ELSE {}
  /\ tables = [s \in Schemas |-> {}]
  /\ keys \in IF kind = "redis" THEN {Keys, Keys \ Volatile} ELSE {{}}
  /\ tree = [items |-> [p \in Paths |-> None], cursor |-> None,
             loading |-> [p \in Paths |-> FALSE], errors |-> [p \in Paths |-> FALSE],
             loaded |-> [p \in Paths |-> FALSE], expanded |-> {}]
  /\ pattern = Keys /\ node = Keys
  /\ calls = {} /\ refreshes = {} /\ refreshing = FALSE /\ job = None /\ mounted = FALSE
  /\ filed \in IF kind = "postgres" THEN {None} \cup {{s} : s \in Schemas} ELSE {None}
  /\ persisted = filed /\ visible = None /\ puts = {}
  /\ gestures = 0 /\ faults = 0
  /\ mixed = FALSE /\ fits = TRUE /\ told = {} /\ skipped = {}

Arrives ==
  \/ \E c \in calls : Answer(c) \/ Land(c) \/ Fail(c)
  \/ ServerChanges \/ JobLands \/ JobFails
  \/ \E p \in puts : FilterIsFiled(p) \/ FilterLands(p) \/ FilterFails(p)

Events ==
  \/ Mount \/ Unmount \/ (\E p \in Paths : Retry(p))
  \/ PressRefresh \/ ScanMoreKeys
  \/ (\E p \in Patterns \cup {Keys} : SetKeyPattern(p))
  \/ (\E nd \in Nodes \cup {Keys} : SetSelectedNode(nd))
  \/ (\E k \in Keys : KeyChurns(k) \/ HandleCreateKey(k))
  \/ (\E p \in Patterns : RunDelete(p))
  \/ (\E s \in Schemas : HandleNodeClick(s) \/ SchemaDropped(s))
  \/ (\E s \in Schemas, o \in Tables : CreateTable(s, o) \/ DropTable(s, o))
  \/ (\E v \in FilterChoices : HandleSaveVisibleSchemas(v))
  \/ Arrives

(* The effects of a render have run before anything else happens. *)
Next == SyncVisibleSchemas \/ (~SyncDue /\ Events)

Spec == Init /\ [][Next]_vars

(* Requests end, by their timeout at the latest, and effects run.          *)
FairSpec == Spec /\ WF_vars(~SyncDue /\ Arrives) /\ WF_vars(SyncVisibleSchemas)
-----------------------------------------------------------------------------
(* Properties. *)

(* Every variable stays in its range. *)
TypeOK ==
  /\ kind \in {"redis", "postgres"}
  /\ schemas \subseteq Schemas /\ tables \in [Schemas -> SUBSET Tables] /\ keys \subseteq Keys
  /\ \A p \in Paths : tree.items[p] # None =>
       tree.items[p] \subseteq IF kind = "redis" THEN Keys ELSE IF p = Root THEN Schemas ELSE Tables
  /\ tree.expanded \subseteq Schemas
  /\ pattern \in Patterns \cup {Keys} /\ node \in Nodes \cup {Keys}
  /\ \A c \in calls : c.op \in {"load", "refresh", "more"} /\ c.path \in Paths
  /\ \A r \in refreshes : r.n \in 1..MaxCalls
  /\ \A v \in {visible, persisted, filed} : v # None => v \subseteq Schemas

Settled == calls = {} /\ job = None

(* Whatever the order in which filters, nodes, refreshes and continued     *)
(* scans were asked for and answered, the keys on screen are those of the  *)
(* filter and the node on screen, once their request was answered.  Left   *)
(* out is a continued scan that lands in a list it did not start from      *)
(* (mixed).                                                                *)
TreeAnswersItsFilter ==
  (kind = "redis" /\ calls = {} /\ ~mixed /\ ~tree.errors[Root] /\ tree.items[Root] # None)
    => tree.items[Root] \subseteq pattern \cap node

(* A scan that reports its end has shown every key that was there all the  *)
(* time and that the filter and the node ask for.                          *)
FinishedScanIsComplete ==
  (kind = "redis" /\ calls = {} /\ ~mixed /\ ~tree.errors[Root]
     /\ tree.items[Root] # None /\ tree.cursor = None)
    => ((keys \ Volatile) \cap pattern \cap node) \subseteq tree.items[Root]

(* A schema that is open shows its tables, those just made or dropped      *)
(* here included; one that was closed when the tree was refreshed, or      *)
(* whose change was answered by an error, may not (skipped).               *)
OpenSchemasAreFresh ==
  (kind = "postgres" /\ Settled) =>
    \A s \in (tree.expanded \cap schemas) \ skipped :
      (tree.items[s] # None /\ ~tree.errors[s]) => tree.items[s] = tables[s]

(* submitCreateTable says the table is now available in the object tree:   *)
(* whoever opens its schema finds it.                                      *)
CreatedTableIsInTheTree ==
  (kind = "postgres" /\ Settled) =>
    \A x \in told : (x[1] \in tree.expanded \cap schemas /\ tree.items[x[1]] # None)
                      => x[2] \in tree.items[x[1]]

(* Skeletons and spinning buttons end, and no tree that is on screen stays *)
(* a skeleton with nothing under way.                                      *)
SpinnersStop ==
  (calls # {} \/ refreshing \/ job # None \/ puts # {} \/ (mounted /\ Screen = "skeleton")) ~>
     (~refreshing /\ (\A p \in Paths : ~tree.loading[p]) /\ (mounted => Screen # "skeleton"))
=============================================================================

-------------------------- MODULE ConnectionHealth ---------------------------
(***************************************************************************)
(* Whether the connections answer: stores/connectionHealth with the cache  *)
(* it keeps in localStorage, and those who ask it for checks: the list of  *)
(* connections, its cards, and the page of a connection.                   *)
(*                                                                         *)
(* Answers are numbered as they arrive; those up to horizon are older than *)
(* HEALTH_TTL_MS.  What a step leaves due (an effect, a worker that may    *)
(* take the next connection) runs before the next event.                   *)
(***************************************************************************)
EXTENDS Integers, FiniteSets, Functions

CONSTANTS
  Ids,           \* connections
  Caches,        \* what localStorage may hold at first, and which answers are old
  Concurrency,   \* HEALTH_REFRESH_CONCURRENCY
  MaxSteps,      \* bound: what the user and the clock do
  MaxOutages,    \* bound: requests that fail
  Never          \* no page yet, or an updatedAt that is null

(* persistEntries leaves out what is being checked; a connection that the  *)
(* server has yet to make has an id that nobody knows.                     *)
ASSUME HealthAssumption ==
  /\ Concurrency \in Nat \ {0} /\ MaxSteps \in Nat /\ MaxOutages \in Nat
  /\ "list" \notin Ids \cup {Never} /\ Never \notin Ids
  /\ \A c \in Caches :
       /\ c.life \in [Ids -> {"unborn", "kept", "gone"}]
       /\ \A id \in DOMAIN c.cache : id \in Ids /\ c.life[id] # "unborn" /\ ~c.cache[id].checking

VARIABLES
  life,          \* the connections of the server: "unborn", "kept", "gone"
  listed,        \* connections
  loading, loadedOnce, error,
  wanted,        \* the fetch, and creations, removals and edits under way
  entries, hydrated,
  cache,         \* localStorage
  checks,        \* pendingChecks
  passes,        \* refreshStale: what is left to claim, what is awaited
  page,          \* "list", or the connection whose page is open
  forced,        \* forcedThisMount
  due,           \* the effects that follow the list have to run
  answers, horizon, steps, outages,
  tested,        \* history: answered since the list was opened
  misled         \* history: the list was fetched again over creations

listVars == <<life, listed, loading, loadedOnce, error, wanted, misled>>
storeVars == <<entries, hydrated, cache, checks, passes>>
pageVars == <<page, forced, due, tested>>
boundVars == <<horizon, steps, outages>>
healthVars == <<listVars, storeVars, pageVars, boundVars, answers>>
-----------------------------------------------------------------------------
(* Entries. *)

DefaultEntry == [status |-> "unknown", checking |-> FALSE, at |-> Never]
EntryOf(id) == IF id \in DOMAIN entries THEN entries[id] ELSE DefaultEntry
IsFresh(entry) == entry.at # Never /\ entry.at > horizon

With(f, x, v) == [y \in DOMAIN f \cup {x} |-> IF y = x THEN v ELSE f[y]]

Persisted(es) == Restrict(es, {id \in DOMAIN es : IsFresh(es[id]) /\ ~es[id].checking})
LoadPersisted == Restrict(cache, {id \in DOMAIN cache : IsFresh(cache[id])})

SetEntries(es) == entries' = es /\ cache' = Persisted(es)

Hydrate == hydrated' = TRUE /\ entries' = IF hydrated THEN entries ELSE LoadPersisted

(* A list that is empty is refused. *)
Prune(es, ids) == IF ids = {} THEN es ELSE Restrict(es, DOMAIN es \cap ids)

(* refresh: a check that is pending serves everybody who needs one. *)
Asks(id, force) == force \/ ~IsFresh(EntryOf(id))
RefreshHealth(id, force) ==
  IF Asks(id, force) /\ id \notin checks
  THEN checks' = checks \cup {id} /\ SetEntries(With(entries, id, [EntryOf(id) EXCEPT !.checking = TRUE]))
  ELSE UNCHANGED <<checks, entries, cache>>
-----------------------------------------------------------------------------
(* The passes of refreshStale.  A pass is over once all it claimed is       *)
(* answered.                                                               *)

StaleAmong(es, ids, force) ==
  {id \in ids : id \in DOMAIN es => ~es[id].checking /\ (force \/ ~IsFresh(es[id]))}

Running(ps) == {p \in ps : p.left # {} \/ p.busy # {}}

RefreshStale(es, ids, force) ==
  LET n == CHOOSE i \in 0..Cardinality(passes) : \A p \in passes : p.n # i IN
  passes' = Running(passes \cup {[n |-> n, left |-> StaleAmong(es, ids, force), busy |-> {}, force |-> force]})

MayTake(p) == p.left # {} /\ Cardinality(p.busy) < Concurrency
WorkerTakes(p, id) ==
  /\ MayTake(p) /\ id \in p.left
  /\ RefreshHealth(id, p.force)
  /\ passes' = Running((passes \ {p}) \cup
       {[p EXCEPT !.left = @ \ {id}, !.busy = IF Asks(id, p.force) THEN @ \cup {id} ELSE @]})
  /\ UNCHANGED <<listVars, hydrated, pageVars, boundVars, answers>>

Relieved(id) == Running({[p EXCEPT !.busy = @ \ {id}] : p \in passes})
-----------------------------------------------------------------------------
(* The effects that follow the list of connections. *)

(* Mutant: a list is trusted once it was loaded, well or not. *)
LoadedAnyhow == loadedOnce /\ listed # {}
Trusted == loadedOnce /\ ~error /\ listed # {}

(* Mutant: what was restored counts on the first pass as well. *)
NeverForces == FALSE
FirstPass == ~forced

ListEffect ==
  /\ page = "list" /\ due /\ due' = FALSE
  /\ IF Trusted
     THEN LET es == Prune(entries, listed) IN
          SetEntries(es) /\ RefreshStale(es, listed, FirstPass) /\ forced' = TRUE
     ELSE UNCHANGED <<entries, cache, passes, forced>>
  /\ UNCHANGED <<listVars, hydrated, checks, page, tested, boundVars, answers>>

PageEffect ==
  /\ page \in Ids /\ due /\ due' = FALSE
  /\ IF page \in listed THEN RefreshHealth(page, FALSE) ELSE UNCHANGED <<checks, entries, cache>>
  /\ UNCHANGED <<listVars, hydrated, passes, page, forced, tested, boundVars, answers>>

Request(kind, ids) == [kind |-> kind, ids |-> ids, done |-> FALSE, heard |-> TRUE]

(* Either page asks for a list that was never loaded. *)
FetchIsDue == page # Never /\ listed = {} /\ ~loading /\ ~loadedOnce
FetchEffect ==
  /\ FetchIsDue
  /\ loading' = TRUE /\ error' = FALSE /\ wanted' = wanted \cup {Request("fetch", {})}
  /\ UNCHANGED <<life, listed, loadedOnce, misled, storeVars, pageVars, boundVars, answers>>

Chores == (page # Never /\ due) \/ FetchIsDue \/ \E p \in passes : MayTake(p)
RunChores == ListEffect \/ PageEffect \/ FetchEffect \/ \E p \in passes, id \in Ids : WorkerTakes(p, id)
-----------------------------------------------------------------------------
(* Answers. *)

(* Stored whatever the entry is by then, even none. *)
CheckLands(id, status) ==
  /\ id \in checks
  /\ answers' = answers + 1
  /\ SetEntries(With(entries, id, [status |-> status, checking |-> FALSE, at |-> answers + 1]))
  /\ checks' = checks \ {id} /\ passes' = Relieved(id)
  /\ tested' = tested \cup {id}
  /\ UNCHANGED <<listVars, hydrated, page, forced, due, boundVars>>

Kept == {id \in Ids : life[id] = "kept"}
Serves(w) ==
  /\ ~w.done
  /\ life' = CASE w.kind = "create" -> [id \in Ids |-> IF id \in w.ids THEN "kept" ELSE life[id]]
               [] w.kind = "remove" -> [id \in Ids |-> IF id \in w.ids THEN "gone" ELSE life[id]]
               [] OTHER -> life
  /\ wanted' = (wanted \ {w}) \cup
       {v \in {[w EXCEPT !.done = TRUE, !.ids = IF w.kind = "fetch" THEN Kept ELSE @]} : v.heard}
  /\ UNCHANGED <<listed, loading, loadedOnce, error, misled, storeVars, pageVars, boundVars, answers>>

(* Every answer makes a new list, and with it the effects due; a           *)
(* connection that was created is opened.                                  *)
Lands(w) ==
  /\ w.done /\ wanted' = wanted \ {w} /\ due' = TRUE
  /\ listed' = CASE w.kind = "fetch" -> w.ids
                 [] w.kind = "create" -> listed \cup w.ids
                 [] w.kind = "remove" -> listed \ w.ids
                 [] OTHER -> listed
  /\ IF w.kind = "fetch" THEN loading' = FALSE /\ loadedOnce' = TRUE ELSE UNCHANGED <<loading, loadedOnce>>
  /\ page' \in IF w.kind = "create" THEN w.ids ELSE {page}
  /\ UNCHANGED <<life, error, misled, storeVars, forced, tested, boundVars, answers>>

(* A fetch that fails leaves the list it found, and counts as loaded.      *)
Fails(w) ==
  /\ w.heard /\ outages < MaxOutages /\ outages' = outages + 1
  /\ wanted' = wanted \ {w}
  /\ IF w.kind = "fetch" THEN loading' = FALSE /\ loadedOnce' = TRUE /\ error' = TRUE
     ELSE UNCHANGED <<loading, loadedOnce, error>>
  /\ UNCHANGED <<life, listed, misled, storeVars, pageVars, horizon, steps, answers>>
-----------------------------------------------------------------------------
(* The user and the clock. *)

Step == steps < MaxSteps /\ steps' = steps + 1 /\ UNCHANGED <<outages, answers>>

OpenList ==
  /\ Step /\ page # "list" /\ page' = "list"
  /\ Hydrate /\ forced' = FALSE /\ due' = TRUE /\ tested' = {}
  /\ UNCHANGED <<listVars, cache, checks, passes, horizon>>

(* By its card, which asks for a check itself, or by its address.          *)
OpenPage(id) ==
  /\ Step /\ page # id /\ (page = "list" => id \in listed) /\ page' = id /\ due' = TRUE
  /\ IF page = "list" THEN RefreshHealth(id, FALSE) /\ UNCHANGED hydrated ELSE Hydrate /\ UNCHANGED <<checks, cache>>
  /\ UNCHANGED <<listVars, passes, forced, tested, horizon>>

(* What was asked for may still be done; nobody hears of it.               *)
Reload ==
  /\ Step /\ page # Never /\ page' = Never
  /\ listed' = {} /\ loading' = FALSE /\ loadedOnce' = FALSE /\ error' = FALSE
  /\ wanted' = {[w EXCEPT !.heard = FALSE] : w \in {v \in wanted : ~v.done /\ v.kind \in {"create", "remove"}}}
  /\ hydrated' = FALSE /\ entries' = Restrict(entries, {}) /\ checks' = {} /\ passes' = {}
  /\ UNCHANGED <<life, misled, cache, forced, due, tested, horizon>>

(* The button of a card or of the banner; a pending check serves it, too.  *)
Retest(id) ==
  /\ Step /\ id \in listed /\ page \in {"list", id} /\ id \notin checks
  /\ RefreshHealth(id, TRUE)
  /\ UNCHANGED <<listVars, hydrated, passes, pageVars, horizon>>

(* Every HEALTH_POLL_MS, and when the tab is looked at again.              *)
Tick ==
  /\ Step /\ page = "list" /\ Trusted
  /\ RefreshStale(entries, listed, FALSE)
  /\ UNCHANGED <<listVars, entries, hydrated, cache, checks, pageVars, horizon>>

Age == Step /\ horizon < answers /\ horizon' = horizon + 1 /\ UNCHANGED <<listVars, storeVars, pageVars>>

(* The list and its buttons give way to a skeleton while it loads.         *)
Wants(kind, id) ==
  /\ Step /\ page = "list" /\ ~loading
  /\ wanted' = wanted \cup {Request(kind, {id})}
  /\ UNCHANGED <<life, listed, loading, loadedOnce, error, misled, storeVars, pageVars, horizon>>
Create(id) == life[id] = "unborn" /\ (\A w \in wanted : id \notin w.ids) /\ Wants("create", id)
DeleteOrEdit(id, kind) == id \in listed /\ Wants(kind, id)

RetryFetch ==
  /\ Step /\ page = "list" /\ error
  /\ loading' = TRUE /\ error' = FALSE /\ due' = TRUE
  /\ wanted' = wanted \cup {Request("fetch", {})}
  /\ misled' = (misled \/ listed # {} \/ \E w \in wanted : w.kind = "create")
  /\ UNCHANGED <<life, listed, loadedOnce, storeVars, page, forced, tested, horizon>>
-----------------------------------------------------------------------------
HealthInit ==
  /\ \E c \in Caches : cache = c.cache /\ horizon = c.horizon /\ life = c.life
  /\ listed = {} /\ loading = FALSE /\ loadedOnce = FALSE /\ error = FALSE /\ wanted = {}
  /\ hydrated = FALSE /\ entries = Restrict(cache, {}) /\ checks = {} /\ passes = {}
  /\ page = Never /\ forced = FALSE /\ due = FALSE
  /\ answers = Cardinality(Ids) /\ steps = 0 /\ outages = 0
  /\ tested = {} /\ misled = FALSE

HealthEvents ==
  \/ OpenList \/ Reload \/ Tick \/ Age \/ RetryFetch
  \/ (\E id \in Ids :
        \/ OpenPage(id) \/ Retest(id) \/ Create(id)
        \/ \E kind \in {"remove", "edit"} : DeleteOrEdit(id, kind)
        \/ \E status \in {"healthy", "unhealthy"} : CheckLands(id, status))
  \/ \E w \in wanted : Serves(w) \/ Lands(w) \/ Fails(w)

HealthNext == RunChores \/ (~Chores /\ HealthEvents)
HealthSpec == HealthInit /\ [][HealthNext]_healthVars
-----------------------------------------------------------------------------
(* Properties. *)

(* Opening the list is asking now: once its passes are over every listed   *)
(* connection was answered since it was opened, whatever the cache held,   *)
(* whatever check was pending, and whoever was added meanwhile.            *)
OpeningTestsAll ==
  (page = "list" /\ Trusted /\ ~Chores /\ passes = {} /\ checks = {}) => listed \subseteq tested

(* What is known of a connection that exists is not dropped: not over a    *)
(* list that failed to load, not over one that was added to it then.  Left *)
(* out: the list fetched again after that, which is taken for whole while  *)
(* it is under way.                                                        *)
CacheOutlivesFailures ==
  [][~misled /\ page' # Never => \A id \in Kept \cap DOMAIN entries : id \in DOMAIN entries']_healthVars
=============================================================================

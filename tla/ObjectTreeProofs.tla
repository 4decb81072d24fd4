--------------------------- MODULE ObjectTreeProofs ---------------------------
(***************************************************************************)
(* Proofs about what is beside the page of a connection, for any           *)
(* connections, caches, outages, schemas, keyspaces and filters: whether   *)
(* the connections answer (ConnectionHealth), and what the object tree     *)
(* shows of the server (ObjectTree).                                       *)
(***************************************************************************)
EXTENDS ConnectionHealth, ObjectTree, WellFoundedInduction, TLAPS

IsRecord(r, fields) == r = [f \in fields |-> r[f]]
-----------------------------------------------------------------------------
(* The health of the connections.                                          *)

IsPass(p) == IsRecord(p, {"n", "left", "busy", "force"}) /\ p.left \subseteq Ids /\ p.force \in BOOLEAN
IsRequest(w) ==
  /\ IsRecord(w, {"kind", "ids", "done", "heard"}) /\ w.ids \subseteq Ids
  /\ w.done \in BOOLEAN /\ w.heard \in BOOLEAN
HealthShape ==
  /\ listed \subseteq Ids /\ checks \subseteq Ids /\ page \in Ids \cup {"list", Never}
  /\ due \in BOOLEAN /\ forced \in BOOLEAN /\ loading \in BOOLEAN /\ loadedOnce \in BOOLEAN
  /\ error \in BOOLEAN /\ misled \in BOOLEAN /\ hydrated \in BOOLEAN
  /\ (\A p \in passes : IsPass(p)) /\ (\A w \in wanted : IsRequest(w))
  /\ life \in [Ids -> {"unborn", "kept", "gone"}]

(* An entry that is being checked has its check, and is not persisted.     *)
Entries ==
  /\ \A id \in DOMAIN entries : id \in Ids /\ (entries[id].checking => id \in checks)
  /\ \A id \in DOMAIN cache : id \in Ids /\ ~cache[id].checking

(* Since the list was opened and its first pass began, whatever has an     *)
(* entry was answered, is asked or will be; whatever else is listed will   *)
(* be asked once it is claimed.                                            *)
Answered(id) == id \in tested \cup checks \/ \E p \in passes : p.force /\ id \in p.left
Taken(id) == \E p \in passes : id \in p.left
FirstAsked == page = "list" /\ forced => \A id \in DOMAIN entries : Answered(id)
AllAsked ==
  page = "list" /\ ~due /\ Trusted => forced /\ \A id \in listed : Answered(id) \/ Taken(id)

(* Before a page is opened nothing is known, and nobody listens.           *)
Unopened ==
  /\ page = Never =>
       /\ DOMAIN entries = {} /\ checks = {} /\ passes = {} /\ ~hydrated /\ ~loading /\ ~loadedOnce
       /\ listed = {} /\ \A w \in wanted : ~w.heard
  /\ page # Never => hydrated

(* What is under way: of the fetches one at most, of the creations of a    *)
(* connection one, before the connection is there.                         *)
InFlight == \E w \in wanted : w.kind = "fetch"
Requests ==
  /\ \A w \in wanted :
       /\ w.done \/ w.kind = "fetch" => w.heard
       /\ w.heard /\ w.kind # "fetch" => loadedOnce
       /\ w.kind = "create" => \A id \in w.ids : life[id] = "unborn" <=> ~w.done
       /\ w.kind = "remove" => \A id \in w.ids : life[id] # "unborn" /\ (w.done => life[id] = "gone")
  /\ \A v, w \in wanted : v.kind = "create" /\ w.kind = "create" /\ v.ids \cap w.ids # {} => v = w
  /\ \A v, w \in wanted : v.kind = "fetch" /\ w.kind = "fetch" => v = w
  /\ loading <=> InFlight
  /\ loading => ~error
  /\ listed # {} => loadedOnce

(* Whoever may have an entry some day.                                     *)
Known == DOMAIN entries \cup DOMAIN cache \cup checks \cup {id \in Ids : Taken(id)}
Born ==
  \A id \in Ids : life[id] = "unborn" =>
    id \notin Known \cup listed /\ \A w \in wanted : w.kind = "fetch" /\ w.done => id \notin w.ids
Single == InFlight /\ ~misled => listed = {} /\ \A w \in wanted : w.kind = "create" => ~w.heard

(* A list that is trusted, or was answered and is to land, has every       *)
(* connection that exists and is known.                                    *)
Whole ==
  ~misled =>
    /\ loadedOnce /\ ~error /\ ~loading => Kept \cap Known \subseteq listed
    /\ \A w \in wanted : w.kind = "fetch" /\ w.done => Kept \cap Known \subseteq w.ids

StoreInv == Entries /\ FirstAsked /\ AllAsked
ListInv == Requests /\ Born /\ Single /\ Whole
HealthInv == HealthShape /\ Unopened /\ StoreInv /\ ListInv
-----------------------------------------------------------------------------
(* Steps of the store: no request is made, served or heard.                *)

LEMMA ListFrame ==
  ASSUME HealthInv, UNCHANGED listVars, Known' \subseteq Known \cup listed
  PROVE  ListInv'
<1>1. Requests' /\ Single' /\ (InFlight' <=> InFlight)
  BY DEF HealthInv, ListInv, listVars, Requests, Single, InFlight
<1>2. Born'
  BY DEF HealthInv, ListInv, listVars, Born
<1>3. Whole'
  BY DEF HealthInv, ListInv, listVars, Whole, Kept, Single, InFlight
<1> QED BY <1>1, <1>2, <1>3 DEF ListInv

LEMMA RunningKeeps ==
  ASSUME NEW ps, \A p \in ps : IsPass(p)
  PROVE  /\ Running(ps) \subseteq ps
         /\ \A p \in ps : p.left # {} => p \in Running(ps)
BY DEF Running

(* A check that is asked for.                                              *)
LEMMA RefreshHealthKeeps ==
  ASSUME Entries, NEW id \in Ids, NEW force, RefreshHealth(id, force)
  PROVE  /\ Entries'
         /\ checks \subseteq checks' /\ checks' \subseteq checks \cup {id}
         /\ DOMAIN entries \subseteq DOMAIN entries'
         /\ DOMAIN entries' \subseteq DOMAIN entries \cup checks'
         /\ DOMAIN cache' \subseteq DOMAIN cache \cup DOMAIN entries'
         /\ Asks(id, force) => id \in checks'
<1>1. CASE Asks(id, force) /\ id \notin checks
  <2> DEFINE e == [EntryOf(id) EXCEPT !.checking = TRUE]
             es == With(entries, id, e)
  <2>1. checks' = checks \cup {id} /\ entries' = es /\ cache' = Persisted(es)
    BY <1>1 DEF RefreshHealth, SetEntries
  <2> HIDE DEF e
  <2>2. DOMAIN es = DOMAIN entries \cup {id} /\ \A x \in DOMAIN entries \ {id} : es[x] = entries[x]
    BY DEF With
  <2> HIDE DEF es
  <2>3. DOMAIN Persisted(es) \subseteq DOMAIN es /\ \A x \in DOMAIN Persisted(es) : ~Persisted(es)[x].checking
    BY DEF Persisted, Restrict
  <2> QED BY <1>1, <2>1, <2>2, <2>3 DEF Entries
<1>2. CASE ~(Asks(id, force) /\ id \notin checks)
  BY <1>2 DEF RefreshHealth, Entries
<1> QED BY <1>1, <1>2

LEMMA RefreshStaleKeeps ==
  ASSUME \A p \in passes : IsPass(p), NEW es, NEW ids \in SUBSET Ids, NEW force \in BOOLEAN,
         RefreshStale(es, ids, force)
  PROVE  /\ \A p \in passes' : IsPass(p)
         /\ \A p \in passes : p.left # {} => p \in passes'
         /\ \A p \in passes' : p \in passes \/ p.left \subseteq ids
         /\ \A id \in StaleAmong(es, ids, force) : \E p \in passes' : p.force = force /\ id \in p.left
<1>1. PICK n : passes' = Running(passes \cup {[n |-> n, left |-> StaleAmong(es, ids, force), busy |-> {}, force |-> force]})
  BY DEF RefreshStale
<1> DEFINE q == [n |-> n, left |-> StaleAmong(es, ids, force), busy |-> {}, force |-> force]
<1>2. IsPass(q) /\ q.left = StaleAmong(es, ids, force) /\ q.force = force /\ q.left \subseteq ids
  BY DEF IsPass, IsRecord, StaleAmong
<1> HIDE DEF q
<1>3. passes' = Running(passes \cup {q})
  BY <1>1 DEF q
<1> QED BY <1>2, <1>3, RunningKeeps

(* What a worker claims is asked, or was answered.                         *)
LEMMA WorkerTakesStep ==
  ASSUME HealthInv, NEW p \in passes, NEW id \in Ids, WorkerTakes(p, id)
  PROVE  HealthInv'
<1> DEFINE q == [p EXCEPT !.left = @ \ {id}, !.busy = IF Asks(id, p.force) THEN @ \cup {id} ELSE @]
<1>1. /\ RefreshHealth(id, p.force) /\ passes' = Running((passes \ {p}) \cup {q}) /\ id \in p.left
      /\ UNCHANGED <<listVars, hydrated, pageVars>>
  BY DEF WorkerTakes
<1>2. HealthShape /\ Entries /\ FirstAsked /\ AllAsked /\ Unopened /\ IsPass(p)
  BY DEF HealthInv, StoreInv, HealthShape
<1>3. IsPass(q) /\ q.left = p.left \ {id} /\ q.force = p.force
  BY <1>2 DEF IsPass, IsRecord
<1> HIDE DEF q
<1>4. /\ \A x \in passes' : IsPass(x)
      /\ \A x \in passes' : x \in passes \/ x.left \subseteq p.left
      /\ \A x \in passes : x.left # {} => x \in passes' \/ (x.force = q.force /\ x.left \subseteq q.left \cup {id} /\ x = p)
      /\ q.left # {} => q \in passes'
  <2>1. \A x \in (passes \ {p}) \cup {q} : IsPass(x)
    BY <1>2, <1>3 DEF HealthShape
  <2> QED BY <1>1, <1>2, <1>3, <2>1, RunningKeeps DEF HealthShape
<1>5. /\ Entries' /\ checks \subseteq checks' /\ checks' \subseteq checks \cup {id}
      /\ DOMAIN entries' \subseteq DOMAIN entries \cup checks'
      /\ DOMAIN cache' \subseteq DOMAIN cache \cup DOMAIN entries'
      /\ Asks(id, p.force) => id \in checks'
  BY <1>1, <1>2, RefreshHealthKeeps
<1>6. \A x : Taken(x) => Taken(x)' \/ x = id
  BY <1>4 DEF Taken
<1>7. \A x : Answered(x) => Answered(x)'
  <2>1. p.force => id \in checks'
    BY <1>5 DEF Asks
  <2> QED BY <1>1, <1>3, <1>4, <1>5, <2>1 DEF Answered, pageVars
<1>8. FirstAsked'
  BY <1>1, <1>2, <1>5, <1>7 DEF FirstAsked, Answered, pageVars
<1>9. AllAsked'
  <2>1. SUFFICES ASSUME page = "list", ~due, Trusted
        PROVE  forced /\ \A x \in listed : Answered(x)' \/ Taken(x)'
    BY <1>1 DEF AllAsked, Trusted, pageVars, listVars
  <2>2. forced /\ \A x \in listed : Answered(x) \/ Taken(x)
    BY <1>2, <2>1 DEF AllAsked
  <2>3. Answered(id)'
    <3>1. CASE Asks(id, p.force)
      BY <1>5, <3>1 DEF Answered
    <3>2. CASE ~Asks(id, p.force)
      <4>1. id \in DOMAIN entries
        BY <3>2 DEF Asks, IsFresh, EntryOf, DefaultEntry
      <4> QED BY <1>2, <1>7, <2>1, <2>2, <4>1 DEF FirstAsked
    <3> QED BY <3>1, <3>2
  <2> QED BY <1>6, <1>7, <2>2, <2>3
<1>10. HealthShape' /\ Unopened'
  BY <1>1, <1>2, <1>4, <1>5 DEF HealthShape, Unopened, listVars, pageVars
<1>11. Known' \subseteq Known
  BY <1>1, <1>2, <1>4, <1>5 DEF Known, Taken, HealthShape
<1>12. ListInv'
  BY <1>1, <1>11, ListFrame
<1> QED BY <1>5, <1>8, <1>9, <1>10, <1>12 DEF HealthInv, StoreInv

(* The list asks about those it has: all of them the first time.           *)
LEMMA ListEffectStep ==
  ASSUME HealthInv, ListEffect
  PROVE  HealthInv'
<1>1. /\ HealthShape /\ Entries /\ FirstAsked /\ AllAsked /\ Unopened
      /\ page = "list" /\ due /\ due' = FALSE /\ UNCHANGED <<listVars, hydrated, checks, page, tested>>
      /\ Trusted' <=> Trusted
  BY DEF HealthInv, StoreInv, ListEffect, Trusted, listVars, HealthShape
<1>2. CASE ~Trusted
  <2>1. UNCHANGED <<entries, cache, passes, forced>>
    BY <1>2 DEF ListEffect
  <2>2. HealthShape' /\ Unopened' /\ Entries' /\ FirstAsked' /\ Known' = Known
    BY <1>1, <2>1 DEF HealthShape, Unopened, Entries, FirstAsked, Answered, Known, Taken, listVars
  <2>3. AllAsked'
    BY <1>1, <1>2 DEF AllAsked
  <2> QED BY <1>1, <2>2, <2>3, ListFrame DEF HealthInv, StoreInv
<1>3. CASE Trusted
  <2> DEFINE es == Prune(entries, listed)
  <2>1. entries' = es /\ cache' = Persisted(es) /\ RefreshStale(es, listed, FirstPass) /\ forced' = TRUE
    BY <1>3 DEF ListEffect, SetEntries
  <2>2. DOMAIN es = DOMAIN entries \cap listed /\ \A x \in DOMAIN es : es[x] = entries[x]
    BY <1>3 DEF Prune, Restrict, Trusted
  <2>3. DOMAIN Persisted(es) \subseteq DOMAIN es /\ \A x \in DOMAIN Persisted(es) : ~Persisted(es)[x].checking
    BY DEF Persisted, Restrict
  <2>4. FirstPass \in BOOLEAN /\ (FirstPass <=> ~forced) /\ listed \in SUBSET Ids
    BY <1>1 DEF FirstPass, HealthShape
  <2> HIDE DEF es
  <2>5. Entries'
    BY <1>1, <2>1, <2>2, <2>3 DEF Entries
  <2>6. /\ \A p \in passes' : IsPass(p)
        /\ \A p \in passes : p.left # {} => p \in passes'
        /\ \A p \in passes' : p \in passes \/ p.left \subseteq listed
        /\ \A id \in StaleAmong(es, listed, FirstPass) : \E p \in passes' : p.force = FirstPass /\ id \in p.left
    BY <1>1, <2>1, <2>4, RefreshStaleKeeps DEF HealthShape
  <2>7. \A id : Answered(id) => Answered(id)'
    BY <1>1, <2>6 DEF Answered
  <2>8. ASSUME NEW id \in listed PROVE (id \in DOMAIN es => Answered(id)') /\ (Answered(id)' \/ Taken(id)')
    <3>1. CASE id \in DOMAIN es /\ forced
      BY <1>1, <2>2, <2>7, <3>1 DEF FirstAsked
    <3>2. CASE id \in DOMAIN es /\ ~forced
      <4>1. CASE es[id].checking
        BY <1>1, <2>2, <3>2, <4>1 DEF Entries, Answered
      <4>2. CASE ~es[id].checking
        <5>1. id \in StaleAmong(es, listed, FirstPass)
          BY <2>4, <3>2, <4>2 DEF StaleAmong
        <5> QED BY <2>4, <2>6, <3>2, <5>1 DEF Answered
      <4> QED BY <4>1, <4>2
    <3>3. CASE id \notin DOMAIN es
      <4>1. id \in StaleAmong(es, listed, FirstPass)
        BY <3>3 DEF StaleAmong
      <4> QED BY <2>6, <3>3, <4>1 DEF Taken
    <3> QED BY <3>1, <3>2, <3>3
  <2>9. FirstAsked' /\ AllAsked'
    BY <1>1, <2>1, <2>2, <2>8 DEF FirstAsked, AllAsked, listVars
  <2>10. HealthShape' /\ Unopened'
    BY <1>1, <2>1, <2>6, HealthAssumption DEF HealthShape, Unopened, listVars
  <2>11. Known' \subseteq Known \cup listed
    BY <1>1, <2>1, <2>2, <2>3, <2>6 DEF Known, Taken
  <2> QED BY <1>1, <2>5, <2>9, <2>10, <2>11, ListFrame DEF HealthInv, StoreInv
<1> QED BY <1>2, <1>3

(* Steps that ask for one check, or none, and keep what is claimed.        *)
LEMMA AskStep ==
  ASSUME HealthInv, UNCHANGED <<listVars, passes>>,
         NEW id \in Ids, NEW force,
         RefreshHealth(id, force) \/ UNCHANGED <<checks, entries, cache>>,
         id \in listed \/ UNCHANGED <<checks, entries, cache>>,
         UNCHANGED <<hydrated, tested>>, page # Never, due' \in BOOLEAN, forced' = forced,
         page' \in Ids \/ (page' = page /\ due' = due)
  PROVE  HealthInv'
<1>1. /\ HealthShape /\ Entries /\ FirstAsked /\ AllAsked /\ Unopened /\ (Trusted' <=> Trusted)
  BY DEF HealthInv, StoreInv, Trusted, listVars
<1>2. /\ Entries' /\ checks \subseteq checks' /\ checks' \subseteq checks \cup {id}
      /\ DOMAIN entries \subseteq DOMAIN entries' /\ DOMAIN entries' \subseteq DOMAIN entries \cup checks'
      /\ DOMAIN cache' \subseteq DOMAIN cache \cup DOMAIN entries'
  <2>1. CASE RefreshHealth(id, force)
    BY <1>1, <2>1, RefreshHealthKeeps
  <2>2. CASE UNCHANGED <<checks, entries, cache>>
    BY <1>1, <2>2 DEF Entries
  <2> QED BY <2>1, <2>2
<1>3. \A x : (Answered(x) => Answered(x)') /\ (Taken(x) => Taken(x)')
  BY <1>2 DEF Answered, Taken
<1>4. FirstAsked'
  BY <1>1, <1>2, <1>3, HealthAssumption DEF FirstAsked, Answered
<1>5. AllAsked'
  BY <1>1, <1>3, HealthAssumption DEF AllAsked, listVars
<1>6. HealthShape'
  BY <1>1, <1>2 DEF HealthShape, listVars
<1>7. Unopened'
  BY <1>1, HealthAssumption DEF Unopened
<1>8. Known' \subseteq Known \cup listed
  BY <1>1, <1>2 DEF Known, Taken, HealthShape
<1>9. ListInv'
  BY <1>8, ListFrame
<1> QED BY <1>2, <1>4, <1>5, <1>6, <1>7, <1>9 DEF HealthInv, StoreInv

LEMMA PageEffectStep ==
  ASSUME HealthInv, PageEffect
  PROVE  HealthInv'
<1>1. /\ page \in Ids /\ page # "list" /\ page # Never /\ UNCHANGED <<listVars, passes, hydrated, tested, page, forced>>
      /\ due' = FALSE
      /\ \/ page \in listed /\ RefreshHealth(page, FALSE)
         \/ UNCHANGED <<checks, entries, cache>>
  BY HealthAssumption DEF PageEffect
<1> QED BY <1>1, AskStep

LEMMA RetestStep ==
  ASSUME HealthInv, NEW id \in Ids, Retest(id)
  PROVE  HealthInv'
<1>1. /\ id \in listed /\ page # Never /\ RefreshHealth(id, TRUE)
      /\ UNCHANGED <<listVars, passes, hydrated, tested, page, forced, due>>
  BY HealthAssumption DEF Retest, pageVars
<1> QED BY <1>1, AskStep DEF HealthInv, HealthShape

(* The cache is read once, before anything is known.                       *)
LEMMA HydrateKeeps ==
  ASSUME HealthShape, Entries, Unopened, Hydrate, UNCHANGED <<checks, cache>>
  PROVE  /\ Entries' /\ DOMAIN entries \subseteq DOMAIN entries' /\ hydrated' = TRUE
         /\ DOMAIN entries' \subseteq DOMAIN entries \cup DOMAIN cache
<1>1. CASE hydrated
  BY <1>1 DEF Hydrate, Entries
<1>2. CASE ~hydrated
  <2>1. entries' = LoadPersisted /\ DOMAIN entries = {}
    BY <1>2 DEF Hydrate, Unopened
  <2>2. /\ DOMAIN LoadPersisted \subseteq DOMAIN cache
        /\ \A x \in DOMAIN LoadPersisted : LoadPersisted[x] = cache[x]
    BY DEF LoadPersisted, Restrict
  <2> HIDE DEF LoadPersisted
  <2> QED BY <2>1, <2>2 DEF Entries, Hydrate
<1> QED BY <1>1, <1>2

LEMMA OpenListStep ==
  ASSUME HealthInv, OpenList
  PROVE  HealthInv'
<1>1. /\ HealthShape /\ Entries /\ Unopened /\ Hydrate
      /\ page' = "list" /\ forced' = FALSE /\ due' = TRUE /\ tested' = {}
      /\ UNCHANGED <<listVars, cache, checks, passes>>
  BY DEF HealthInv, StoreInv, OpenList
<1>2. /\ Entries' /\ hydrated' = TRUE /\ DOMAIN entries' \subseteq DOMAIN entries \cup DOMAIN cache
  BY <1>1, HydrateKeeps
<1>3. FirstAsked' /\ AllAsked'
  BY <1>1 DEF FirstAsked, AllAsked
<1>4. HealthShape' /\ Unopened'
  BY <1>1, <1>2, HealthAssumption DEF HealthShape, Unopened, listVars
<1>5. Known' \subseteq Known
  BY <1>1, <1>2 DEF Known, Taken
<1> QED BY <1>1, <1>2, <1>3, <1>4, <1>5, ListFrame DEF HealthInv, StoreInv

LEMMA OpenPageStep ==
  ASSUME HealthInv, NEW id \in Ids, OpenPage(id)
  PROVE  HealthInv'
<1>1. /\ page' = id /\ id # "list" /\ id # Never /\ due' = TRUE /\ UNCHANGED <<listVars, passes, forced, tested>>
  BY HealthAssumption DEF OpenPage
<1>2. CASE page = "list"
  <2>1. id \in listed /\ RefreshHealth(id, FALSE) /\ UNCHANGED hydrated /\ page # Never
    BY <1>2, HealthAssumption DEF OpenPage
  <2> QED BY <1>1, <2>1, AskStep
<1>3. CASE page # "list"
  <2>1. HealthShape /\ Entries /\ Unopened /\ Hydrate /\ UNCHANGED <<checks, cache>>
    BY <1>3 DEF OpenPage, HealthInv, StoreInv
  <2>2. /\ Entries' /\ hydrated' = TRUE /\ DOMAIN entries' \subseteq DOMAIN entries \cup DOMAIN cache
    BY <2>1, HydrateKeeps
  <2>3. FirstAsked' /\ AllAsked'
    BY <1>1 DEF FirstAsked, AllAsked
  <2>4. HealthShape' /\ Unopened'
    BY <1>1, <2>1, <2>2 DEF HealthShape, Unopened, listVars
  <2>5. Known' \subseteq Known
    BY <1>1, <2>1, <2>2 DEF Known, Taken
  <2> QED BY <1>1, <2>2, <2>3, <2>4, <2>5, ListFrame DEF HealthInv, StoreInv
<1> QED BY <1>2, <1>3

LEMMA TickStep ==
  ASSUME HealthInv, Tick
  PROVE  HealthInv'
<1>1. /\ HealthShape /\ Entries /\ FirstAsked /\ AllAsked /\ Unopened /\ (Trusted' <=> Trusted)
      /\ RefreshStale(entries, listed, FALSE) /\ page # Never
      /\ UNCHANGED <<listVars, entries, hydrated, cache, checks, page, forced, due, tested>>
  BY HealthAssumption DEF HealthInv, StoreInv, Tick, Trusted, listVars, pageVars
<1>2. /\ \A p \in passes' : IsPass(p)
      /\ \A p \in passes : p.left # {} => p \in passes'
      /\ \A p \in passes' : p \in passes \/ p.left \subseteq listed
  BY <1>1, RefreshStaleKeeps DEF HealthShape
<1>3. \A x : (Answered(x) => Answered(x)') /\ (Taken(x) => Taken(x)')
  BY <1>1, <1>2 DEF Answered, Taken
<1>4. Entries' /\ FirstAsked' /\ AllAsked'
  BY <1>1, <1>3 DEF Entries, FirstAsked, AllAsked, listVars
<1>5. HealthShape' /\ Unopened'
  BY <1>1, <1>2 DEF HealthShape, Unopened, listVars
<1>6. Known' \subseteq Known \cup listed
  BY <1>1, <1>2 DEF Known, Taken
<1> QED BY <1>1, <1>4, <1>5, <1>6, ListFrame DEF HealthInv, StoreInv

(* An answer.                                                              *)
LEMMA CheckLandsStep ==
  ASSUME HealthInv, NEW id \in Ids, NEW status, CheckLands(id, status)
  PROVE  HealthInv'
<1> DEFINE es == With(entries, id, [status |-> status, checking |-> FALSE, at |-> answers + 1])
<1>1. /\ HealthShape /\ Entries /\ FirstAsked /\ AllAsked /\ Unopened /\ (Trusted' <=> Trusted)
      /\ id \in checks /\ entries' = es /\ cache' = Persisted(es) /\ checks' = checks \ {id}
      /\ passes' = Relieved(id) /\ tested' = tested \cup {id} /\ page # Never
      /\ UNCHANGED <<listVars, hydrated, page, forced, due>>
  BY DEF HealthInv, StoreInv, CheckLands, SetEntries, Trusted, listVars, Unopened
<1>2. DOMAIN es = DOMAIN entries \cup {id} /\ ~es[id].checking /\ \A x \in DOMAIN entries \ {id} : es[x] = entries[x]
  BY DEF With
<1> HIDE DEF es
<1>3. DOMAIN Persisted(es) \subseteq DOMAIN es /\ \A x \in DOMAIN Persisted(es) : ~Persisted(es)[x].checking
  BY DEF Persisted, Restrict
<1>4. Entries'
  BY <1>1, <1>2, <1>3 DEF Entries
<1> DEFINE Q(p) == [p EXCEPT !.busy = @ \ {id}]
<1>5. \A p \in passes : IsPass(Q(p)) /\ Q(p).left = p.left /\ Q(p).force = p.force
  BY <1>1 DEF HealthShape, IsPass, IsRecord
<1>6. passes' = Running({Q(p) : p \in passes})
  BY <1>1 DEF Relieved
<1> HIDE DEF Q
<1>7. /\ \A q \in passes' : IsPass(q) /\ \E p \in passes : q.left = p.left
      /\ \A p \in passes : p.left # {} => \E q \in passes' : q.left = p.left /\ q.force = p.force
  <2>1. \A q \in {Q(p) : p \in passes} : IsPass(q)
    BY <1>5
  <2>2. /\ Running({Q(p) : p \in passes}) \subseteq {Q(p) : p \in passes}
        /\ \A q \in {Q(p) : p \in passes} : q.left # {} => q \in Running({Q(p) : p \in passes})
    BY <2>1, RunningKeeps
  <2> QED BY <1>5, <1>6, <2>1, <2>2
<1>8. \A x : (Answered(x) => Answered(x)') /\ (Taken(x) => Taken(x)')
  BY <1>1, <1>7 DEF Answered, Taken
<1>9. FirstAsked' /\ AllAsked'
  BY <1>1, <1>2, <1>8 DEF FirstAsked, AllAsked, Answered, listVars
<1>10. HealthShape' /\ Unopened'
  BY <1>1, <1>7 DEF HealthShape, Unopened, listVars
<1>11. Known' \subseteq Known
  BY <1>1, <1>2, <1>3, <1>7 DEF Known, Taken
<1> QED BY <1>1, <1>4, <1>9, <1>10, <1>11, ListFrame DEF HealthInv, StoreInv

-----------------------------------------------------------------------------
(* Steps of the list.                                                      *)

LEMMA StoreFrame ==
  ASSUME HealthInv, UNCHANGED <<storeVars, tested>>,
         UNCHANGED <<page, forced>> \/ page' # "list",
         due' \/ (due' = due /\ page' = page /\ listed' = listed /\ (Trusted' => Trusted))
  PROVE  StoreInv' /\ Known' = Known
<1>1. \A x : (Answered(x)' <=> Answered(x)) /\ (Taken(x)' <=> Taken(x))
  BY DEF Answered, Taken, storeVars
<1>2. Entries' /\ FirstAsked' /\ AllAsked'
  BY <1>1 DEF HealthInv, StoreInv, Entries, FirstAsked, AllAsked, storeVars
<1>3. Known' = Known
  BY <1>1 DEF Known, storeVars
<1> QED BY <1>2, <1>3 DEF StoreInv

LEMMA RestStep ==
  ASSUME HealthInv, UNCHANGED <<listVars, storeVars, pageVars>>
  PROVE  HealthInv'
<1>1. StoreInv' /\ Known' = Known
  BY StoreFrame DEF pageVars, listVars, Trusted
<1>2. HealthShape' /\ Unopened'
  BY DEF HealthInv, HealthShape, Unopened, listVars, storeVars, pageVars
<1> QED BY <1>1, <1>2, ListFrame DEF HealthInv

LEMMA RequestIs ==
  ASSUME NEW what, NEW ids \in SUBSET Ids
  PROVE  LET w == Request(what, ids) IN IsRequest(w) /\ w.kind = what /\ w.ids = ids /\ ~w.done /\ w.heard
BY DEF Request, IsRequest, IsRecord

(* The list is fetched: nothing is in flight, and nobody was heard when it *)
(* was never loaded.                                                       *)
LEMMA FetchStarts ==
  ASSUME HealthInv, ~loading, UNCHANGED <<life, listed, loadedOnce, storeVars, page, forced, tested>>,
         loading' = TRUE, error' = FALSE, wanted' = wanted \cup {Request("fetch", {})},
         due' = TRUE \/ (due' = due /\ ~loadedOnce), page # Never, misled' \in BOOLEAN,
         ~misled' => ~misled /\ listed = {} /\ \A w \in wanted : w.kind = "create" => ~w.heard
  PROVE  HealthInv'
<1> DEFINE f == Request("fetch", {})
<1>1. IsRequest(f) /\ f.kind = "fetch" /\ ~f.done /\ f.heard
  BY RequestIs
<1>2. wanted' = wanted \cup {f}
  OBVIOUS
<1> HIDE DEF f
<1>3. StoreInv' /\ Known' = Known
  BY StoreFrame DEF Trusted
<1>4. /\ HealthShape /\ Unopened /\ Requests /\ Born /\ Single /\ Whole /\ ~InFlight
  BY DEF HealthInv, ListInv, Requests
<1>5. HealthShape' /\ Unopened'
  BY <1>1, <1>2, <1>4 DEF HealthShape, Unopened, storeVars
<1>6. Requests'
  BY <1>1, <1>2, <1>4 DEF Requests, InFlight
<1>7. Born'
  BY <1>1, <1>2, <1>3, <1>4 DEF Born
<1>8. Single'
  BY <1>1, <1>2 DEF Single
<1>9. Whole'
  BY <1>1, <1>2, <1>3, <1>4 DEF Whole, Kept
<1> QED BY <1>3, <1>5, <1>6, <1>7, <1>8, <1>9 DEF HealthInv, ListInv

LEMMA FetchEffectStep ==
  ASSUME HealthInv, FetchEffect
  PROVE  HealthInv'
<1>1. /\ page # Never /\ listed = {} /\ ~loading /\ ~loadedOnce
      /\ loading' = TRUE /\ error' = FALSE /\ wanted' = wanted \cup {Request("fetch", {})}
      /\ UNCHANGED <<life, listed, loadedOnce, misled, storeVars, page, forced, due, tested>>
  BY DEF FetchEffect, FetchIsDue, pageVars
<1>2. \A w \in wanted : w.kind = "create" => ~w.heard
  BY <1>1 DEF HealthInv, ListInv, Requests
<1> QED BY <1>1, <1>2, FetchStarts DEF HealthInv, HealthShape

LEMMA RetryFetchStep ==
  ASSUME HealthInv, RetryFetch
  PROVE  HealthInv'
<1>1. /\ page = "list" /\ page # Never /\ error
      /\ loading' = TRUE /\ error' = FALSE /\ due' = TRUE /\ wanted' = wanted \cup {Request("fetch", {})}
      /\ misled' = (misled \/ listed # {} \/ \E w \in wanted : w.kind = "create")
      /\ UNCHANGED <<life, listed, loadedOnce, storeVars, page, forced, tested>>
  BY HealthAssumption DEF RetryFetch
<1>2. ~loading
  BY <1>1 DEF HealthInv, ListInv, Requests
<1> QED BY <1>1, <1>2, FetchStarts DEF HealthInv, HealthShape

(* A connection is to be made, removed or edited.                          *)
LEMMA WantsStep ==
  ASSUME HealthInv, ~Chores, NEW id \in Ids, NEW what \in {"create", "remove", "edit"}, Wants(what, id),
         what = "create" => life[id] = "unborn" /\ \A w \in wanted : id \notin w.ids,
         what = "remove" => id \in listed
  PROVE  HealthInv'
<1> DEFINE r == Request(what, {id})
<1>1. IsRequest(r) /\ r.kind = what /\ r.ids = {id} /\ ~r.done /\ r.heard
  BY RequestIs
<1>2. /\ wanted' = wanted \cup {r} /\ page = "list" /\ page # Never /\ ~loading
      /\ UNCHANGED <<life, listed, loading, loadedOnce, error, misled, storeVars, page, forced, due, tested>>
  BY HealthAssumption DEF Wants, pageVars
<1> HIDE DEF r
<1>3. StoreInv' /\ Known' = Known
  BY <1>2, StoreFrame DEF Trusted
<1>4. HealthShape /\ Unopened /\ Requests /\ Born /\ Single /\ Whole /\ ~InFlight
  BY <1>2 DEF HealthInv, ListInv, Requests
<1>5. HealthShape' /\ Unopened'
  BY <1>1, <1>2, <1>4 DEF HealthShape, Unopened, storeVars
<1>6. loadedOnce
  BY <1>2, <1>4 DEF Chores, FetchIsDue, Requests, HealthShape
<1>7. what = "remove" => life[id] # "unborn"
  BY <1>4 DEF Born
<1>8. Requests'
  BY <1>1, <1>2, <1>4, <1>6, <1>7 DEF Requests, InFlight
<1>9. Born'
  BY <1>1, <1>2, <1>3, <1>4 DEF Born
<1>10. Single'
  BY <1>1, <1>2, <1>4 DEF Single, InFlight
<1>11. Whole'
  BY <1>1, <1>2, <1>3, <1>4 DEF Whole, Kept
<1> QED BY <1>3, <1>5, <1>8, <1>9, <1>10, <1>11 DEF HealthInv, ListInv

(* The server does what was asked.                                         *)
LEMMA ServesStep ==
  ASSUME HealthInv, NEW w \in wanted, Serves(w)
  PROVE  HealthInv'
<1> DEFINE d == [w EXCEPT !.done = TRUE, !.ids = IF w.kind = "fetch" THEN Kept ELSE @]
<1>1. HealthShape /\ Unopened /\ Requests /\ Born /\ Single /\ Whole /\ IsRequest(w) /\ ~w.done
  BY DEF HealthInv, ListInv, HealthShape, Serves
<1>2. /\ IsRequest(d) /\ d.kind = w.kind /\ d.done /\ d.heard = w.heard
      /\ d.ids = IF w.kind = "fetch" THEN Kept ELSE w.ids
  BY <1>1 DEF IsRequest, IsRecord, Kept
<1> HIDE DEF d
<1>3. /\ wanted' = (wanted \ {w}) \cup {v \in {d} : v.heard}
      /\ UNCHANGED <<listed, loading, loadedOnce, error, misled, storeVars, page, forced, due, tested>>
      /\ w.kind = "create" => life' = [x \in Ids |-> IF x \in w.ids THEN "kept" ELSE life[x]]
      /\ w.kind = "remove" => life' = [x \in Ids |-> IF x \in w.ids THEN "gone" ELSE life[x]]
      /\ w.kind \notin {"create", "remove"} => life' = life
  BY DEF Serves, pageVars, d
<1>4. /\ life' \in [Ids -> {"unborn", "kept", "gone"}]
      /\ \A x \in Ids : /\ w.kind = "create" /\ x \in w.ids => life[x] = "unborn" /\ life'[x] = "kept"
                        /\ w.kind = "remove" /\ x \in w.ids => life[x] # "unborn" /\ life'[x] = "gone"
                        /\ w.kind \notin {"create", "remove"} \/ x \notin w.ids => life'[x] = life[x]
  BY <1>1, <1>3 DEF HealthShape, Requests
<1>5. StoreInv' /\ Known' = Known
  BY <1>3, StoreFrame DEF Trusted
<1>6. HealthShape' /\ Unopened'
  BY <1>1, <1>2, <1>3, <1>4 DEF HealthShape, Unopened, storeVars
<1>7. InFlight' <=> InFlight
  BY <1>1, <1>2, <1>3 DEF InFlight, Requests
<1>8. Requests'
  <2>1. \A v \in wanted' : v = d \/ (v \in wanted /\ v # w)
    BY <1>3
  <2>2. ASSUME NEW v \in wanted'
        PROVE  /\ v.done \/ v.kind = "fetch" => v.heard
               /\ v.heard /\ v.kind # "fetch" => loadedOnce'
               /\ v.kind = "create" => \A id \in v.ids : life'[id] = "unborn" <=> ~v.done
               /\ v.kind = "remove" => \A id \in v.ids : life'[id] # "unborn" /\ (v.done => life'[id] = "gone")
    <3>1. CASE v = d
      BY <1>1, <1>2, <1>3, <1>4, <3>1 DEF Requests, IsRequest
    <3>2. CASE v \in wanted /\ v # w
      <4>1. v.ids \subseteq Ids
        BY <1>1, <3>2 DEF HealthShape, IsRequest
      <4>2. v.kind = "create" => \A id \in v.ids : life'[id] = "unborn" <=> life[id] = "unborn"
        BY <1>1, <1>4, <3>2, <4>1 DEF Requests
      <4>3. v.kind = "remove" => \A id \in v.ids : life'[id] # "unborn" /\ (v.done => life'[id] = "gone")
        BY <1>1, <1>4, <3>2, <4>1 DEF Requests
      <4> QED BY <1>1, <1>3, <3>2, <4>2, <4>3 DEF Requests
    <3> QED BY <2>1, <3>1, <3>2
  <2>3. \A u, v \in wanted' : u.kind = "create" /\ v.kind = "create" /\ u.ids \cap v.ids # {} => u = v
    BY <1>1, <1>2, <2>1 DEF Requests
  <2>4. \A u, v \in wanted' : u.kind = "fetch" /\ v.kind = "fetch" => u = v
    BY <1>1, <1>2, <2>1 DEF Requests
  <2> QED BY <1>1, <1>3, <1>7, <2>2, <2>3, <2>4 DEF Requests
<1>9. Born'
  BY <1>1, <1>2, <1>3, <1>4, <1>5 DEF Born, Kept
<1>10. Single'
  BY <1>1, <1>2, <1>3, <1>7 DEF Single
<1>11. Whole'
  <2>1. Kept' \cap Known \subseteq Kept \cap Known
    BY <1>1, <1>4 DEF Kept, Born
  <2> QED BY <1>1, <1>2, <1>3, <1>5, <2>1 DEF Whole
<1> QED BY <1>5, <1>6, <1>8, <1>9, <1>10, <1>11 DEF HealthInv, ListInv

(* An answer is heard.                                                     *)
LEMMA LandsStep ==
  ASSUME HealthInv, NEW w \in wanted, Lands(w)
  PROVE  HealthInv'
<1>1. /\ HealthShape /\ Unopened /\ Requests /\ Born /\ Single /\ Whole /\ IsRequest(w) /\ w.done /\ w.heard
      /\ page # Never
  BY DEF HealthInv, ListInv, HealthShape, Lands, Requests, Unopened
<1>2. /\ wanted' = wanted \ {w} /\ due' = TRUE
      /\ UNCHANGED <<life, error, misled, storeVars, forced, tested>>
      /\ w.kind = "fetch" => listed' = w.ids /\ loading' = FALSE /\ loadedOnce' = TRUE
      /\ w.kind # "fetch" => UNCHANGED <<loading, loadedOnce>>
      /\ w.kind = "create" => listed' = listed \cup w.ids /\ page' \in w.ids
      /\ w.kind # "create" => page' = page
      /\ w.kind = "remove" => listed' = listed \ w.ids
      /\ w.kind \notin {"fetch", "create", "remove"} => listed' = listed
  BY DEF Lands
<1>3. page' = page \/ (page' \in Ids /\ page' # "list" /\ page' # Never)
  BY <1>1, <1>2, HealthAssumption DEF IsRequest
<1>4. StoreInv' /\ Known' = Known
  BY <1>2, <1>3, StoreFrame
<1>5. HealthShape' /\ Unopened'
  BY <1>1, <1>2, <1>3 DEF HealthShape, Unopened, storeVars, IsRequest
<1>6. w.kind # "fetch" => loadedOnce
  BY <1>1 DEF Requests
<1>7. Requests'
  BY <1>1, <1>2, <1>6 DEF Requests, InFlight
<1>8. \A id \in listed' : id \in listed \/ life[id] # "unborn"
  BY <1>1, <1>2 DEF Requests, Born, HealthShape, IsRequest
<1>9. Born'
  BY <1>1, <1>2, <1>4, <1>8 DEF Born
<1>10. Single'
  BY <1>1, <1>2 DEF Single, InFlight, Requests
<1>11. Whole'
  <2>1. CASE w.kind = "fetch"
    BY <1>1, <1>2, <1>4, <2>1 DEF Whole, Kept, Requests
  <2>2. CASE w.kind # "fetch"
    <3>1. Kept \cap listed \subseteq listed'
      <4>1. CASE w.kind = "remove"
        <5>1. \A id \in w.ids : life[id] = "gone"
          BY <1>1, <4>1 DEF Requests
        <5> QED BY <1>2, <4>1, <5>1 DEF Kept
      <4>2. CASE w.kind # "remove"
        BY <1>2, <2>2, <4>2
      <4> QED BY <4>1, <4>2
    <3> QED BY <1>1, <1>2, <1>4, <2>2, <3>1 DEF Whole, Kept
  <2> QED BY <2>1, <2>2
<1> QED BY <1>4, <1>5, <1>7, <1>9, <1>10, <1>11 DEF HealthInv, ListInv

(* A request fails, whatever the server did.                               *)
LEMMA FailsStep ==
  ASSUME HealthInv, NEW w \in wanted, Fails(w)
  PROVE  HealthInv'
<1>1. /\ HealthShape /\ Unopened /\ Requests /\ Born /\ Single /\ Whole /\ w.heard /\ page # Never
      /\ wanted' = wanted \ {w}
      /\ w.kind = "fetch" => loading' = FALSE /\ loadedOnce' = TRUE /\ error' = TRUE
      /\ w.kind # "fetch" => UNCHANGED <<loading, loadedOnce, error>>
      /\ UNCHANGED <<life, listed, misled, storeVars, page, forced, due, tested>>
  BY DEF HealthInv, ListInv, Fails, pageVars, Unopened
<1>2. StoreInv' /\ Known' = Known
  BY <1>1, StoreFrame DEF Trusted
<1>3. HealthShape' /\ Unopened'
  BY <1>1 DEF HealthShape, Unopened, storeVars
<1>4. Requests'
  BY <1>1 DEF Requests, InFlight
<1>5. Born' /\ Single'
  BY <1>1, <1>2 DEF Born, Single, InFlight
<1>6. Whole'
  BY <1>1, <1>2 DEF Whole, Kept
<1> QED BY <1>2, <1>3, <1>4, <1>5, <1>6 DEF HealthInv, ListInv

LEMMA ReloadStep ==
  ASSUME HealthInv, Reload
  PROVE  HealthInv'
<1> DEFINE U(w) == [w EXCEPT !.heard = FALSE]
           W == {v \in wanted : ~v.done /\ v.kind \in {"create", "remove"}}
<1>1. HealthShape /\ Requests /\ Born /\ Entries
  BY DEF HealthInv, StoreInv, ListInv
<1>2. /\ page' = Never /\ listed' = {} /\ loading' = FALSE /\ loadedOnce' = FALSE /\ error' = FALSE
      /\ wanted' = {U(w) : w \in W}
      /\ hydrated' = FALSE /\ entries' = Restrict(entries, {}) /\ checks' = {} /\ passes' = {}
      /\ UNCHANGED <<life, misled, cache, forced, due>>
  BY DEF Reload
<1>3. \A w \in W : /\ IsRequest(U(w)) /\ U(w).kind = w.kind /\ U(w).ids = w.ids /\ ~U(w).done /\ ~U(w).heard
                   /\ U(w).kind \in {"create", "remove"}
  <2> SUFFICES ASSUME NEW w \in wanted, ~w.done, w.kind \in {"create", "remove"}
      PROVE  LET u == [w EXCEPT !.heard = FALSE] IN
             IsRequest(u) /\ u.kind = w.kind /\ u.ids = w.ids /\ ~u.done /\ ~u.heard
    OBVIOUS
  <2>1. IsRequest(w)
    BY <1>1 DEF HealthShape
  <2> QED BY <2>1 DEF IsRequest, IsRecord
<1>4. W \subseteq wanted /\ \A w \in W : ~w.done
  OBVIOUS
<1> HIDE DEF U, W
<1>5. DOMAIN entries' = {}
  BY <1>2 DEF Restrict
<1>6. HealthShape' /\ Unopened'
  BY <1>1, <1>2, <1>3, <1>5 DEF HealthShape, Unopened
<1>7. StoreInv'
  BY <1>1, <1>2, <1>5, HealthAssumption DEF StoreInv, Entries, FirstAsked, AllAsked
<1>8. ~InFlight'
  BY <1>2, <1>3 DEF InFlight
<1>9. Requests'
  <2>1. \A w \in W : /\ U(w).kind = "create" => \A id \in U(w).ids : life[id] = "unborn"
                     /\ U(w).kind = "remove" => \A id \in U(w).ids : life[id] # "unborn"
    BY <1>1, <1>3, <1>4 DEF Requests
  <2>2. \A v, w \in W : U(v).kind = "create" /\ U(w).kind = "create" /\ U(v).ids \cap U(w).ids # {} => U(v) = U(w)
    BY <1>1, <1>3, <1>4 DEF Requests
  <2> QED BY <1>2, <1>3, <1>8, <2>1, <2>2 DEF Requests
<1>10. Known' \subseteq Known
  BY <1>2, <1>5 DEF Known, Taken
<1>11. Born' /\ Single' /\ Whole'
  BY <1>1, <1>2, <1>3, <1>8, <1>10 DEF Born, Single, Whole
<1> QED BY <1>6, <1>7, <1>9, <1>11 DEF HealthInv, ListInv

LEMMA HealthStep == HealthInv /\ [HealthNext]_healthVars => HealthInv'
<1> SUFFICES ASSUME HealthInv, [HealthNext]_healthVars PROVE HealthInv'
  OBVIOUS
<1>1. CASE UNCHANGED healthVars \/ Age
  BY <1>1, RestStep DEF healthVars, Age
<1>2. CASE RunChores
  BY <1>2, ListEffectStep, PageEffectStep, FetchEffectStep, WorkerTakesStep DEF RunChores
<1>3. CASE ~Chores /\ (OpenList \/ Reload \/ Tick \/ RetryFetch)
  BY <1>3, OpenListStep, ReloadStep, TickStep, RetryFetchStep
<1>4. CASE ~Chores /\ \E id \in Ids :
             \/ OpenPage(id) \/ Retest(id) \/ \E status \in {"healthy", "unhealthy"} : CheckLands(id, status)
  BY <1>4, OpenPageStep, RetestStep, CheckLandsStep
<1>5. CASE ~Chores /\ \E id \in Ids : Create(id) \/ \E what \in {"remove", "edit"} : DeleteOrEdit(id, what)
  BY <1>5, WantsStep DEF Create, DeleteOrEdit
<1>6. CASE ~Chores /\ \E w \in wanted : Serves(w) \/ Lands(w) \/ Fails(w)
  BY <1>6, ServesStep, LandsStep, FailsStep
<1> QED BY <1>1, <1>2, <1>3, <1>4, <1>5, <1>6 DEF HealthNext, HealthEvents

LEMMA HealthStarts == HealthInit => HealthInv
<1> SUFFICES ASSUME HealthInit PROVE HealthInv
  OBVIOUS
<1>1. PICK c \in Caches : cache = c.cache /\ life = c.life
  BY DEF HealthInit
<1>2. DOMAIN entries = {}
  BY DEF HealthInit, Restrict
<1>3. HealthShape /\ Unopened
  BY <1>1, <1>2, HealthAssumption DEF HealthInit, HealthShape, Unopened
<1>4. StoreInv
  BY <1>1, <1>2, HealthAssumption DEF HealthInit, StoreInv, Entries, FirstAsked, AllAsked
<1>5. ListInv
  BY <1>1, <1>2, HealthAssumption DEF HealthInit, ListInv, Requests, InFlight, Born, Single, Whole, Known, Taken
<1> QED BY <1>3, <1>4, <1>5 DEF HealthInv

LEMMA HealthHolds == HealthSpec => []HealthInv
BY HealthStarts, HealthStep, PTL DEF HealthSpec

(* Whoever opens the list has every connection on it asked anew: once the  *)
(* passes are over each was answered since, whatever was cached, pending   *)
(* or added: a fresh entry was answered, is asked, or is claimed by the    *)
(* pass that does not trust it.                                            *)
THEOREM OpeningTestsEveryone == HealthSpec => []OpeningTestsAll
<1>1. HealthInv => OpeningTestsAll
  BY HealthAssumption DEF HealthInv, StoreInv, HealthShape, AllAsked, Answered, Taken, OpeningTestsAll, Chores
<1> QED BY <1>1, HealthHolds, PTL

(* No step drops what is known of a connection that exists, unless the     *)
(* list was fetched again over creations: the list that prunes the entries *)
(* is whole, and the cache is read before there are any.                   *)
THEOREM FailuresKeepWhatIsKnown == HealthSpec => CacheOutlivesFailures
<1> DEFINE Keeps == ~misled /\ page' # Never => \A id \in Kept \cap DOMAIN entries : id \in DOMAIN entries'
<1>1. HealthInv /\ [HealthNext]_healthVars => [Keeps]_healthVars
  <2> SUFFICES ASSUME HealthInv, HealthNext, ~misled, page' # Never PROVE Kept \cap DOMAIN entries \subseteq DOMAIN entries'
    OBVIOUS
  <2>1. /\ HealthShape /\ Entries /\ Unopened /\ Requests /\ Single /\ Whole
    BY DEF HealthInv, StoreInv, ListInv
  <2>2. CASE UNCHANGED entries
    BY <2>2
  <2>3. CASE ListEffect
    <3>1. ASSUME Trusted PROVE Kept \cap DOMAIN entries \subseteq listed
      <4>1. ~loading
        BY <2>1, <3>1 DEF Requests, Single, Trusted
      <4> QED BY <2>1, <3>1, <4>1 DEF Whole, Known, Trusted
    <3> QED BY <2>3, <3>1 DEF ListEffect, SetEntries, Prune, Restrict
  <2>4. CASE OpenList \/ \E id \in Ids : page # "list" /\ OpenPage(id)
    <3>1. Hydrate /\ UNCHANGED <<checks, cache>>
      BY <2>4 DEF OpenList, OpenPage
    <3> QED BY <2>1, <3>1, HydrateKeeps
  <2>5. CASE \E id \in Ids, force \in BOOLEAN : RefreshHealth(id, force)
    BY <2>1, <2>5, RefreshHealthKeeps
  <2>6. CASE \E id \in Ids, status \in {"healthy", "unhealthy"} : CheckLands(id, status)
    BY <2>6 DEF CheckLands, SetEntries, With
  <2>7. CASE RunChores
    <3>1. CASE PageEffect
      <4>1. UNCHANGED entries \/ (RefreshHealth(page, FALSE) /\ page \in Ids)
        BY <3>1 DEF PageEffect
      <4> QED BY <2>2, <2>5, <4>1
    <3>2. CASE FetchEffect
      BY <2>2, <3>2 DEF FetchEffect, storeVars
    <3>3. ASSUME NEW p \in passes, NEW id \in Ids, WorkerTakes(p, id) PROVE Kept \cap DOMAIN entries \subseteq DOMAIN entries'
      BY <2>1, <2>5, <3>3 DEF WorkerTakes, HealthShape, IsPass
    <3> QED BY <2>3, <2>7, <3>1, <3>2, <3>3 DEF RunChores
  <2>8. CASE HealthEvents
    <3>1. CASE Reload
      BY <3>1 DEF Reload
    <3>2. CASE Tick \/ Age \/ RetryFetch
      BY <2>2, <3>2 DEF Tick, Age, RetryFetch, storeVars
    <3>3. ASSUME NEW id \in Ids, OpenPage(id) \/ Retest(id) PROVE Kept \cap DOMAIN entries \subseteq DOMAIN entries'
      BY <2>4, <2>5, <3>3 DEF OpenPage, Retest
    <3>4. ASSUME NEW id \in Ids, Create(id) \/ \E what \in {"remove", "edit"} : DeleteOrEdit(id, what)
          PROVE  UNCHANGED entries
      BY <3>4 DEF Create, DeleteOrEdit, Wants, storeVars
    <3>5. ASSUME NEW w \in wanted, Serves(w) \/ Lands(w) \/ Fails(w) PROVE UNCHANGED entries
      BY <3>5 DEF Serves, Lands, Fails, storeVars
    <3> QED BY <2>2, <2>4, <2>6, <2>8, <3>1, <3>2, <3>3, <3>4, <3>5 DEF HealthEvents
  <2> QED BY <2>7, <2>8 DEF HealthNext
<1> QED BY <1>1, HealthHolds, PTL DEF HealthSpec, CacheOutlivesFailures

-----------------------------------------------------------------------------
(* The object tree.                                                        *)

IsCall(c) ==
  /\ IsRecord(c, {"op", "path", "n", "pattern", "node", "cursor", "newest", "sound", "answer"})
  /\ c.op \in {"load", "refresh", "more"} /\ c.path \in Paths
  /\ c.pattern \subseteq Keys /\ c.node \subseteq Keys /\ c.cursor \in Cursors \cup {None}
  /\ c.newest \in BOOLEAN /\ c.sound \in BOOLEAN
  /\ c.op # "more" => c.cursor = None
  /\ c.answer # None /\ c.answer.ok => c.answer.cursor \in Cursors \cup {None}
IsTurn(r) == IsRecord(r, {"n", "newest", "job"}) /\ r.job \in BOOLEAN
IsTree(t) ==
  /\ IsRecord(t, {"items", "cursor", "loading", "errors", "loaded", "expanded"})
  /\ IsRecord(t.items, Paths) /\ t.errors \in [Paths -> BOOLEAN]
  /\ t.loading \in [Paths -> BOOLEAN] /\ t.loaded \in [Paths -> BOOLEAN]
  /\ t.expanded \subseteq Schemas /\ t.cursor \in Cursors \cup {None}
TreeShape ==
  /\ kind \in {"redis", "postgres"} /\ schemas \subseteq Schemas /\ tables \in [Schemas -> SUBSET Tables]
  /\ keys \subseteq Keys /\ pattern \subseteq Keys /\ node \subseteq Keys /\ IsTree(tree)
  /\ mixed \in BOOLEAN /\ fits \in BOOLEAN
  /\ (\A c \in calls : IsCall(c)) /\ (\A r \in refreshes : IsTurn(r)) /\ job \in Jobs \cup {None}

(* The fetch whose answer a path takes, of which there is one at most.     *)
Latest(c) == c.op # "more" /\ c.newest
OneLatest == \A c, d \in calls : Latest(c) /\ Latest(d) /\ c.path = d.path => c = d

(* One change at a time is followed by one refresh, which is there while a *)
(* fetch of it is; in a Postgres tree nothing else refreshes.              *)
Turns ==
  /\ \A r \in refreshes : r.job => job # None /\ job.stage = "refreshing"
  /\ \A r, q \in refreshes : r.job /\ q.job => r = q
  /\ \A c \in calls : c.op = "refresh" => \E r \in refreshes : r.n = c.n
  /\ kind = "postgres" => \A r \in refreshes : r.job

(* The keys that were there all the time, of a filter and a node, that the *)
(* scan met between two cursors are among those that were found.           *)
Reached(i, cursor) == cursor = None \/ i <= cursor.pos
From(cursor) == IF cursor = None THEN 0 ELSE cursor.pos
Covers(ks, found, from, cursor, pat, nd) ==
  \A i \in DOMAIN Keyspace :
    i > from /\ Reached(i, cursor) /\ Keyspace[i] \in (ks \ Volatile) \cap pat \cap nd
      => Keyspace[i] \in found

(* What an answer of a Redis server holds, and what the tree does.         *)
IsPage(ks, c) ==
  c.answer # None /\ c.answer.ok =>
    /\ c.answer.items \subseteq c.pattern \cap c.node /\ c.answer.cursor \in Cursors \cup {None}
    /\ Covers(ks, c.answer.items, From(c.cursor), c.answer.cursor, c.pattern, c.node)
Found(ks, items, cursor, pat, nd) ==
  items # None => items \subseteq pat \cap nd /\ Covers(ks, items, 0, cursor, pat, nd)

(* A continued scan that is sound goes on from where the tree is; the      *)
(* newest fetch asks for what is on screen, and while the list is of       *)
(* another filter or node it is on its way or has failed.                  *)
GoesOn(c) ==
  fits /\ c.pattern = pattern /\ c.node = node /\ c.cursor = tree.cursor /\ c.cursor # None
Flat == tree.expanded = {} /\ \A c \in calls : c.path = Root
Scans ==
  /\ \A c \in calls : Latest(c) => c.pattern = pattern /\ c.node = node
  /\ \A c \in calls : c.op = "more" /\ c.sound => GoesOn(c)
  /\ ~fits => tree.errors[Root] \/ \E c \in calls : Latest(c)
  /\ tree.cursor # None => tree.items[Root] # None
  /\ tree.items[Root] # None => tree.items[Root] \subseteq Keys
  /\ \A c \in calls : IsPage(keys, c)
  /\ fits /\ ~mixed => Found(keys, tree.items[Root], tree.cursor, pattern, node)
RedisInv == kind = "redis" => Flat /\ Scans

(* A change of a schema that its refresh has yet to follow excuses what is *)
(* cached of the schema and what is on its way.                            *)
DoneOn(s) == job # None /\ job.stage = "done" /\ job.schema = s
Due(c) ==
  LET s == c.path IN
  Latest(c) /\ s \in schemas /\ c.answer # None =>
    c.answer.items = tables[s] \/ DoneOn(s) \/ (~c.sound /\ s \in skipped)
Cached(s) ==
  tree.items[s] # None /\ ~tree.errors[s] =>
    tree.items[s] = tables[s] \/ DoneOn(s) \/ s \in skipped \/ \E c \in calls : Latest(c) /\ c.path = s
PostgresInv == kind = "postgres" => (\A c \in calls : Due(c)) /\ \A s \in schemas : Cached(s)

TreeInv == TreeShape /\ OneLatest /\ Turns /\ RedisInv /\ PostgresInv

SameAsk(c, d) ==
  /\ d.op = c.op /\ d.path = c.path /\ d.n = c.n /\ d.pattern = c.pattern /\ d.node = c.node
  /\ d.cursor = c.cursor /\ d.answer = c.answer

(* Calls after some were superseded, lost the list they were to go on      *)
(* from, or became older than what the user was told.                      *)
LEMMA ClaimedCall ==
  ASSUME NEW c, IsCall(c)
  PROVE  LET d == [c EXCEPT !.newest = FALSE] IN IsCall(d) /\ SameAsk(c, d) /\ d.sound = c.sound /\ ~d.newest
BY DEF IsCall, IsRecord, SameAsk

LEMMA UnsoundCall ==
  ASSUME NEW c, IsCall(c)
  PROVE  LET d == [c EXCEPT !.sound = FALSE] IN IsCall(d) /\ SameAsk(c, d) /\ d.newest = c.newest /\ ~d.sound
BY DEF IsCall, IsRecord, SameAsk

LEMMA ClaimedCalls ==
  ASSUME NEW cs, \A c \in cs : IsCall(c), NEW paths
  PROVE  /\ \A d \in Claimed(cs, paths) :
              /\ IsCall(d)
              /\ \E c \in cs : /\ SameAsk(c, d) /\ d.sound = c.sound
                               /\ c.op = "more" \/ c.path \notin paths => d = c
                               /\ c.op # "more" /\ c.path \in paths => ~d.newest
         /\ \A c \in cs : c.op = "more" \/ c.path \notin paths => c \in Claimed(cs, paths)
<1>1. ASSUME NEW d \in Claimed(cs, paths)
      PROVE  /\ IsCall(d)
             /\ \E c \in cs : /\ SameAsk(c, d) /\ d.sound = c.sound
                              /\ c.op = "more" \/ c.path \notin paths => d = c
                              /\ c.op # "more" /\ c.path \in paths => ~d.newest
  <2>1. PICK c \in cs : d = IF c.path \in paths /\ c.op # "more" THEN [c EXCEPT !.newest = FALSE] ELSE c
    BY DEF Claimed
  <2>2. IsCall(c) /\ SameAsk(c, c)
    BY DEF SameAsk
  <2> QED BY <2>1, <2>2, ClaimedCall
<1> QED BY <1>1 DEF Claimed

LEMMA UnsoundCalls ==
  ASSUME NEW cs, \A c \in cs : IsCall(c)
  PROVE  /\ \A d \in Unsound(cs) :
              /\ IsCall(d)
              /\ \E c \in cs : SameAsk(c, d) /\ d.newest = c.newest
                                 /\ (c.op # "more" => d = c) /\ (c.op = "more" => ~d.sound)
         /\ \A c \in cs : c.op # "more" => c \in Unsound(cs)
         /\ \A c \in cs : \E d \in Unsound(cs) : SameAsk(c, d)
<1>1. ASSUME NEW c \in cs
      PROVE  LET d == IF c.op = "more" THEN [c EXCEPT !.sound = FALSE] ELSE c IN
             /\ IsCall(d) /\ SameAsk(c, d) /\ d.newest = c.newest
             /\ c.op # "more" => d = c
             /\ c.op = "more" => ~d.sound
  <2>1. IsCall(c) /\ SameAsk(c, c)
    BY DEF SameAsk
  <2> QED BY <2>1, UnsoundCall
<1> QED BY <1>1 DEF Unsound

LEMMA OlderCalls ==
  ASSUME NEW cs, \A c \in cs : IsCall(c)
  PROVE  /\ \A d \in Older(cs) :
              /\ IsCall(d)
              /\ \E c \in cs : SameAsk(c, d) /\ d.newest = c.newest
                                 /\ (c.op = "more" => d = c) /\ (c.op # "more" => ~d.sound)
         /\ \A c \in cs : \E d \in Older(cs) : SameAsk(c, d) /\ d.newest = c.newest
<1>1. ASSUME NEW c \in cs
      PROVE  LET d == IF c.op = "more" THEN c ELSE [c EXCEPT !.sound = FALSE] IN
             /\ IsCall(d) /\ SameAsk(c, d) /\ d.newest = c.newest
             /\ c.op = "more" => d = c
             /\ c.op # "more" => ~d.sound
  <2>1. IsCall(c) /\ SameAsk(c, c)
    BY DEF SameAsk
  <2> QED BY <2>1, UnsoundCall
<1> QED BY <1>1 DEF Older

LEMMA NewCallIs ==
  ASSUME NEW op \in {"load", "refresh", "more"}, NEW path \in Paths, NEW n, NEW pat \in SUBSET Keys,
         NEW nd \in SUBSET Keys, NEW cur \in Cursors \cup {None}, op # "more" => cur = None
  PROVE  LET c == NewCall(op, path, n, pat, nd, cur) IN
         /\ IsCall(c) /\ c.op = op /\ c.path = path /\ c.n = n /\ c.pattern = pat /\ c.node = nd
         /\ c.cursor = cur /\ c.newest /\ c.sound /\ c.answer = None
BY DEF NewCall, IsCall, IsRecord

stateOfTree == <<kind, serverVars, tree, askVars, calls, refreshes, job, mixed, fits, skipped>>

LEMMA TreeFrame ==
  ASSUME TreeInv, UNCHANGED stateOfTree
  PROVE  TreeInv'
<1> USE DEF stateOfTree, serverVars, askVars
<1>1. TreeShape' /\ OneLatest' /\ Turns'
  BY DEF TreeInv, TreeShape, OneLatest, Turns
<1>2. RedisInv'
  BY DEF TreeInv, RedisInv, Flat, Scans, GoesOn
<1>3. PostgresInv'
  BY DEF TreeInv, PostgresInv, Due, Cached, DoneOn
<1> QED BY <1>1, <1>2, <1>3 DEF TreeInv

(* Any change of the tree but of what it lists and of its errors.          *)
SameList(t, u) == IsTree(u) /\ u.items = t.items /\ u.cursor = t.cursor /\ u.errors = t.errors

LEMMA FetchTreeStep ==
  ASSUME TreeInv, NEW path \in Paths, NEW t, FetchTree(path, t), SameList(tree, t),
         kind = "redis" => path = Root /\ t.expanded = {},
         UNCHANGED <<kind, serverVars, askVars, refreshes, job, mixed, fits, skipped>>
  PROVE  TreeInv'
<1> USE DEF serverVars, askVars
<1>0. TreeShape /\ OneLatest /\ Turns /\ RedisInv /\ PostgresInv
  BY DEF TreeInv
<1>1. CASE Pending(path)
  <2>1. tree' = t /\ calls' = calls
    BY <1>1 DEF FetchTree
  <2>2. TreeShape' /\ OneLatest' /\ Turns'
    BY <1>0, <2>1 DEF TreeShape, OneLatest, Turns, SameList
  <2>3. RedisInv'
    BY <1>0, <2>1 DEF RedisInv, Flat, Scans, GoesOn, SameList
  <2>4. PostgresInv'
    BY <1>0, <2>1 DEF PostgresInv, Due, Cached, DoneOn, SameList
  <2> QED BY <2>2, <2>3, <2>4 DEF TreeInv
<1>2. CASE ~Pending(path)
  <2> DEFINE new == NewCall("load", path, 1, pattern, node, None)
             old == Claimed(calls, {path})
  <2>1. calls' = old \cup {new} /\ tree' = [t EXCEPT !.loading[path] = TRUE, !.errors[path] = FALSE]
    BY <1>2 DEF FetchTree
  <2>2. /\ IsCall(new) /\ new.op = "load" /\ new.path = path /\ new.pattern = pattern /\ new.node = node
        /\ new.cursor = None /\ new.newest /\ new.answer = None
    BY <1>0, NewCallIs DEF TreeShape
  <2>3. /\ \A d \in old :
              /\ IsCall(d)
              /\ \E c \in calls : /\ SameAsk(c, d) /\ d.sound = c.sound
                                  /\ c.op = "more" \/ c.path # path => d = c
                                  /\ c.op # "more" /\ c.path = path => ~d.newest
        /\ \A c \in calls : c.op = "more" \/ c.path # path => c \in old
    <3>1. \A c \in calls : IsCall(c)
      BY <1>0 DEF TreeShape
    <3> QED BY <3>1, ClaimedCalls
  <2>4. /\ IsTree(tree') /\ tree'.items = tree.items /\ tree'.cursor = tree.cursor
        /\ tree'.errors[path] = FALSE /\ \A p \in Paths \ {path} : tree'.errors[p] = tree.errors[p]
        /\ tree'.expanded = t.expanded
    <3>1. IsTree(t)
      BY DEF SameList
    <3>2. /\ IsTree(tree') /\ tree'.items = t.items /\ tree'.cursor = t.cursor
          /\ tree'.errors = [t.errors EXCEPT ![path] = FALSE] /\ tree'.expanded = t.expanded
      BY <2>1, <3>1 DEF IsTree, IsRecord
    <3>3. t.errors \in [Paths -> BOOLEAN]
      BY <3>1 DEF IsTree
    <3> QED BY <3>2, <3>3 DEF SameList
  <2> HIDE DEF new, old
  <2>5. TreeShape'
    BY <1>0, <2>1, <2>2, <2>3, <2>4 DEF TreeShape
  <2>6. OneLatest'
    BY <1>0, <2>1, <2>2, <2>3 DEF OneLatest, Latest, SameAsk
  <2>7. Turns'
    BY <1>0, <2>1, <2>2, <2>3 DEF Turns, SameAsk
  <2>8. RedisInv'
    <3> SUFFICES ASSUME kind = "redis" PROVE Flat' /\ Scans'
      BY DEF RedisInv
    <3>1. Flat /\ Scans /\ path = Root
      BY <1>0 DEF RedisInv
    <3>2. Flat'
      BY <2>1, <2>2, <2>3, <2>4, <3>1 DEF Flat, SameAsk
    <3>3. \A c \in calls' : Latest(c) => c.pattern = pattern' /\ c.node = node'
      BY <2>1, <2>2, <2>3, <3>1 DEF Scans, Latest, SameAsk
    <3>4. \A c \in calls' : c.op = "more" /\ c.sound => GoesOn(c)'
      BY <2>1, <2>2, <2>3, <2>4, <3>1 DEF Scans, GoesOn, SameAsk
    <3>5. Latest(new) /\ new \in calls'
      BY <2>1, <2>2 DEF Latest
    <3>6. \A c \in calls' : IsPage(keys', c)
      BY <2>1, <2>2, <2>3, <3>1 DEF Scans, IsPage, SameAsk
    <3> QED BY <2>4, <3>1, <3>2, <3>3, <3>4, <3>5, <3>6 DEF Scans
  <2>9. PostgresInv'
    <3> SUFFICES ASSUME kind = "postgres" PROVE (\A c \in calls' : Due(c)') /\ \A s \in schemas : Cached(s)'
      BY DEF PostgresInv
    <3>1. ASSUME NEW d \in calls' PROVE Due(d)'
      <4>1. CASE d = new
        BY <2>2, <4>1 DEF Due
      <4>2. CASE d \in old /\ ~Latest(d)
        BY <4>2 DEF Due
      <4>3. CASE d \in old /\ Latest(d)
        <5>1. d \in calls
          BY <2>3, <4>3 DEF Latest, SameAsk
        <5> QED BY <1>0, <5>1 DEF PostgresInv, Due, DoneOn
      <4> QED BY <2>1, <4>1, <4>2, <4>3
    <3>2. ASSUME NEW s \in schemas PROVE Cached(s)'
      <4>1. CASE s = path
        BY <2>1, <2>2, <4>1 DEF Cached, Latest
      <4>2. CASE s # path
        <5>1. s \in Paths /\ tree'.errors[s] = tree.errors[s]
          BY <1>0, <2>4, <4>2 DEF TreeShape, Paths
        <5>2. \A c \in calls : Latest(c) /\ c.path = s => c \in calls'
          BY <2>1, <2>3, <4>2
        <5> QED BY <1>0, <2>4, <5>1, <5>2 DEF PostgresInv, Cached, DoneOn
      <4> QED BY <4>1, <4>2
    <3> QED BY <3>1, <3>2
  <2> QED BY <2>5, <2>6, <2>7, <2>8, <2>9 DEF TreeInv
<1> QED BY <1>1, <1>2

LEMMA MountStep ==
  ASSUME TreeInv, Mount
  PROVE  TreeInv'
<1>1. SameList(tree, tree) /\ Root \in Paths /\ (kind = "redis" => tree.expanded = {})
  BY DEF TreeInv, TreeShape, RedisInv, Flat, SameList, Paths
<1> QED BY <1>1, FetchTreeStep DEF Mount, historyVars

LEMMA RetryStep ==
  ASSUME TreeInv, NEW path \in Paths, Retry(path)
  PROVE  TreeInv'
<1>1. SameList(tree, tree) /\ (kind = "redis" => tree.expanded = {})
  BY DEF TreeInv, TreeShape, RedisInv, Flat, SameList
<1>2. kind = "redis" => path = Root
  BY <1>1 DEF Retry, SchemaScreen
<1> QED BY <1>1, <1>2, FetchTreeStep DEF Retry, historyVars

LEMMA HandleNodeClickStep ==
  ASSUME TreeInv, NEW s \in Schemas, HandleNodeClick(s)
  PROVE  TreeInv'
<1> DEFINE t == [tree EXCEPT !.expanded = Toggled(@, s)]
<1>1. IsTree(tree) /\ kind = "postgres"
  BY DEF HandleNodeClick, TreeInv, TreeShape
<1>2. SameList(tree, t)
  <2>1. Toggled(tree.expanded, s) \subseteq Schemas
    BY <1>1 DEF IsTree, Toggled
  <2> QED BY <1>1, <2>1 DEF SameList, IsTree, IsRecord
<1>3. \/ FetchTree(s, t)
      \/ tree' = t /\ UNCHANGED calls
  BY DEF HandleNodeClick
<1> HIDE DEF t
<1>4. CASE FetchTree(s, t)
  BY <1>1, <1>2, <1>4, FetchTreeStep DEF HandleNodeClick, historyVars, Paths
<1>5. CASE tree' = t /\ UNCHANGED calls
  <2> USE DEF HandleNodeClick, serverVars, askVars, historyVars, SameList
  <2>1. TreeShape' /\ OneLatest' /\ Turns'
    BY <1>2, <1>5 DEF TreeInv, TreeShape, OneLatest, Turns
  <2>2. RedisInv'
    BY <1>1 DEF RedisInv
  <2>3. PostgresInv'
    BY <1>2, <1>5 DEF TreeInv, PostgresInv, Due, Cached, DoneOn
  <2> QED BY <2>1, <2>2, <2>3 DEF TreeInv
<1> QED BY <1>3, <1>4, <1>5

(* A change of the server is asked for.                                    *)
LEMMA JobStep ==
  ASSUME TreeInv, job = None, NEW op, NEW s, NEW o, job' = Job(op, s, o), job' \in Jobs,
         UNCHANGED <<kind, serverVars, tree, askVars, calls, refreshes, mixed, fits, skipped>>
  PROVE  TreeInv'
<1> USE DEF serverVars, askVars
<1>1. job'.stage = "asked"
  BY DEF Job
<1>2. TreeShape' /\ OneLatest' /\ Turns'
  BY <1>1 DEF TreeInv, TreeShape, OneLatest, Turns
<1>3. RedisInv'
  BY DEF TreeInv, RedisInv, Flat, Scans, GoesOn
<1>4. PostgresInv'
  BY <1>1 DEF TreeInv, PostgresInv, Due, Cached, DoneOn
<1> QED BY <1>2, <1>3, <1>4 DEF TreeInv

LEMMA FewerKeysCover ==
  ASSUME NEW ks, NEW ls, ls \ Volatile \subseteq ks \ Volatile
  PROVE  /\ \A c : IsPage(ks, c) => IsPage(ls, c)
         /\ \A items, cur, pat, nd : Found(ks, items, cur, pat, nd) => Found(ls, items, cur, pat, nd)
BY DEF IsPage, Found, Covers

(* Keys come and go beside the scan, those that were there all the time    *)
(* are only ever deleted.                                                  *)
LEMMA KeysStep ==
  ASSUME TreeInv, kind = "redis", keys' \subseteq Keys, keys' \ Volatile \subseteq keys \ Volatile,
         tables' \in [Schemas -> SUBSET Tables], job' = job \/ (job' \in Jobs /\ \A r \in refreshes : ~r.job),
         UNCHANGED <<kind, schemas, tree, askVars, calls, refreshes, mixed, fits, skipped>>
  PROVE  TreeInv'
<1> USE DEF askVars
<1>1. TreeShape' /\ OneLatest' /\ Turns'
  BY DEF TreeInv, TreeShape, OneLatest, Turns
<1>2. Flat /\ Scans
  BY DEF TreeInv, RedisInv
<1>3. Flat' /\ Scans'
  <2>1. \A c \in calls' : IsPage(keys', c)
    BY <1>2, FewerKeysCover DEF Scans
  <2>2. fits' /\ ~mixed' => Found(keys', tree'.items[Root], tree'.cursor, pattern', node')
    BY <1>2, FewerKeysCover DEF Scans
  <2> QED BY <1>2, <2>1, <2>2 DEF Flat, Scans, GoesOn
<1> QED BY <1>1, <1>3 DEF TreeInv, RedisInv, PostgresInv

LEMMA KeyChurnsStep ==
  ASSUME TreeInv, NEW k \in Keys, KeyChurns(k)
  PROVE  TreeInv'
<1>1. TreeShape
  BY DEF TreeInv
<1>2. /\ kind = "redis" /\ k \in Volatile /\ keys' = IF k \in keys THEN keys \ {k} ELSE keys \cup {k}
      /\ UNCHANGED <<kind, schemas, tables, tree, askVars, calls, refreshes, job, mixed, fits, skipped>>
  BY DEF KeyChurns, historyVars
<1>3. keys' \subseteq Keys /\ keys' \ Volatile \subseteq keys \ Volatile
  BY <1>1, <1>2 DEF TreeShape
<1>4. tables' \in [Schemas -> SUBSET Tables]
  BY <1>1, <1>2 DEF TreeShape
<1> QED BY <1>2, <1>3, <1>4, KeysStep

LEMMA SchemaDroppedStep ==
  ASSUME TreeInv, NEW s \in Schemas, SchemaDropped(s)
  PROVE  TreeInv'
<1> USE DEF askVars
<1>1. /\ kind = "postgres" /\ schemas' = schemas \ {s} /\ tables' = [tables EXCEPT ![s] = {}]
      /\ UNCHANGED <<kind, keys, tree, askVars, calls, refreshes, job, mixed, fits, skipped>>
  BY DEF SchemaDropped, historyVars
<1>2. TreeShape /\ OneLatest /\ Turns /\ PostgresInv
  BY DEF TreeInv
<1>3. tables' \in [Schemas -> SUBSET Tables] /\ \A x \in Schemas \ {s} : tables'[x] = tables[x]
  BY <1>1, <1>2 DEF TreeShape
<1>4. TreeShape' /\ OneLatest' /\ Turns'
  BY <1>1, <1>2, <1>3 DEF TreeShape, OneLatest, Turns
<1>5. \A c \in calls' : Due(c)'
  BY <1>1, <1>2, <1>3 DEF TreeShape, PostgresInv, Due, DoneOn
<1>6. \A x \in schemas' : Cached(x)'
  BY <1>1, <1>2, <1>3 DEF TreeShape, PostgresInv, Cached, DoneOn
<1> QED BY <1>1, <1>4, <1>5, <1>6 DEF TreeInv, RedisInv, PostgresInv

LEMMA JobFacts ==
  ASSUME NEW j \in Jobs
  PROVE  /\ j.op = "key" => j.object \in Volatile
         /\ j.op \in {"table", "drop"} => j.schema \in Schemas /\ j.object \in Tables
         /\ j.schema \in Paths
         /\ \A stage \in Stages :
              LET k == [j EXCEPT !.stage = stage] IN
              k \in Jobs /\ k.op = j.op /\ k.schema = j.schema /\ k.object = j.object /\ k.stage = stage
<1>1. CASE j \in [op : {"table", "drop"}, schema : Schemas, object : Tables, stage : Stages]
  BY <1>1 DEF Jobs, Paths
<1>2. CASE j \in [op : {"key"}, schema : {Root}, object : Volatile, stage : Stages]
  BY <1>2 DEF Jobs, Paths
<1>3. CASE j \in [op : {"bulk"}, schema : {Root}, object : Patterns, stage : Stages]
  BY <1>3 DEF Jobs, Paths
<1> QED BY <1>1, <1>2, <1>3 DEF Jobs

LEMMA ServerChangesStep ==
  ASSUME TreeInv, ServerChanges
  PROVE  TreeInv'
<1> USE DEF askVars
<1>0. TreeShape /\ OneLatest /\ Turns /\ RedisInv /\ PostgresInv /\ job \in Jobs
  BY DEF TreeInv, TreeShape, ServerChanges
<1>1. /\ job # None /\ job.stage = "asked" /\ job' = [job EXCEPT !.stage = "done"]
      /\ UNCHANGED <<kind, schemas, tree, askVars, calls, refreshes, mixed, fits, skipped>>
  BY DEF ServerChanges
<1>2. /\ job' \in Jobs /\ job'.op = job.op /\ job'.schema = job.schema /\ job'.object = job.object
      /\ job'.stage = "done"
  BY <1>0, <1>1, JobFacts DEF Stages
<1>8. /\ job.op = "key" => job.object \in Volatile
      /\ job.op \in {"table", "drop"} => job.schema \in Schemas /\ job.object \in Tables
  BY <1>0, JobFacts
<1>3. \A r \in refreshes : ~r.job
  BY <1>0, <1>1 DEF Turns, TreeShape, IsTurn
<1>4. /\ tables' \in [Schemas -> SUBSET Tables]
      /\ \A s \in Schemas : s # job.schema => tables'[s] = tables[s]
  <2>1. CASE job.op = "table"
    <3>1. tables' = [tables EXCEPT ![job.schema] = @ \cup {job.object}]
      BY <2>1 DEF ServerChanges
    <3> QED BY <1>0, <1>8, <2>1, <3>1 DEF TreeShape
  <2>2. CASE job.op = "drop"
    <3>1. tables' = [tables EXCEPT ![job.schema] = @ \ {job.object}]
      BY <2>2 DEF ServerChanges
    <3> QED BY <1>0, <1>8, <2>2, <3>1 DEF TreeShape
  <2>3. CASE job.op \notin {"table", "drop"}
    BY <1>0, <2>3 DEF ServerChanges, TreeShape
  <2> QED BY <2>1, <2>2, <2>3
<1>5. keys' \subseteq Keys /\ keys' \ Volatile \subseteq keys \ Volatile
  <2>1. CASE job.op = "key"
    BY <1>0, <1>8, <2>1, TreeAssumption DEF ServerChanges, TreeShape
  <2>2. CASE job.op = "bulk"
    BY <1>0, <2>2 DEF ServerChanges, TreeShape
  <2>3. CASE job.op \notin {"key", "bulk"}
    BY <1>0, <2>3 DEF ServerChanges, TreeShape
  <2> QED BY <2>1, <2>2, <2>3
<1>6. CASE kind = "redis"
  BY <1>1, <1>2, <1>3, <1>4, <1>5, <1>6, KeysStep
<1>7. CASE kind = "postgres"
  <2>1. TreeShape'
    BY <1>0, <1>1, <1>2, <1>4, <1>5 DEF TreeShape
  <2>2. OneLatest' /\ Turns'
    BY <1>0, <1>1, <1>3 DEF OneLatest, Turns
  <2>3. \A s \in Schemas : DoneOn(s)' \/ tables'[s] = tables[s]
    <3>1. job' # None
      BY <1>2, TreeAssumption
    <3> QED BY <1>2, <1>4, <3>1 DEF DoneOn
  <2>4. \A s : ~DoneOn(s)
    BY <1>1 DEF DoneOn
  <2>5. \A c \in calls' : Due(c)'
    BY <1>0, <1>1, <1>7, <2>3, <2>4 DEF TreeShape, PostgresInv, Due
  <2>6. \A s \in schemas' : Cached(s)'
    BY <1>0, <1>1, <1>7, <2>3, <2>4 DEF TreeShape, PostgresInv, Cached
  <2> QED BY <1>1, <1>7, <2>1, <2>2, <2>5, <2>6 DEF TreeInv, RedisInv, PostgresInv
<1> QED BY <1>0, <1>6, <1>7 DEF TreeShape

-----------------------------------------------------------------------------
(* The next key of a node, if there is one, is what SCAN finds.            *)
LEMMA LeastPosition ==
  ASSUME NEW S, S \subseteq Nat, S # {}
  PROVE  Min(S) \in S /\ \A y \in S : Min(S) <= y
<1>1. PICK x \in S : \A y \in S : ~ (<<y, x>> \in OpToRel(<, Nat))
  BY NatLessThanWellFounded, WFMin
<1>2. \A y \in S : x <= y
  <2>1. SUFFICES ASSUME NEW y \in S, y < x PROVE FALSE
    OBVIOUS
  <2>2. <<y, x>> \in OpToRel(<, Nat)
    BY <2>1 DEF OpToRel
  <2> QED BY <1>1, <2>2
<1> QED BY <1>2 DEF Min

LEMMA Positions == DOMAIN Keyspace \subseteq Nat \ {0}
BY TreeAssumption

LEMMA KeyPageIs ==
  ASSUME NEW c, IsCall(c)
  PROVE  KeyPage(c).ok =>
           /\ KeyPage(c).items \subseteq c.pattern \cap c.node /\ KeyPage(c).cursor \in Cursors \cup {None}
           /\ Covers(keys, KeyPage(c).items, From(c.cursor), KeyPage(c).cursor, c.pattern, c.node)
<1> DEFINE single == c.node # Keys
           from == IF c.cursor = None THEN 0 ELSE c.cursor.pos
           left == {i \in DOMAIN Keyspace : i > from /\ Keyspace[i] \in c.node}
           next == Min(left)
           found == [ok |-> TRUE, items |-> {Keyspace[next]} \cap keys \cap c.pattern,
                     cursor |-> IF left = {next} THEN None ELSE [single |-> single, pos |-> next]]
<1>1. from \in Nat /\ from = From(c.cursor)
  BY Positions DEF IsCall, Cursors, From
<1>2. left \subseteq Nat /\ \A i \in left : i \in DOMAIN Keyspace /\ Keyspace[i] \in c.node
  BY Positions
<1>3. CASE ~KeyPage(c).ok
  BY <1>3
<1>4. CASE left = {} /\ KeyPage(c).ok
  <2>1. KeyPage(c) = [ok |-> TRUE, items |-> {}, cursor |-> None]
    BY <1>4 DEF KeyPage
  <2>2. ASSUME NEW i \in DOMAIN Keyspace, i > from, Keyspace[i] \in c.node PROVE FALSE
    BY <1>4, <2>2
  <2> QED BY <1>1, <2>1, <2>2 DEF Covers
<1>5. CASE left # {} /\ KeyPage(c).ok
  <2>1. KeyPage(c) = found
    BY <1>5 DEF KeyPage
  <2>2. next \in left /\ \A y \in left : next <= y
    BY <1>2, <1>5, LeastPosition
  <2>3. \A i \in DOMAIN Keyspace : i > from /\ Keyspace[i] \in c.node => i \in left
    OBVIOUS
  <2> HIDE DEF left, next
  <2>4. KeyPage(c).cursor = IF left = {next} THEN None ELSE [single |-> single, pos |-> next]
    BY <2>1
  <2>5. [single |-> single, pos |-> next] \in Cursors
    BY <1>2, <2>2 DEF Cursors
  <2>6. [single |-> single, pos |-> next] # None
    BY <2>5, TreeAssumption
  <2>7. ASSUME NEW i \in DOMAIN Keyspace, i > from, Reached(i, KeyPage(c).cursor), Keyspace[i] \in c.node
        PROVE  i = next
    <3>1. i \in left /\ next <= i /\ i \in Nat /\ next \in Nat
      BY <1>2, <2>2, <2>3, <2>7
    <3>2. left = {next} \/ i <= next
      BY <2>4, <2>6, <2>7 DEF Reached
    <3> QED BY <3>1, <3>2
  <2>8. KeyPage(c).items = {Keyspace[next]} \cap keys \cap c.pattern
    BY <2>1
  <2>9. KeyPage(c).items \subseteq c.pattern \cap c.node
    BY <1>2, <2>2, <2>8
  <2>10. Covers(keys, KeyPage(c).items, From(c.cursor), KeyPage(c).cursor, c.pattern, c.node)
    BY <1>1, <2>7, <2>8 DEF Covers
  <2> QED BY <2>4, <2>5, <2>9, <2>10
<1> QED BY <1>3, <1>4, <1>5

LEMMA AnswerStep ==
  ASSUME TreeInv, NEW c \in calls, Answer(c)
  PROVE  TreeInv'
<1> USE DEF serverVars, askVars
<1>a. PICK a : a = IF kind = "redis" THEN KeyPage(c) ELSE Listing(c.path)
  OBVIOUS
<1>e. PICK e : e = [c EXCEPT !.answer = a]
  OBVIOUS
<1>0. TreeShape /\ OneLatest /\ Turns /\ RedisInv /\ PostgresInv /\ IsCall(c)
  BY DEF TreeInv, TreeShape
<1>1. /\ calls' = (calls \ {c}) \cup {e}
      /\ UNCHANGED <<kind, serverVars, tree, askVars, refreshes, job, mixed, fits, skipped>>
  BY <1>a, <1>e DEF Answer, historyVars
<1>2. /\ IsCall(e) /\ e.op = c.op /\ e.path = c.path /\ e.n = c.n /\ e.pattern = c.pattern /\ e.node = c.node
      /\ e.cursor = c.cursor /\ e.newest = c.newest /\ e.sound = c.sound /\ e.answer = a
  <2>1. a.ok => a.cursor \in Cursors \cup {None}
    BY <1>0, <1>a, KeyPageIs DEF Listing, TreeShape
  <2> QED BY <1>0, <1>e, <2>1 DEF IsCall, IsRecord
<1>3. kind = "redis" => IsPage(keys, e)
  <2> SUFFICES ASSUME kind = "redis" PROVE IsPage(keys, e)
    OBVIOUS
  <2>1. a = KeyPage(c)
    BY <1>a
  <2> QED BY <1>0, <1>2, <2>1, KeyPageIs DEF IsPage
<1>4. kind = "postgres" /\ c.path \in schemas => a.items = tables[c.path]
  BY <1>0, <1>a, TreeAssumption DEF Listing, TreeShape
<1>5. TreeShape'
  BY <1>0, <1>1, <1>2 DEF TreeShape
<1>6. OneLatest'
  BY <1>0, <1>1, <1>2 DEF OneLatest, Latest
<1>7. Turns'
  BY <1>0, <1>1, <1>2 DEF Turns
<1>8. RedisInv'
  <2> SUFFICES ASSUME kind = "redis" PROVE Flat' /\ Scans'
    BY <1>1 DEF RedisInv
  <2>1. Flat /\ Scans
    BY <1>0 DEF RedisInv
  <2>2. Flat'
    BY <1>1, <1>2, <2>1 DEF Flat
  <2>3. (\A d \in calls' : Latest(d) => d.pattern = pattern' /\ d.node = node')
        /\ (\A d \in calls' : d.op = "more" /\ d.sound => GoesOn(d)')
    BY <1>1, <1>2, <2>1 DEF Scans, Latest, GoesOn
  <2>4. ~fits' => tree'.errors[Root] \/ \E d \in calls' : Latest(d)
    <3>1. Latest(c) => Latest(e)
      BY <1>2 DEF Latest
    <3> QED BY <1>1, <2>1, <3>1 DEF Scans
  <2>5. \A d \in calls' : IsPage(keys', d)
    BY <1>1, <1>3, <2>1 DEF Scans
  <2> QED BY <1>1, <2>1, <2>2, <2>3, <2>4, <2>5 DEF Scans
<1>9. PostgresInv'
  <2> SUFFICES ASSUME kind = "postgres" PROVE (\A d \in calls' : Due(d)') /\ \A s \in schemas : Cached(s)'
    BY <1>1 DEF PostgresInv
  <2>1. \A d \in calls : Due(d)'
    BY <1>0, <1>1 DEF PostgresInv, Due, DoneOn
  <2>2. Due(e)'
    BY <1>1, <1>2, <1>4 DEF Due
  <2>3. Latest(c) => Latest(e)
    BY <1>2 DEF Latest
  <2>4. \A s \in schemas : Cached(s)'
    BY <1>0, <1>1, <1>2, <2>3 DEF PostgresInv, Cached, DoneOn
  <2> QED BY <1>1, <2>1, <2>2, <2>4
<1> QED BY <1>5, <1>6, <1>7, <1>8, <1>9 DEF TreeInv

LEMMA ScanMoreKeysStep ==
  ASSUME TreeInv, ScanMoreKeys
  PROVE  TreeInv'
<1> USE DEF serverVars, askVars
<1>0. TreeShape /\ OneLatest /\ Turns /\ Flat /\ Scans /\ kind = "redis" /\ tree.cursor \in Cursors /\ tree.cursor # None
  BY DEF TreeInv, TreeShape, IsTree, RedisInv, ScanMoreKeys, ScanMoreShown
<1>1. PICK n : LET c == NewCall("more", Root, n, pattern, node, tree.cursor) IN
                 calls' = calls \cup {[c EXCEPT !.sound = fits]}
  BY DEF ScanMoreKeys
<1> DEFINE c == NewCall("more", Root, n, pattern, node, tree.cursor)
           e == [c EXCEPT !.sound = fits]
<1>2. /\ IsCall(e) /\ e.op = "more" /\ e.path = Root /\ e.pattern = pattern /\ e.node = node
      /\ e.cursor = tree.cursor /\ e.sound = fits /\ e.answer = None
  <2>1. /\ IsCall(c) /\ c.op = "more" /\ c.path = Root /\ c.pattern = pattern /\ c.node = node
        /\ c.cursor = tree.cursor /\ c.answer = None
    <3>1. /\ pattern \in SUBSET Keys /\ node \in SUBSET Keys /\ tree.cursor \in Cursors \cup {None}
          /\ Root \in Paths /\ "more" \in {"load", "refresh", "more"}
      BY <1>0 DEF TreeShape, Paths
    <3> QED BY <3>1, NewCallIs
  <2> HIDE DEF c
  <2> QED BY <1>0, <2>1 DEF TreeShape, IsCall, IsRecord
<1>3. /\ tree' = [tree EXCEPT !.loading[Root] = TRUE] /\ calls' = calls \cup {e}
      /\ UNCHANGED <<kind, serverVars, askVars, refreshes, job, mixed, fits, skipped>>
  BY <1>1 DEF ScanMoreKeys, historyVars
<1>4. SameList(tree, tree') /\ tree'.expanded = tree.expanded
  BY <1>0, <1>3 DEF SameList, TreeShape, IsTree, IsRecord
<1> HIDE DEF c, e
<1>5. TreeShape'
  BY <1>0, <1>2, <1>3, <1>4 DEF TreeShape, SameList
<1>6. OneLatest'
  BY <1>0, <1>2, <1>3 DEF OneLatest, Latest
<1>7. Turns'
  BY <1>0, <1>2, <1>3 DEF Turns
<1>8. Flat'
  BY <1>0, <1>2, <1>3, <1>4 DEF Flat
<1>9. Scans'
  <2>1. \A d \in calls' : Latest(d) => d.pattern = pattern' /\ d.node = node'
    BY <1>0, <1>2, <1>3 DEF Scans, Latest
  <2>2. \A d \in calls' : d.op = "more" /\ d.sound => GoesOn(d)'
    BY <1>0, <1>2, <1>3, <1>4 DEF Scans, GoesOn, SameList
  <2>3. ~fits' => tree'.errors[Root] \/ \E d \in calls' : Latest(d)
    BY <1>0, <1>3, <1>4 DEF Scans, SameList
  <2>4. \A d \in calls' : IsPage(keys', d)
    BY <1>0, <1>2, <1>3 DEF Scans, IsPage
  <2> QED BY <1>0, <1>3, <1>4, <2>1, <2>2, <2>3, <2>4 DEF Scans, SameList
<1> QED BY <1>0, <1>3, <1>5, <1>6, <1>7, <1>8, <1>9 DEF TreeInv, RedisInv, PostgresInv

-----------------------------------------------------------------------------
(* refreshTree: its own fetches, and the others as it leaves them.  The    *)
(* calls cs are those there are, of which continued scans may have lost    *)
(* their list.                                                             *)
AreCalls(cs) ==
  \A c \in cs : IsCall(c) /\ (c \in calls \/ (c.op = "more" /\ ~c.sound /\ \E d \in calls : SameAsk(d, c)))
Overtaken(rs) == {[r EXCEPT !.newest = FALSE] : r \in rs}
IsFetchOf(d, n, pat, nd) ==
  /\ d.op = "refresh" /\ d.n = n /\ d.pattern = pat /\ d.node = nd /\ d.path \in Reread
  /\ d.newest /\ d.sound /\ d.answer = None
IsLeft(c, d) ==
  /\ SameAsk(c, d) /\ (c.op = "more" => d = c)
  /\ c.op # "more" => ~d.sound /\ (d.newest <=> c.newest /\ c.path \notin Reread)
Refreshed(n, cs, pat, nd, forJob) ==
  /\ refreshes' = Overtaken(refreshes) \cup {[n |-> n, newest |-> TRUE, job |-> forJob]}
  /\ \A d \in calls' : IsCall(d) /\ (IsFetchOf(d, n, pat, nd) \/ \E c \in cs : IsLeft(c, d))
  /\ \A p \in Reread : \E d \in calls' : IsFetchOf(d, n, pat, nd) /\ d.path = p
  /\ \A c \in cs : \E d \in calls' : IsLeft(c, d)

LEMMA SameCall ==
  ASSUME NEW c, NEW d, IsCall(c), IsCall(d), SameAsk(c, d), c.newest = d.newest, c.sound = d.sound
  PROVE  c = d
BY DEF IsCall, IsRecord, SameAsk

LEMMA RereadPaths == TreeShape => Reread \subseteq Paths
BY DEF TreeShape, IsTree, Reread, Paths

LEMMA RefreshTreeCalls ==
  ASSUME TreeShape, NEW t, NEW cs, AreCalls(cs), NEW pat \in SUBSET Keys, NEW nd \in SUBSET Keys,
         NEW forJob \in BOOLEAN, RefreshTree(t, cs, pat, nd, forJob)
  PROVE  \E n : Refreshed(n, cs, pat, nd, forJob)
<1>0. \A c \in cs : IsCall(c)
  BY DEF AreCalls
<1>1. PICK n :
        /\ refreshes' = Overtaken(refreshes) \cup {[n |-> n, newest |-> TRUE, job |-> forJob]}
        /\ calls' = Claimed(Older(cs), Reread) \cup {NewCall("refresh", p, n, pat, nd, None) : p \in Reread}
  BY DEF RefreshTree, Overtaken
<1>2. ASSUME NEW p \in Reread
      PROVE  LET c == NewCall("refresh", p, n, pat, nd, None) IN
             IsCall(c) /\ IsFetchOf(c, n, pat, nd) /\ c.path = p
  <2>1. p \in Paths /\ "refresh" \in {"load", "refresh", "more"}
    BY RereadPaths
  <2> QED BY <2>1, NewCallIs DEF IsFetchOf
<1> DEFINE old == Older(cs)
           left == Claimed(old, Reread)
<1>3. /\ \A d \in old :
            /\ IsCall(d)
            /\ \E c \in cs : SameAsk(c, d) /\ d.newest = c.newest
                               /\ (c.op = "more" => d = c) /\ (c.op # "more" => ~d.sound)
      /\ \A c \in cs : \E d \in old : SameAsk(c, d) /\ d.newest = c.newest
  BY <1>0, OlderCalls
<1> HIDE DEF old
<1>4. /\ \A d \in left :
            /\ IsCall(d)
            /\ \E c \in old : /\ SameAsk(c, d) /\ d.sound = c.sound
                              /\ c.op = "more" \/ c.path \notin Reread => d = c
                              /\ c.op # "more" /\ c.path \in Reread => ~d.newest
  BY <1>3, ClaimedCalls
<1>5. \A c \in old : \E d \in left : SameAsk(c, d) /\ (c.op = "more" \/ c.path \notin Reread => d = c)
                                       /\ d.sound = c.sound /\ (c.op # "more" /\ c.path \in Reread => ~d.newest)
  <2> SUFFICES ASSUME NEW c \in old
               PROVE \E d \in left : SameAsk(c, d) /\ (c.op = "more" \/ c.path \notin Reread => d = c)
                                       /\ d.sound = c.sound /\ (c.op # "more" /\ c.path \in Reread => ~d.newest)
    OBVIOUS
  <2>1. IsCall(c) /\ SameAsk(c, c)
    BY <1>3 DEF SameAsk
  <2>2. (IF c.path \in Reread /\ c.op # "more" THEN [c EXCEPT !.newest = FALSE] ELSE c) \in left
    BY DEF Claimed
  <2> QED BY <2>1, <2>2, ClaimedCall
<1>6. ASSUME NEW d \in left PROVE IsCall(d) /\ \E c \in cs : IsLeft(c, d)
  <2>1. PICK b \in old : /\ IsCall(d) /\ SameAsk(b, d) /\ d.sound = b.sound
                         /\ b.op = "more" \/ b.path \notin Reread => d = b
                         /\ b.op # "more" /\ b.path \in Reread => ~d.newest
    BY <1>4
  <2>2. PICK c \in cs : SameAsk(c, b) /\ b.newest = c.newest
                          /\ (c.op = "more" => b = c) /\ (c.op # "more" => ~b.sound)
    BY <1>3
  <2> QED BY <2>1, <2>2 DEF IsLeft, SameAsk, IsCall
<1>7. ASSUME NEW c \in cs PROVE \E d \in left : IsLeft(c, d)
  <2> DEFINE b == IF c.op = "more" THEN c ELSE [c EXCEPT !.sound = FALSE]
  <2>1. b \in old /\ SameAsk(c, b) /\ b.newest = c.newest /\ (c.op = "more" => b = c) /\ (c.op # "more" => ~b.sound)
    <3>1. IsCall(c) /\ SameAsk(c, c)
      BY <1>0 DEF SameAsk
    <3> QED BY <3>1, UnsoundCall DEF Older, old
  <2> HIDE DEF b
  <2>2. PICK d \in left : /\ SameAsk(b, d) /\ (b.op = "more" \/ b.path \notin Reread => d = b)
                          /\ d.sound = b.sound /\ (b.op # "more" /\ b.path \in Reread => ~d.newest)
    BY <1>5, <2>1
  <2>3. IsCall(d)
    BY <1>4
  <2>4. IsLeft(c, d)
    BY <2>1, <2>2, <2>3 DEF IsLeft, SameAsk, IsCall
  <2> QED BY <2>4
<1>8. calls' = left \cup {NewCall("refresh", p, n, pat, nd, None) : p \in Reread}
  BY <1>1 DEF old
<1> HIDE DEF left
<1>9. \A d \in calls' : IsCall(d) /\ (IsFetchOf(d, n, pat, nd) \/ \E c \in cs : IsLeft(c, d))
  BY <1>2, <1>6, <1>8
<1>10. \A p \in Reread : \E d \in calls' : IsFetchOf(d, n, pat, nd) /\ d.path = p
  BY <1>2, <1>8
<1>11. \A c \in cs : \E d \in calls' : IsLeft(c, d)
  BY <1>7, <1>8
<1> QED BY <1>1, <1>9, <1>10, <1>11 DEF Refreshed

(* What it keeps in any tree.                                              *)
LEMMA RefreshTreeKeeps ==
  ASSUME TreeShape, OneLatest, Turns, NEW t, IsTree(t), NEW cs, AreCalls(cs),
         NEW pat \in SUBSET Keys, NEW nd \in SUBSET Keys, NEW forJob \in BOOLEAN,
         RefreshTree(t, cs, pat, nd, forJob), pattern' = pat, node' = nd, fits' \in BOOLEAN,
         UNCHANGED <<kind, serverVars, mixed>>, job' \in Jobs \cup {None},
         IF forJob THEN job' # None /\ job'.stage = "refreshing" /\ \A r \in refreshes : ~r.job
                   ELSE job' = job /\ kind = "redis"
  PROVE  TreeShape' /\ OneLatest' /\ Turns'
<1> USE DEF serverVars
<1>0. tree' = t /\ \A c \in cs : IsCall(c)
  BY DEF RefreshTree, AreCalls
<1>p. PICK n : Refreshed(n, cs, pat, nd, forJob)
  BY RefreshTreeCalls
<1>1. /\ refreshes' = Overtaken(refreshes) \cup {[n |-> n, newest |-> TRUE, job |-> forJob]}
      /\ \A d \in calls' : IsCall(d) /\ (IsFetchOf(d, n, pat, nd) \/ \E c \in cs : IsLeft(c, d))
      /\ \A p \in Reread : \E d \in calls' : IsFetchOf(d, n, pat, nd) /\ d.path = p
      /\ \A c \in cs : \E d \in calls' : IsLeft(c, d)
  BY <1>p DEF Refreshed
<1> DEFINE new == [n |-> n, newest |-> TRUE, job |-> forJob]
           Behind(r) == [r EXCEPT !.newest = FALSE]
<1>2. IsTurn(new) /\ new.n = n /\ new.job = forJob
  BY DEF IsTurn, IsRecord
<1>3. \A r \in refreshes : IsTurn(Behind(r)) /\ Behind(r).n = r.n /\ Behind(r).job = r.job
  BY DEF TreeShape, IsTurn, IsRecord
<1>4. refreshes' = {Behind(r) : r \in refreshes} \cup {new}
  BY <1>1 DEF Overtaken
<1> HIDE DEF new, Behind
<1>5. TreeShape'
  BY <1>0, <1>1, <1>2, <1>3, <1>4 DEF TreeShape
<1>6. OneLatest'
  <2> SUFFICES ASSUME NEW d \in calls', NEW e \in calls', Latest(d), Latest(e), d.path = e.path PROVE d = e
    BY DEF OneLatest
  <2>1. IsCall(d) /\ IsCall(e)
    BY <1>1
  <2>2. CASE IsFetchOf(d, n, pat, nd) /\ IsFetchOf(e, n, pat, nd)
    BY <2>1, <2>2, SameCall DEF IsFetchOf, SameAsk, IsCall
  <2>3. ASSUME NEW c \in cs, IsLeft(c, d) \/ IsLeft(c, e)
        PROVE  c.path \notin Reread /\ Latest(c) /\ c \in calls /\ c.path = d.path
    BY <1>0, <2>1, <2>3 DEF IsLeft, Latest, SameAsk, AreCalls
  <2>4. CASE \E b, c \in cs : IsLeft(b, d) /\ IsLeft(c, e)
    <3>1. PICK b \in cs, c \in cs : IsLeft(b, d) /\ IsLeft(c, e)
      BY <2>4
    <3>2. b = c
      BY <2>3, <3>1 DEF OneLatest
    <3>3. SameAsk(d, e) /\ ~d.sound /\ ~e.sound
      BY <2>3, <3>1, <3>2 DEF IsLeft, SameAsk, Latest
    <3> QED BY <2>1, <3>3, SameCall DEF IsCall, Latest
  <2>5. ASSUME \E c \in cs : IsLeft(c, d) \/ IsLeft(c, e)
        PROVE  ~IsFetchOf(d, n, pat, nd) /\ ~IsFetchOf(e, n, pat, nd)
    BY <2>3, <2>5 DEF IsFetchOf
  <2> QED BY <1>1, <2>2, <2>4, <2>5
<1>7. Turns'
  <2>1. \A r \in refreshes' : r.job => job' # None /\ job'.stage = "refreshing"
    BY <1>2, <1>3, <1>4 DEF Turns
  <2>2. \A r, q \in refreshes' : r.job /\ q.job => r = q
    BY <1>2, <1>3, <1>4 DEF Turns
  <2>3. \A d \in calls' : d.op = "refresh" => \E r \in refreshes' : r.n = d.n
    <3> SUFFICES ASSUME NEW d \in calls', d.op = "refresh" PROVE \E r \in refreshes' : r.n = d.n
      OBVIOUS
    <3>1. CASE IsFetchOf(d, n, pat, nd)
      BY <1>2, <1>4, <3>1 DEF IsFetchOf
    <3>2. CASE \E c \in cs : IsLeft(c, d)
      <4>1. PICK c \in cs : SameAsk(c, d)
        BY <3>2 DEF IsLeft
      <4>2. PICK b \in calls : b.n = d.n /\ b.op = "refresh"
        BY <4>1 DEF AreCalls, SameAsk
      <4>3. PICK r \in refreshes : r.n = d.n
        BY <4>2 DEF Turns
      <4> QED BY <1>3, <1>4, <4>3
    <3> QED BY <1>1, <3>1, <3>2
  <2>4. kind' = "postgres" => \A r \in refreshes' : r.job
    BY <1>2, <1>3, <1>4 DEF Turns
  <2> QED BY <2>1, <2>2, <2>3, <2>4 DEF Turns
<1> QED BY <1>5, <1>6, <1>7

(* A refresh of a key list: with the filter and the node there are, or     *)
(* with others, for which every continued scan has lost its list.          *)
LEMMA RedisRefreshStep ==
  ASSUME TreeInv, kind = "redis", NEW t, IsTree(t), t.expanded = {}, NEW cs, AreCalls(cs),
         NEW pat \in SUBSET Keys, NEW nd \in SUBSET Keys, NEW forJob \in BOOLEAN,
         RefreshTree(t, cs, pat, nd, forJob), pattern' = pat, node' = nd,
         UNCHANGED <<kind, serverVars, mixed>>, job' \in Jobs \cup {None},
         IF forJob THEN job' # None /\ job'.stage = "refreshing" /\ \A r \in refreshes : ~r.job
                   ELSE job' = job,
         \/ t = tree /\ pat = pattern /\ nd = node /\ fits' = fits
         \/ /\ fits' = FALSE /\ \A c \in cs : c.op = "more" => ~c.sound
            /\ t.items[Root] = None => t.cursor = None
            /\ t.items[Root] # None => t.items[Root] \subseteq Keys
  PROVE  TreeInv'
<1> USE DEF serverVars
<1>0. TreeShape /\ OneLatest /\ Turns /\ Flat /\ Scans
  BY DEF TreeInv, RedisInv
<1>1. fits' \in BOOLEAN
  BY <1>0 DEF TreeShape
<1>2. TreeShape' /\ OneLatest' /\ Turns'
  BY <1>0, <1>1, RefreshTreeKeeps
<1>3. tree' = t /\ Reread = {Root}
  BY DEF RefreshTree, Reread
<1>p. PICK n : Refreshed(n, cs, pat, nd, forJob)
  BY <1>0, RefreshTreeCalls
<1>4. /\ refreshes' = Overtaken(refreshes) \cup {[n |-> n, newest |-> TRUE, job |-> forJob]}
      /\ \A d \in calls' : IsCall(d) /\ (IsFetchOf(d, n, pat, nd) \/ \E c \in cs : IsLeft(c, d))
      /\ \A p \in Reread : \E d \in calls' : IsFetchOf(d, n, pat, nd) /\ d.path = p
      /\ \A c \in cs : \E d \in calls' : IsLeft(c, d)
  BY <1>p DEF Refreshed
<1>5. \A c \in cs : c.path = Root /\ IsPage(keys, c)
  BY <1>0 DEF AreCalls, Flat, Scans, SameAsk, IsPage
<1>6. \A d \in calls' : d.path = Root
  BY <1>3, <1>4, <1>5 DEF IsFetchOf, IsLeft, SameAsk
<1>7. \A d \in calls' : Latest(d) => IsFetchOf(d, n, pat, nd)
  BY <1>3, <1>4, <1>5 DEF IsLeft, Latest, SameAsk
<1>8. \A d \in calls' : d.op = "more" /\ d.sound => GoesOn(d)'
  <2> SUFFICES ASSUME NEW d \in calls', d.op = "more", d.sound PROVE GoesOn(d)'
    OBVIOUS
  <2>1. d \in cs
    BY <1>4 DEF IsFetchOf, IsLeft, SameAsk
  <2>2. d \in calls /\ t = tree /\ pat = pattern /\ nd = node /\ fits' = fits
    BY <2>1 DEF AreCalls
  <2> QED BY <1>0, <1>3, <2>2 DEF Scans, GoesOn
<1>9. \E d \in calls' : Latest(d)
  BY <1>3, <1>4 DEF IsFetchOf, Latest
<1>10. \A d \in calls' : IsPage(keys, d)
  <2> SUFFICES ASSUME NEW d \in calls' PROVE IsPage(keys, d)
    OBVIOUS
  <2>1. CASE IsFetchOf(d, n, pat, nd)
    BY <2>1 DEF IsFetchOf, IsPage
  <2>2. CASE \E c \in cs : IsLeft(c, d)
    BY <1>5, <2>2 DEF IsLeft, SameAsk, IsPage
  <2> QED BY <1>4, <2>1, <2>2
<1>11. fits' => Found(keys, tree'.items[Root], tree'.cursor, pattern', node') \/ mixed
  BY <1>0, <1>3 DEF Scans
<1>12. tree'.cursor # None => tree'.items[Root] # None
  BY <1>0, <1>3 DEF Scans
<1>13. tree'.items[Root] # None => tree'.items[Root] \subseteq Keys
  BY <1>0, <1>3 DEF Scans
<1>14. Flat' /\ Scans'
  BY <1>3, <1>6, <1>7, <1>8, <1>9, <1>10, <1>11, <1>12, <1>13 DEF Flat, Scans, IsFetchOf
<1> QED BY <1>2, <1>14 DEF TreeInv, RedisInv, PostgresInv

LEMMA CallsAreCalls ==
  ASSUME TreeShape
  PROVE  AreCalls(calls) /\ AreCalls(Unsound(calls)) /\ \A c \in Unsound(calls) : c.op = "more" => ~c.sound
<1>1. \A c \in calls : IsCall(c)
  BY DEF TreeShape
<1>2. \A d \in Unsound(calls) :
        /\ IsCall(d)
        /\ \E c \in calls : SameAsk(c, d) /\ d.newest = c.newest
                           /\ (c.op # "more" => d = c) /\ (c.op = "more" => ~d.sound)
  BY <1>1, UnsoundCalls
<1> QED BY <1>1, <1>2 DEF AreCalls, SameAsk

LEMMA PressRefreshStep ==
  ASSUME TreeInv, PressRefresh
  PROVE  TreeInv'
<1>1. /\ kind = "redis" /\ RefreshTree(tree, calls, pattern, node, FALSE)
      /\ UNCHANGED <<kind, serverVars, askVars, job, mixed, fits>>
  BY DEF PressRefresh
<1>2. TreeShape /\ tree.expanded = {}
  BY <1>1 DEF TreeInv, RedisInv, Flat
<1>3. /\ IsTree(tree) /\ AreCalls(calls) /\ pattern \in SUBSET Keys /\ node \in SUBSET Keys /\ job \in Jobs \cup {None}
      /\ FALSE \in BOOLEAN
  BY <1>2, CallsAreCalls DEF TreeShape
<1> QED BY <1>1, <1>2, <1>3, RedisRefreshStep DEF askVars

LEMMA SetKeyPatternStep ==
  ASSUME TreeInv, NEW p \in SUBSET Keys, SetKeyPattern(p)
  PROVE  TreeInv'
<1>1. /\ kind = "redis" /\ RefreshTree(Dropped(tree), Unsound(calls), p, node, FALSE)
      /\ pattern' = p /\ fits' = FALSE /\ UNCHANGED <<kind, serverVars, node, job, mixed>>
  BY DEF SetKeyPattern, TypedPattern
<1>2. TreeShape /\ tree.expanded = {}
  BY <1>1 DEF TreeInv, RedisInv, Flat
<1>3. /\ AreCalls(Unsound(calls)) /\ node \in SUBSET Keys /\ job \in Jobs \cup {None} /\ FALSE \in BOOLEAN
      /\ \A c \in Unsound(calls) : c.op = "more" => ~c.sound
  BY <1>2, CallsAreCalls DEF TreeShape
<1>4. /\ IsTree(Dropped(tree)) /\ Dropped(tree).expanded = {} /\ Dropped(tree).cursor = None
      /\ Dropped(tree).items[Root] = None
  BY <1>2 DEF TreeShape, IsTree, IsRecord, Dropped, Paths
<1> QED BY <1>1, <1>3, <1>4, RedisRefreshStep

LEMMA SetSelectedNodeStep ==
  ASSUME TreeInv, NEW nd \in SUBSET Keys, SetSelectedNode(nd)
  PROVE  TreeInv'
<1>1. /\ kind = "redis" /\ RefreshTree(tree, Unsound(calls), pattern, nd, FALSE)
      /\ node' = nd /\ fits' = FALSE /\ UNCHANGED <<kind, serverVars, pattern, job, mixed>>
  BY DEF SetSelectedNode
<1>2. /\ TreeShape /\ tree.expanded = {} /\ (tree.items[Root] = None => tree.cursor = None)
      /\ tree.items[Root] # None => tree.items[Root] \subseteq Keys
  BY <1>1 DEF TreeInv, RedisInv, Flat, Scans
<1>3. /\ AreCalls(Unsound(calls)) /\ pattern \in SUBSET Keys /\ job \in Jobs \cup {None} /\ FALSE \in BOOLEAN
      /\ IsTree(tree) /\ \A c \in Unsound(calls) : c.op = "more" => ~c.sound
  BY <1>2, CallsAreCalls DEF TreeShape
<1> QED BY <1>1, <1>2, <1>3, RedisRefreshStep

(* The refresh that follows a change: of a schema that is open the fetch   *)
(* is on its way, and of one that is closed what is cached is not trusted. *)
LEMMA JobLandsStep ==
  ASSUME TreeInv, JobLands
  PROVE  TreeInv'
<1> USE DEF serverVars, askVars
<1>1. /\ job # None /\ job.stage = "done" /\ job' = [job EXCEPT !.stage = "refreshing"]
      /\ RefreshTree(tree, calls, pattern, node, TRUE)
      /\ UNCHANGED <<kind, serverVars, askVars, mixed, fits>>
  BY DEF JobLands
<1>2. TreeShape /\ OneLatest /\ Turns /\ RedisInv /\ PostgresInv /\ job \in Jobs
  BY <1>1 DEF TreeInv, TreeShape
<1>3. job' \in Jobs /\ job'.stage = "refreshing" /\ job' # None
  <2>1. "refreshing" \in Stages
    BY DEF Stages
  <2>2. job' \in Jobs /\ job'.stage = "refreshing"
    BY <1>1, <1>2, <2>1, JobFacts
  <2> QED BY <2>2, TreeAssumption
<1>4. \A r \in refreshes : ~r.job
  BY <1>1, <1>2 DEF Turns, TreeShape, IsTurn
<1>5. /\ IsTree(tree) /\ AreCalls(calls) /\ pattern \in SUBSET Keys /\ node \in SUBSET Keys
      /\ fits' \in BOOLEAN /\ TRUE \in BOOLEAN
  BY <1>1, <1>2, CallsAreCalls DEF TreeShape
<1>6. CASE kind = "redis"
  BY <1>1, <1>2, <1>3, <1>4, <1>5, <1>6, RedisRefreshStep DEF RedisInv, Flat
<1>7. CASE kind = "postgres"
  <2>1. TreeShape' /\ OneLatest' /\ Turns'
    BY <1>1, <1>2, <1>3, <1>4, <1>5, RefreshTreeKeeps
  <2>p. PICK n : Refreshed(n, calls, pattern, node, TRUE)
    BY <1>1, <1>2, <1>5, RefreshTreeCalls
  <2>2. /\ refreshes' = Overtaken(refreshes) \cup {[n |-> n, newest |-> TRUE, job |-> TRUE]}
        /\ \A d \in calls' : IsCall(d) /\ (IsFetchOf(d, n, pattern, node) \/ \E c \in calls : IsLeft(c, d))
        /\ \A p \in Reread : \E d \in calls' : IsFetchOf(d, n, pattern, node) /\ d.path = p
        /\ \A c \in calls : \E d \in calls' : IsLeft(c, d)
    BY <2>p DEF Refreshed
  <2>3. /\ tree' = tree /\ Reread = {Root} \cup tree.expanded
        /\ skipped' = skipped \cup {s \in Schemas \ Reread : tree.items[s] # None \/ Pending(s)}
    BY <1>1, <1>7 DEF RefreshTree, Reread
  <2>4. \A c \in calls : c.op # "refresh"
    BY <1>2, <1>4, <1>7 DEF Turns
  <2>5. ASSUME NEW d \in calls' PROVE Due(d)'
    <3>1. CASE IsFetchOf(d, n, pattern, node)
      BY <3>1 DEF IsFetchOf, Due
    <3>2. ASSUME NEW c \in calls, IsLeft(c, d), Latest(d), d.path \in schemas, d.answer # None
          PROVE  d.answer.items = tables[d.path] \/ (~d.sound /\ d.path \in skipped')
      <4>1. Latest(c) /\ c.path = d.path /\ c.path \notin Reread /\ c.answer = d.answer /\ ~d.sound /\ IsCall(c)
        BY <1>2, <2>2, <3>2 DEF IsLeft, Latest, SameAsk, IsCall, TreeShape
      <4>2. Pending(c.path)
        BY <2>4, <4>1 DEF Pending, IsCall, Latest
      <4>3. c.path \in skipped'
        BY <1>2, <2>3, <3>2, <4>1, <4>2 DEF TreeShape
      <4> QED BY <4>1, <4>3
    <3> QED BY <1>1, <2>2, <3>1, <3>2 DEF Due
  <2>6. ASSUME NEW s \in schemas PROVE Cached(s)'
    <3>1. CASE s \in Reread
      BY <2>2, <3>1 DEF Cached, IsFetchOf, Latest
    <3>2. CASE s \notin Reread
      <4>1. tree.items[s] # None => s \in skipped'
        BY <1>2, <2>3, <3>2 DEF TreeShape
      <4> QED BY <2>3, <4>1 DEF Cached
    <3> QED BY <3>1, <3>2
  <2> QED BY <1>1, <1>7, <2>1, <2>5, <2>6 DEF TreeInv, RedisInv, PostgresInv
<1> QED BY <1>2, <1>6, <1>7 DEF TreeShape

LEMMA JobFailsStep ==
  ASSUME TreeInv, JobFails
  PROVE  TreeInv'
<1> USE DEF serverVars, askVars
<1>1. /\ job # None /\ job.stage # "refreshing" /\ job' = None
      /\ IF job.stage = "done" THEN skipped' = skipped \cup {job.schema} /\ calls' = Older(calls)
         ELSE UNCHANGED <<skipped, calls>>
      /\ UNCHANGED <<kind, serverVars, tree, askVars, refreshes, mixed, fits>>
  BY DEF JobFails
<1>2. TreeShape /\ OneLatest /\ Turns /\ RedisInv /\ PostgresInv
  BY DEF TreeInv
<1>3. \A r \in refreshes : ~r.job
  BY <1>1, <1>2 DEF Turns, TreeShape, IsTurn
<1>4. CASE job.stage # "done"
  <2>1. TreeShape' /\ OneLatest' /\ Turns'
    BY <1>1, <1>2, <1>3, <1>4 DEF TreeShape, OneLatest, Turns
  <2>2. RedisInv'
    BY <1>1, <1>2, <1>4 DEF RedisInv, Flat, Scans, GoesOn
  <2>3. \A s : ~DoneOn(s)
    BY <1>4 DEF DoneOn
  <2>4. PostgresInv'
    BY <1>1, <1>2, <1>4, <2>3 DEF PostgresInv, Due, Cached
  <2> QED BY <2>1, <2>2, <2>4 DEF TreeInv
<1>5. CASE job.stage = "done"
  <2>1. skipped' = skipped \cup {job.schema} /\ calls' = Older(calls)
    BY <1>1, <1>5
  <2>2. \A c \in calls : IsCall(c)
    BY <1>2 DEF TreeShape
  <2>3. /\ \A d \in calls' :
              /\ IsCall(d)
              /\ \E c \in calls : SameAsk(c, d) /\ d.newest = c.newest
                                    /\ (c.op = "more" => d = c) /\ (c.op # "more" => ~d.sound)
        /\ \A c \in calls : \E d \in calls' : SameAsk(c, d) /\ d.newest = c.newest
    BY <2>1, <2>2, OlderCalls
  <2>4. TreeShape'
    BY <1>1, <1>2, <2>3 DEF TreeShape
  <2>5. OneLatest'
    <3> SUFFICES ASSUME NEW d \in calls', NEW e \in calls', Latest(d), Latest(e), d.path = e.path PROVE d = e
      BY DEF OneLatest
    <3>1. PICK b \in calls : SameAsk(b, d) /\ d.newest = b.newest /\ (b.op # "more" => ~d.sound)
      BY <2>3
    <3>2. PICK c \in calls : SameAsk(c, e) /\ e.newest = c.newest /\ (c.op # "more" => ~e.sound)
      BY <2>3
    <3>3. b = c
      BY <1>2, <3>1, <3>2 DEF OneLatest, Latest, SameAsk
    <3>4. SameAsk(d, e) /\ ~d.sound /\ ~e.sound /\ IsCall(d) /\ IsCall(e)
      BY <2>3, <3>1, <3>2, <3>3 DEF SameAsk, Latest
    <3> QED BY <3>4, SameCall DEF IsCall, Latest
  <2>6. Turns'
    <3>1. \A d \in calls' : d.op = "refresh" => \E r \in refreshes' : r.n = d.n
      BY <1>1, <1>2, <2>3 DEF Turns, SameAsk
    <3> QED BY <1>1, <1>2, <1>3, <3>1 DEF Turns
  <2>7. RedisInv'
    <3> SUFFICES ASSUME kind = "redis" PROVE Flat' /\ Scans'
      BY <1>1 DEF RedisInv
    <3>1. Flat /\ Scans
      BY <1>2 DEF RedisInv
    <3>2. Flat'
      BY <1>1, <2>3, <3>1 DEF Flat, SameAsk
    <3>3. \A d \in calls' : Latest(d) => d.pattern = pattern' /\ d.node = node'
      BY <1>1, <2>3, <3>1 DEF Scans, Latest, SameAsk
    <3>6. \A d \in calls' : d.op = "more" => d \in calls
      BY <2>3 DEF SameAsk
    <3>7. \A d \in calls' : d.op = "more" /\ d.sound => GoesOn(d)'
      BY <1>1, <3>1, <3>6 DEF Scans, GoesOn
    <3>8. (\E c \in calls : Latest(c)) => \E d \in calls' : Latest(d)
      BY <2>3 DEF Latest, SameAsk
    <3>4. ~fits' => tree'.errors[Root] \/ \E d \in calls' : Latest(d)
      BY <1>1, <3>1, <3>8 DEF Scans
    <3>5. \A d \in calls' : IsPage(keys', d)
      BY <1>1, <2>3, <3>1 DEF Scans, IsPage, SameAsk
    <3> QED BY <1>1, <3>1, <3>2, <3>3, <3>4, <3>5, <3>7 DEF Scans
  <2>8. PostgresInv'
    <3> SUFFICES ASSUME kind = "postgres" PROVE (\A c \in calls' : Due(c)') /\ \A s \in schemas : Cached(s)'
      BY <1>1 DEF PostgresInv
    <3>1. ASSUME NEW d \in calls', Latest(d), d.path \in schemas, d.answer # None
          PROVE  d.answer.items = tables[d.path] \/ (~d.sound /\ d.path \in skipped')
      <4>1. PICK c \in calls : SameAsk(c, d) /\ d.newest = c.newest /\ (c.op # "more" => ~d.sound)
        BY <2>3
      <4>2. Due(c)
        BY <1>2 DEF PostgresInv
      <4> QED BY <2>1, <3>1, <4>1, <4>2 DEF Due, DoneOn, Latest, SameAsk
    <3>2. ASSUME NEW s \in schemas PROVE Cached(s)'
      <4>1. Cached(s)
        BY <1>2 DEF PostgresInv
      <4>2. (\E c \in calls : Latest(c) /\ c.path = s) => \E d \in calls' : Latest(d) /\ d.path = s
        BY <2>3 DEF Latest, SameAsk
      <4> QED BY <1>1, <2>1, <4>1, <4>2 DEF Cached, DoneOn
    <3> QED BY <1>1, <3>1, <3>2 DEF Due
  <2> QED BY <2>4, <2>5, <2>6, <2>7, <2>8 DEF TreeInv
<1> QED BY <1>4, <1>5

-----------------------------------------------------------------------------
(* A call is over.  refreshTree may go on, prune the tree and let the      *)
(* change go that it followed, which is done with by then.                 *)
LEMMA PrunedIs ==
  ASSUME NEW t, IsTree(t)
  PROVE  /\ IsTree(Pruned(t)) /\ (kind = "redis" => Pruned(t) = t)
         /\ \A p \in Paths : \/ Pruned(t).items[p] = None
                             \/ Pruned(t).items[p] = t.items[p] /\ Pruned(t).errors[p] = t.errors[p]
<1> DEFINE dead == {s \in Schemas : t.items[s] # None /\ s \notin t.items[Root]}
           u == [t EXCEPT !.items = [p \in Paths |-> IF p \in dead THEN None ELSE @[p]],
                          !.loaded = [p \in Paths |-> @[p] /\ p \notin dead],
                          !.errors = [p \in Paths |-> @[p] /\ p \notin dead],
                          !.expanded = @ \ dead]
<1>1. Pruned(t) = IF kind = "redis" \/ t.errors[Root] THEN t ELSE u
  BY DEF Pruned
<1> HIDE DEF dead
<1>2. /\ u.items = [p \in Paths |-> IF p \in dead THEN None ELSE t.items[p]]
      /\ u.errors = [p \in Paths |-> t.errors[p] /\ p \notin dead]
      /\ u.loaded = [p \in Paths |-> t.loaded[p] /\ p \notin dead]
      /\ u.loading = t.loading /\ u.cursor = t.cursor /\ u.expanded = t.expanded \ dead
      /\ IsRecord(u, {"items", "cursor", "loading", "errors", "loaded", "expanded"})
  BY DEF IsTree, IsRecord
<1> HIDE DEF u
<1>3. IsTree(u)
  BY <1>2 DEF IsTree, IsRecord
<1>4. \A p \in Paths : u.items[p] = None \/ (u.items[p] = t.items[p] /\ u.errors[p] = t.errors[p])
  BY <1>2 DEF IsTree
<1> QED BY <1>1, <1>3, <1>4

Remaining(c) ==
  /\ \A d \in calls' : IsCall(d) /\ (d \in calls \ {c}
                                       \/ (d.op = "more" /\ ~d.sound /\ \E b \in calls \ {c} : SameAsk(b, d)))
  /\ \A b \in calls \ {c} : b.op # "more" => b \in calls'
SettledTree(t) ==
  /\ IsTree(tree') /\ (kind = "redis" => tree' = t)
  /\ \A p \in Paths : \/ tree'.items[p] = None
                      \/ tree'.items[p] = t.items[p] /\ tree'.errors[p] = t.errors[p]

LEMMA SettleKeeps ==
  ASSUME TreeShape, OneLatest, Turns, NEW c \in calls, NEW t, IsTree(t), Settle(c, t),
         calls' = calls \ {c} \/ calls' = Unsound(calls \ {c}),
         mixed' \in BOOLEAN, fits' \in BOOLEAN, UNCHANGED <<kind, serverVars, askVars>>
  PROVE  /\ TreeShape' /\ OneLatest' /\ Turns' /\ Remaining(c) /\ SettledTree(t)
         /\ calls' = Unsound(calls \ {c}) => \A d \in calls' : d.op = "more" => ~d.sound
         /\ \A s : DoneOn(s)' <=> DoneOn(s)
<1> USE DEF serverVars, askVars
<1> DEFINE rest == calls \ {c}
           ends == {r \in refreshes : c.op = "refresh" /\ r.n = c.n
                                        /\ ~\E d \in rest : d.op = "refresh" /\ d.n = c.n}
<1>1. \A b \in rest : IsCall(b)
  BY DEF TreeShape
<1>2. /\ \A d \in Unsound(rest) :
            /\ IsCall(d)
            /\ \E b \in rest : SameAsk(b, d) /\ d.newest = b.newest
                                 /\ (b.op # "more" => d = b) /\ (b.op = "more" => ~d.sound)
      /\ \A b \in rest : b.op # "more" => b \in Unsound(rest)
  BY <1>1, UnsoundCalls
<1>3. Remaining(c)
  BY <1>1, <1>2 DEF Remaining, SameAsk
<1>4. calls' = Unsound(calls \ {c}) => \A d \in calls' : d.op = "more" => ~d.sound
  BY <1>2 DEF SameAsk
<1>5. CASE ends = {}
  <2>1. tree' = t /\ refreshes' = refreshes /\ job' = job
    BY <1>5 DEF Settle
  <2>2. \A b \in rest : b.op = "refresh" => \E r \in refreshes' : r.n = b.n
    BY <2>1 DEF Turns
  <2> QED BY <1>3, <1>4, <2>1, <2>2 DEF TreeShape, OneLatest, Latest, Turns, Remaining, SettledTree, DoneOn, SameAsk
<1>6. CASE ends # {}
  <2>1. PICK r \in ends :
          /\ refreshes' = refreshes \ {r}
          /\ tree' = IF r.newest THEN Pruned(t) ELSE t
          /\ IF r.job THEN job' = None ELSE job' = job
    BY <1>6 DEF Settle
  <2>2. SettledTree(t)
    BY <2>1, PrunedIs DEF SettledTree
  <2>3. /\ r \in refreshes /\ (r.job => job # None /\ job.stage = "refreshing")
        /\ \A q \in refreshes \ {r} : r.job => ~q.job
    BY DEF Turns, TreeShape, IsTurn
  <2>4. \A s : DoneOn(s)' <=> DoneOn(s)
    BY <2>1, <2>3 DEF DoneOn
  <2>5. \A b \in rest : b.op = "refresh" => \E q \in refreshes' : q.n = b.n
    <3> SUFFICES ASSUME NEW b \in rest, b.op = "refresh" PROVE \E q \in refreshes' : q.n = b.n
      OBVIOUS
    <3>1. PICK q \in refreshes : q.n = b.n
      BY DEF Turns
    <3>2. q # r
      BY <3>1
    <3> QED BY <2>1, <3>1, <3>2
  <2>6. \A q \in refreshes' : q \in refreshes /\ (q.job => job' # None /\ job'.stage = "refreshing")
    BY <2>1, <2>3 DEF Turns, TreeShape, IsTurn
  <2>7. Turns'
    BY <1>3, <2>5, <2>6 DEF Turns, Remaining, SameAsk
  <2>8. TreeShape'
    BY <1>3, <2>1, <2>2, <2>6 DEF TreeShape, Remaining, SettledTree
  <2>9. OneLatest'
    BY <1>3 DEF OneLatest, Latest, Remaining
  <2> QED BY <1>3, <1>4, <2>2, <2>4, <2>7, <2>8, <2>9
<1> QED BY <1>5, <1>6

(* Two pages in a row cover what both cover.                               *)
LEMMA PagesJoin ==
  ASSUME NEW items, NEW c, IsCall(c), c.cursor # None, c.answer # None, c.answer.ok, items # None,
         Found(keys, items, c.cursor, c.pattern, c.node), IsPage(keys, c)
  PROVE  Found(keys, items \cup c.answer.items, c.answer.cursor, c.pattern, c.node)
<1>1. c.cursor.pos \in Nat /\ From(c.cursor) = c.cursor.pos
  BY Positions DEF IsCall, Cursors, From
<1>2. SUFFICES ASSUME NEW i \in DOMAIN Keyspace, i > 0, Reached(i, c.answer.cursor),
                      Keyspace[i] \in (keys \ Volatile) \cap c.pattern \cap c.node
               PROVE  Keyspace[i] \in items \cup c.answer.items
  BY DEF Found, Covers, IsPage
<1>3. i \in Nat
  BY Positions
<1>4. CASE i <= c.cursor.pos
  BY <1>2, <1>4 DEF Found, Covers, Reached
<1>5. CASE i > c.cursor.pos
  BY <1>1, <1>2, <1>5 DEF IsPage, Covers
<1> QED BY <1>1, <1>3, <1>4, <1>5

(* What an answer and an error do to the tree.                             *)
LEMMA FlagSet ==
  ASSUME NEW f \in [Paths -> BOOLEAN], NEW p
  PROVE  [f EXCEPT ![p] = TRUE] \in [Paths -> BOOLEAN] /\ [f EXCEPT ![p] = FALSE] \in [Paths -> BOOLEAN]
OBVIOUS

LEMMA LoadedIs ==
  ASSUME NEW t, IsTree(t), NEW c, IsCall(c), c.answer # None, c.answer.ok
  PROVE  /\ IsTree(Loaded(t, c)) /\ Loaded(t, c).expanded = t.expanded
         /\ Loaded(t, c).items[c.path] = c.answer.items
         /\ \A p \in Paths \ {c.path} :
              Loaded(t, c).items[p] = t.items[p] /\ Loaded(t, c).errors[p] = t.errors[p]
         /\ c.path = Root => Loaded(t, c).cursor = c.answer.cursor
<1>1. /\ Loaded(t, c).items = [t.items EXCEPT ![c.path] = c.answer.items]
      /\ Loaded(t, c).cursor = IF c.path = Root THEN c.answer.cursor ELSE t.cursor
      /\ Loaded(t, c).loading = [t.loading EXCEPT ![c.path] = FALSE]
      /\ Loaded(t, c).errors = [t.errors EXCEPT ![c.path] = FALSE]
      /\ Loaded(t, c).loaded = [t.loaded EXCEPT ![c.path] = TRUE]
      /\ Loaded(t, c).expanded = t.expanded
      /\ IsRecord(Loaded(t, c), {"items", "cursor", "loading", "errors", "loaded", "expanded"})
  BY DEF IsTree, IsRecord, Loaded
<1>2. IsRecord(Loaded(t, c).items, Paths) /\ Loaded(t, c).items[c.path] = c.answer.items
  BY <1>1 DEF IsTree, IsCall, IsRecord
<1>3. \A p \in Paths \ {c.path} : Loaded(t, c).items[p] = t.items[p] /\ Loaded(t, c).errors[p] = t.errors[p]
  BY <1>1 DEF IsTree, IsRecord
<1>4. Loaded(t, c).cursor \in Cursors \cup {None}
  BY <1>1 DEF IsTree, IsCall
<1>5. t.errors \in [Paths -> BOOLEAN] /\ t.loading \in [Paths -> BOOLEAN] /\ t.loaded \in [Paths -> BOOLEAN]
  BY DEF IsTree
<1>6. /\ Loaded(t, c).errors \in [Paths -> BOOLEAN] /\ Loaded(t, c).loading \in [Paths -> BOOLEAN]
      /\ Loaded(t, c).loaded \in [Paths -> BOOLEAN]
  BY <1>1, <1>5, FlagSet
<1>7. t.expanded \subseteq Schemas
  BY DEF IsTree
<1> QED BY <1>1, <1>2, <1>3, <1>4, <1>6, <1>7 DEF IsTree

LEMMA LoadFailedIs ==
  ASSUME NEW t, IsTree(t), NEW c, IsCall(c)
  PROVE  /\ IsTree(LoadFailed(t, c)) /\ LoadFailed(t, c).expanded = t.expanded
         /\ LoadFailed(t, c).items = t.items /\ LoadFailed(t, c).cursor = t.cursor
         /\ LoadFailed(t, c).errors[c.path]
         /\ \A p \in Paths \ {c.path} : LoadFailed(t, c).errors[p] = t.errors[p]
<1>1. /\ LoadFailed(t, c).loading = [t.loading EXCEPT ![c.path] = FALSE]
      /\ LoadFailed(t, c).errors = [t.errors EXCEPT ![c.path] = TRUE]
      /\ LoadFailed(t, c).loaded = [t.loaded EXCEPT ![c.path] = t.loaded[c.path] /\ c.op = "refresh"]
      /\ LoadFailed(t, c).expanded = t.expanded
      /\ LoadFailed(t, c).items = t.items /\ LoadFailed(t, c).cursor = t.cursor
      /\ IsRecord(LoadFailed(t, c), {"items", "cursor", "loading", "errors", "loaded", "expanded"})
  BY DEF IsTree, IsRecord, LoadFailed
<1>2. (t.loaded[c.path] /\ c.op = "refresh") \in BOOLEAN
  OBVIOUS
<1>3. LoadFailed(t, c).loaded \in [Paths -> BOOLEAN]
  BY <1>1, <1>2 DEF IsTree
<1> QED BY <1>1, <1>3 DEF IsTree, IsCall

LEMMA AppendedIs ==
  ASSUME NEW t, IsTree(t), NEW c, IsCall(c), c.answer # None, c.answer.ok
  PROVE  /\ IsTree(Appended(t, c)) /\ Appended(t, c).expanded = t.expanded
         /\ Appended(t, c).errors = t.errors /\ Appended(t, c).cursor = c.answer.cursor
         /\ Appended(t, c).items[Root] = (IF t.items[Root] = None THEN {} ELSE t.items[Root]) \cup c.answer.items
         /\ \A p \in Paths \ {Root} : Appended(t, c).items[p] = t.items[p]
<1> DEFINE found == (IF t.items[Root] = None THEN {} ELSE t.items[Root]) \cup c.answer.items
<1>1. /\ Appended(t, c).items = [t.items EXCEPT ![Root] = found]
      /\ Appended(t, c).loading = [t.loading EXCEPT ![Root] = FALSE]
      /\ Appended(t, c).expanded = t.expanded /\ Appended(t, c).loaded = t.loaded
      /\ Appended(t, c).errors = t.errors /\ Appended(t, c).cursor = c.answer.cursor
      /\ IsRecord(Appended(t, c), {"items", "cursor", "loading", "errors", "loaded", "expanded"})
  BY DEF IsTree, IsRecord, Appended
<1> HIDE DEF found
<1>2. /\ IsRecord(Appended(t, c).items, Paths) /\ Appended(t, c).items[Root] = found
      /\ \A p \in Paths \ {Root} : Appended(t, c).items[p] = t.items[p]
  BY <1>1 DEF IsTree, IsRecord, Paths
<1>3. Appended(t, c).loading \in [Paths -> BOOLEAN]
  BY <1>1 DEF IsTree
<1>4. Appended(t, c).cursor \in Cursors \cup {None}
  BY <1>1 DEF IsCall
<1>5. IsTree(Appended(t, c))
  BY <1>1, <1>2, <1>3, <1>4 DEF IsTree
<1> QED BY <1>1, <1>2, <1>5 DEF found

LEMMA ScanFailedIs ==
  ASSUME NEW t, IsTree(t)
  PROVE  /\ IsTree(ScanFailed(t)) /\ ScanFailed(t).expanded = t.expanded
         /\ ScanFailed(t).items = t.items /\ ScanFailed(t).cursor = t.cursor
         /\ ScanFailed(t).errors[Root]
         /\ \A p \in Paths \ {Root} : ScanFailed(t).errors[p] = t.errors[p]
<1>1. /\ ScanFailed(t).loading = [t.loading EXCEPT ![Root] = FALSE]
      /\ ScanFailed(t).errors = [t.errors EXCEPT ![Root] = TRUE]
      /\ ScanFailed(t).loaded = t.loaded /\ ScanFailed(t).expanded = t.expanded
      /\ ScanFailed(t).items = t.items /\ ScanFailed(t).cursor = t.cursor
      /\ IsRecord(ScanFailed(t), {"items", "cursor", "loading", "errors", "loaded", "expanded"})
  BY DEF IsTree, IsRecord, ScanFailed
<1> QED BY <1>1 DEF IsTree, Paths

(* A call that is over keeps the invariant: in a Redis tree, when the list *)
(* stays or no continued scan goes on from it,                             *)
LEMMA RedisCallOver ==
  ASSUME TreeInv, kind = "redis", NEW c \in calls, NEW t, IsTree(t), t.expanded = tree.expanded, Settle(c, t),
         calls' = calls \ {c} \/ calls' = Unsound(calls \ {c}),
         mixed' \in BOOLEAN, fits' \in BOOLEAN, UNCHANGED <<kind, serverVars, askVars>>,
         (fits' = fits /\ t.cursor = tree.cursor) \/ calls' = Unsound(calls \ {c}),
         t.cursor # None => t.items[Root] # None, t.items[Root] # None => t.items[Root] \subseteq Keys,
         ~fits' => t.errors[Root] \/ \E d \in calls \ {c} : Latest(d),
         fits' /\ ~mixed' => Found(keys, t.items[Root], t.cursor, pattern, node)
  PROVE  TreeInv'
<1> USE DEF serverVars, askVars
<1>0. TreeShape /\ OneLatest /\ Turns /\ Flat /\ Scans
  BY DEF TreeInv, RedisInv
<1>1. /\ TreeShape' /\ OneLatest' /\ Turns' /\ Remaining(c) /\ SettledTree(t)
      /\ calls' = Unsound(calls \ {c}) => \A d \in calls' : d.op = "more" => ~d.sound
  BY <1>0, SettleKeeps
<1>2. tree' = t
  BY <1>1 DEF SettledTree
<1>3. \A d \in calls' : d \in calls \/ (d.op = "more" /\ ~d.sound /\ \E b \in calls : SameAsk(b, d))
  BY <1>1 DEF Remaining
<1>4. Flat'
  BY <1>0, <1>2, <1>3 DEF Flat, SameAsk
<1>5. \A d \in calls' : Latest(d) => d.pattern = pattern' /\ d.node = node'
  BY <1>0, <1>3 DEF Scans, Latest
<1>6. \A d \in calls' : d.op = "more" /\ d.sound => GoesOn(d)'
  BY <1>0, <1>1, <1>2, <1>3 DEF Scans, GoesOn
<1>7. ~fits' => tree'.errors[Root] \/ \E d \in calls' : Latest(d)
  BY <1>1, <1>2 DEF Remaining, Latest
<1>8. \A d \in calls' : IsPage(keys', d)
  BY <1>0, <1>3 DEF Scans, IsPage, SameAsk
<1>9. Scans'
  BY <1>2, <1>5, <1>6, <1>7, <1>8 DEF Scans
<1> QED BY <1>1, <1>4, <1>9 DEF TreeInv, RedisInv, PostgresInv

(* and in a Postgres tree, when only its own path changes and what that    *)
(* holds then is due or excused.                                           *)
LEMMA PostgresCallOver ==
  ASSUME TreeInv, kind = "postgres", NEW c \in calls, NEW t, IsTree(t), Settle(c, t),
         calls' = calls \ {c} \/ calls' = Unsound(calls \ {c}),
         mixed' \in BOOLEAN, fits' \in BOOLEAN, UNCHANGED <<kind, serverVars, askVars>>,
         \A s \in schemas \ {c.path} : t.items[s] = tree.items[s] /\ t.errors[s] = tree.errors[s],
         skipped' = skipped \/ (skipped' = skipped \ {c.path} /\ Latest(c)),
         c.path \in schemas /\ t.items[c.path] # None /\ ~t.errors[c.path] =>
           \/ t.items[c.path] = tables[c.path] \/ DoneOn(c.path) \/ c.path \in skipped'
           \/ \E d \in calls \ {c} : Latest(d) /\ d.path = c.path
  PROVE  TreeInv'
<1> USE DEF serverVars, askVars
<1>0. TreeShape /\ OneLatest /\ Turns /\ PostgresInv
  BY DEF TreeInv
<1>1. /\ TreeShape' /\ OneLatest' /\ Turns' /\ Remaining(c) /\ SettledTree(t)
      /\ \A s : DoneOn(s)' <=> DoneOn(s)
  BY <1>0, SettleKeeps
<1>2. ASSUME NEW d \in calls' PROVE Due(d)'
  <2> SUFFICES ASSUME Latest(d), d.path \in schemas, d.answer # None
               PROVE  \/ d.answer.items = tables[d.path] \/ DoneOn(d.path)'
                      \/ ~d.sound /\ d.path \in skipped'
    BY DEF Due
  <2>1. d \in calls \ {c} /\ Due(d)
    BY <1>0, <1>1 DEF Remaining, Latest, PostgresInv
  <2>2. d.path = c.path => ~Latest(c)
    BY <1>0, <2>1 DEF OneLatest
  <2> QED BY <1>1, <2>1, <2>2 DEF Due
<1>3. ASSUME NEW s \in schemas PROVE Cached(s)'
  <2>1. s \in Paths
    BY <1>0 DEF TreeShape, Paths
  <2>2. tree'.items[s] # None => tree'.items[s] = t.items[s] /\ tree'.errors[s] = t.errors[s]
    BY <1>1, <2>1 DEF SettledTree
  <2>3. (\E d \in calls \ {c} : Latest(d) /\ d.path = s) => \E d \in calls' : Latest(d) /\ d.path = s
    BY <1>1 DEF Remaining, Latest
  <2>4. CASE s = c.path
    BY <1>1, <2>2, <2>3, <2>4 DEF Cached
  <2>5. CASE s # c.path
    <3>1. Cached(s) /\ (s \in skipped' <=> s \in skipped)
      BY <1>0, <2>5 DEF PostgresInv
    <3>2. t.items[s] = tree.items[s] /\ t.errors[s] = tree.errors[s]
      BY <2>5
    <3> QED BY <1>1, <2>2, <2>3, <2>5, <3>1, <3>2 DEF Cached
  <2> QED BY <2>4, <2>5
<1> QED BY <1>0, <1>1, <1>2, <1>3 DEF TreeInv, RedisInv, PostgresInv

(* and when the call was superseded and the tree stays.                    *)
LEMMA LateCallOver ==
  ASSUME TreeInv, NEW c \in calls, ~Latest(c), c.op # "more", Settle(c, tree), calls' = calls \ {c},
         UNCHANGED <<kind, serverVars, askVars, mixed, fits, skipped>>
  PROVE  TreeInv'
<1>0. TreeShape /\ OneLatest /\ Turns /\ RedisInv /\ PostgresInv /\ IsTree(tree)
  BY DEF TreeInv, TreeShape
<1>1. mixed' \in BOOLEAN /\ fits' \in BOOLEAN /\ kind \in {"redis", "postgres"}
  BY <1>0 DEF TreeShape
<1>2. CASE kind = "redis"
  <2>1. Scans
    BY <1>0, <1>2 DEF RedisInv
  <2>2. ~fits' => tree.errors[Root] \/ \E d \in calls \ {c} : Latest(d)
    BY <2>1 DEF Scans
  <2> QED BY <1>0, <1>1, <1>2, <2>1, <2>2, RedisCallOver DEF Scans
<1>3. CASE kind = "postgres"
  <2>1. \A s \in schemas : Cached(s)
    BY <1>0, <1>3 DEF PostgresInv
  <2>2. c.path \in schemas /\ tree.items[c.path] # None /\ ~tree.errors[c.path] =>
          \/ tree.items[c.path] = tables[c.path] \/ DoneOn(c.path) \/ c.path \in skipped'
          \/ \E d \in calls \ {c} : Latest(d) /\ d.path = c.path
    BY <2>1 DEF Cached
  <2> QED BY <1>0, <1>1, <1>3, <2>2, PostgresCallOver
<1> QED BY <1>1, <1>2, <1>3

LEMMA LandStep ==
  ASSUME TreeInv, NEW c \in calls, Land(c)
  PROVE  TreeInv'
<1>0. TreeShape /\ OneLatest /\ Turns /\ RedisInv /\ PostgresInv /\ IsCall(c) /\ IsTree(tree)
  BY DEF TreeInv, TreeShape
<1>1. /\ c.answer # None /\ c.answer.ok /\ UNCHANGED <<kind, serverVars, askVars>>
      /\ kind \in {"redis", "postgres"} /\ Root \in Paths
  BY <1>0 DEF Land, TreeShape, Paths
<1>2. CASE c.op = "more"
  <2> DEFINE t == Appended(tree, c)
  <2>1. /\ Settle(c, t) /\ calls' = Unsound(calls \ {c}) /\ mixed' = (mixed \/ ~c.sound)
        /\ fits' = fits /\ skipped' = skipped
    BY <1>2 DEF Land
  <2>2. mixed' \in BOOLEAN /\ fits' \in BOOLEAN
    BY <1>0, <2>1 DEF TreeShape
  <2>3. /\ IsTree(t) /\ t.expanded = tree.expanded /\ t.errors = tree.errors /\ t.cursor = c.answer.cursor
        /\ t.items[Root] = (IF tree.items[Root] = None THEN {} ELSE tree.items[Root]) \cup c.answer.items
        /\ \A p \in Paths \ {Root} : t.items[p] = tree.items[p]
    BY <1>0, <1>1, AppendedIs
  <2> HIDE DEF t
  <2>4. CASE kind = "redis"
    <3>1. Flat /\ Scans /\ IsPage(keys, c)
      BY <1>0, <2>4 DEF RedisInv, Scans
    <3>2. t.items[Root] \subseteq Keys
      BY <1>0, <1>1, <2>3, <3>1 DEF Scans, IsPage, IsCall
    <3>3. t.items[Root] # None
      BY <3>2, TreeAssumption
    <3>4. ~fits' => t.errors[Root] \/ \E d \in calls \ {c} : Latest(d)
      BY <1>2, <2>1, <2>3, <3>1 DEF Scans, Latest
    <3>5. fits' /\ ~mixed' => Found(keys, t.items[Root], t.cursor, pattern, node)
      <4> SUFFICES ASSUME fits', ~mixed' PROVE Found(keys, t.items[Root], t.cursor, pattern, node)
        OBVIOUS
      <4>1. GoesOn(c) /\ fits /\ ~mixed
        BY <1>0, <1>2, <2>1, <3>1 DEF Scans, IsCall
      <4>2. /\ tree.items[Root] # None /\ c.cursor # None /\ c.cursor = tree.cursor
            /\ c.pattern = pattern /\ c.node = node
        BY <3>1, <4>1 DEF Scans, GoesOn
      <4>3. Found(keys, tree.items[Root], c.cursor, c.pattern, c.node)
        BY <3>1, <4>1, <4>2 DEF Scans
      <4> QED BY <1>0, <1>1, <2>3, <3>1, <4>2, <4>3, PagesJoin
    <3> QED BY <1>1, <2>1, <2>2, <2>3, <2>4, <3>2, <3>3, <3>4, <3>5, RedisCallOver
  <2>5. CASE kind = "postgres"
    <3>1. \A s \in schemas : s \in Paths /\ s # Root
      BY <1>0, TreeAssumption DEF TreeShape, Paths
    <3>2. \A s \in schemas : t.items[s] = tree.items[s] /\ t.errors[s] = tree.errors[s]
      BY <2>3, <3>1
    <3>3. \A s \in schemas : Cached(s)
      BY <1>0, <2>5 DEF PostgresInv
    <3>4. c.path \in schemas /\ t.items[c.path] # None /\ ~t.errors[c.path] =>
            \/ t.items[c.path] = tables[c.path] \/ DoneOn(c.path) \/ c.path \in skipped'
            \/ \E d \in calls \ {c} : Latest(d) /\ d.path = c.path
      BY <1>2, <2>1, <3>2, <3>3 DEF Cached, Latest
    <3> QED BY <1>1, <2>1, <2>2, <2>3, <2>5, <3>2, <3>4, PostgresCallOver
  <2> QED BY <1>1, <2>4, <2>5
<1>3. CASE c.op # "more" /\ c.newest
  <2> DEFINE t == Loaded(tree, c)
  <2>1. /\ Settle(c, t) /\ calls' = Unsound(calls \ {c}) /\ mixed' = (mixed /\ c.path # Root)
        /\ fits' = (fits \/ c.path = Root) /\ skipped' = IF c.sound THEN skipped \ {c.path} ELSE skipped
    BY <1>3 DEF Land, IsNewest
  <2>2. mixed' \in BOOLEAN /\ fits' \in BOOLEAN /\ Latest(c)
    BY <1>3, <2>1 DEF Latest
  <2>3. /\ IsTree(t) /\ t.expanded = tree.expanded /\ t.items[c.path] = c.answer.items
        /\ \A p \in Paths \ {c.path} : t.items[p] = tree.items[p] /\ t.errors[p] = tree.errors[p]
        /\ c.path = Root => t.cursor = c.answer.cursor
    BY <1>0, <1>1, LoadedIs
  <2> HIDE DEF t
  <2>4. CASE kind = "redis"
    <3>1. Flat /\ Scans /\ IsPage(keys, c) /\ c.path = Root /\ c.pattern = pattern /\ c.node = node
      BY <1>0, <2>2, <2>4 DEF RedisInv, Flat, Scans
    <3>2. t.items[Root] \subseteq Keys
      BY <1>0, <1>1, <2>3, <3>1 DEF IsPage, IsCall
    <3>3. t.items[Root] # None
      BY <3>2, TreeAssumption
    <3>4. From(c.cursor) = 0
      BY <1>0, <1>3 DEF IsCall, From
    <3>5. Found(keys, t.items[Root], t.cursor, pattern, node)
      BY <1>1, <2>3, <3>1, <3>4 DEF IsPage, Found
    <3>6. fits'
      BY <2>1, <3>1
    <3> QED BY <1>1, <2>1, <2>2, <2>3, <2>4, <3>2, <3>3, <3>5, <3>6, RedisCallOver
  <2>5. CASE kind = "postgres"
    <3>1. \A s \in schemas : s \in Paths
      BY <1>0 DEF TreeShape, Paths
    <3>2. \A s \in schemas \ {c.path} : t.items[s] = tree.items[s] /\ t.errors[s] = tree.errors[s]
      BY <2>3, <3>1
    <3>3. Due(c)
      BY <1>0, <2>5 DEF PostgresInv
    <3>4. skipped' = skipped \/ (skipped' = skipped \ {c.path} /\ Latest(c))
      BY <2>1, <2>2
    <3>5. c.path \in schemas =>
            t.items[c.path] = tables[c.path] \/ DoneOn(c.path) \/ c.path \in skipped'
      BY <1>1, <2>1, <2>2, <2>3, <3>3 DEF Due
    <3> QED BY <1>1, <2>1, <2>2, <2>3, <2>5, <3>2, <3>4, <3>5, PostgresCallOver
  <2> QED BY <1>1, <2>4, <2>5
<1>4. CASE c.op # "more" /\ ~c.newest
  <2>1. /\ Settle(c, tree) /\ calls' = calls \ {c} /\ mixed' = mixed /\ fits' = fits /\ skipped' = skipped
    BY <1>0, <1>4 DEF Land, IsNewest, TreeShape
  <2>2. ~Latest(c)
    BY <1>4 DEF Latest
  <2> QED BY <1>1, <1>4, <2>1, <2>2, LateCallOver
<1> QED BY <1>0, <1>2, <1>3, <1>4 DEF IsCall

LEMMA FailStep ==
  ASSUME TreeInv, NEW c \in calls, Fail(c)
  PROVE  TreeInv'
<1>0. TreeShape /\ OneLatest /\ Turns /\ RedisInv /\ PostgresInv /\ IsCall(c) /\ IsTree(tree)
  BY DEF TreeInv, TreeShape
<1>1. /\ calls' = calls \ {c} /\ UNCHANGED <<kind, serverVars, askVars, mixed, fits, skipped>>
      /\ Settle(c, IF c.op = "more" THEN ScanFailed(tree)
                   ELSE IF IsNewest(c) THEN LoadFailed(tree, c) ELSE tree)
  BY DEF Fail
<1>2. kind \in {"redis", "postgres"} /\ mixed' \in BOOLEAN /\ fits' \in BOOLEAN
  BY <1>0, <1>1 DEF TreeShape
<1>3. ASSUME c.op = "more" \/ c.newest PROVE TreeInv'
  <2>1. PICK t : t = IF c.op = "more" THEN ScanFailed(tree) ELSE LoadFailed(tree, c)
    OBVIOUS
  <2>2. Settle(c, t)
    BY <1>1, <1>3, <2>1 DEF IsNewest
  <2>3. /\ IsTree(t) /\ t.expanded = tree.expanded /\ t.items = tree.items /\ t.cursor = tree.cursor
        /\ c.op = "more" => t.errors[Root] /\ \A p \in Paths \ {Root} : t.errors[p] = tree.errors[p]
        /\ c.op # "more" => t.errors[c.path] /\ \A p \in Paths \ {c.path} : t.errors[p] = tree.errors[p]
    BY <1>0, <2>1, ScanFailedIs, LoadFailedIs
  <2>4. CASE kind = "redis"
    <3>1. Flat /\ Scans
      BY <1>0, <2>4 DEF RedisInv
    <3>2. t.errors[Root]
      BY <2>3, <3>1 DEF Flat
    <3>3. /\ t.cursor # None => t.items[Root] # None
          /\ t.items[Root] # None => t.items[Root] \subseteq Keys
          /\ fits' /\ ~mixed' => Found(keys, t.items[Root], t.cursor, pattern, node)
      BY <1>1, <2>3, <3>1 DEF Scans
    <3> QED BY <1>1, <1>2, <2>2, <2>3, <2>4, <3>2, <3>3, RedisCallOver
  <2>5. CASE kind = "postgres"
    <3>1. \A s \in schemas : s \in Paths /\ s # Root
      BY <1>0, TreeAssumption DEF TreeShape, Paths
    <3>2. \A s \in schemas \ {c.path} : t.items[s] = tree.items[s] /\ t.errors[s] = tree.errors[s]
      BY <2>3, <3>1
    <3>3. c.path \in schemas => Cached(c.path)
      BY <1>0, <2>5 DEF PostgresInv
    <3>4. c.op = "more" /\ c.path \in schemas => t.errors[c.path] = tree.errors[c.path]
      BY <2>3, <3>1
    <3>5. c.path \in schemas /\ t.items[c.path] # None /\ ~t.errors[c.path] =>
            \/ t.items[c.path] = tables[c.path] \/ DoneOn(c.path) \/ c.path \in skipped'
            \/ \E d \in calls \ {c} : Latest(d) /\ d.path = c.path
      BY <1>1, <2>3, <3>3, <3>4 DEF Cached, Latest
    <3> QED BY <1>1, <1>2, <2>2, <2>3, <2>5, <3>2, <3>5, PostgresCallOver
  <2> QED BY <1>2, <2>4, <2>5
<1>4. CASE c.op # "more" /\ ~c.newest
  BY <1>1, <1>4, LateCallOver DEF IsNewest, Latest
<1> QED BY <1>0, <1>3, <1>4 DEF IsCall

-----------------------------------------------------------------------------
LEMMA UserStep ==
  ASSUME TreeInv,
         \/ \E k \in Keys : HandleCreateKey(k)
         \/ \E p \in Patterns : RunDelete(p)
         \/ \E s \in Schemas, o \in Tables : CreateTable(s, o) \/ DropTable(s, o)
  PROVE  TreeInv'
<1> USE DEF historyVars
<1>1. ASSUME NEW k \in Keys, HandleCreateKey(k) PROVE TreeInv'
  <2>1. Job("key", Root, k) \in Jobs
    BY <1>1 DEF HandleCreateKey, Job, Jobs, Stages
  <2> QED BY <1>1, <2>1, JobStep DEF HandleCreateKey
<1>2. ASSUME NEW p \in Patterns, RunDelete(p) PROVE TreeInv'
  <2>1. Job("bulk", Root, p) \in Jobs
    BY DEF Job, Jobs, Stages
  <2> QED BY <1>2, <2>1, JobStep DEF RunDelete
<1>3. ASSUME NEW s \in Schemas, NEW o \in Tables, CreateTable(s, o) \/ DropTable(s, o) PROVE TreeInv'
  <2>1. Job("table", s, o) \in Jobs /\ Job("drop", s, o) \in Jobs
    BY DEF Job, Jobs, Stages
  <2>2. CASE CreateTable(s, o)
    BY <2>1, <2>2, JobStep DEF CreateTable
  <2>3. CASE DropTable(s, o)
    BY <2>1, <2>3, JobStep DEF DropTable
  <2> QED BY <1>3, <2>2, <2>3
<1> QED BY <1>1, <1>2, <1>3

LEMMA TreeStep == TreeInv /\ [Next]_vars => TreeInv'
<1> SUFFICES ASSUME TreeInv, [Next]_vars PROVE TreeInv'
  OBVIOUS
<1> USE DEF stateOfTree, historyVars
<1>1. CASE UNCHANGED vars
  BY <1>1, TreeFrame DEF vars
<1>2. CASE SyncVisibleSchemas
  BY <1>2, TreeFrame DEF SyncVisibleSchemas
<1>3. CASE Mount \/ Unmount \/ PressRefresh \/ ScanMoreKeys
  <2>1. CASE Unmount
    BY <2>1, TreeFrame DEF Unmount
  <2> QED BY <1>3, <2>1, MountStep, PressRefreshStep, ScanMoreKeysStep
<1>4. CASE \E p \in Paths : Retry(p)
  BY <1>4, RetryStep
<1>5. CASE (\E p \in Patterns \cup {Keys} : SetKeyPattern(p)) \/ \E nd \in Nodes \cup {Keys} : SetSelectedNode(nd)
  <2>1. Patterns \cup {Keys} \subseteq SUBSET Keys /\ Nodes \cup {Keys} \subseteq SUBSET Keys
    BY TreeAssumption
  <2> QED BY <1>5, <2>1, SetKeyPatternStep, SetSelectedNodeStep
<1>6. CASE (\E k \in Keys : KeyChurns(k)) \/ \E s \in Schemas : HandleNodeClick(s) \/ SchemaDropped(s)
  BY <1>6, KeyChurnsStep, HandleNodeClickStep, SchemaDroppedStep
<1>7. CASE \/ \E k \in Keys : HandleCreateKey(k)
           \/ \E p \in Patterns : RunDelete(p)
           \/ \E s \in Schemas, o \in Tables : CreateTable(s, o) \/ DropTable(s, o)
  BY <1>7, UserStep
<1>8. CASE \E v \in FilterChoices : HandleSaveVisibleSchemas(v)
  BY <1>8, TreeFrame DEF HandleSaveVisibleSchemas
<1>9. CASE \E c \in calls : Answer(c) \/ Land(c) \/ Fail(c)
  BY <1>9, AnswerStep, LandStep, FailStep
<1>10. CASE ServerChanges \/ JobLands \/ JobFails
  BY <1>10, ServerChangesStep, JobLandsStep, JobFailsStep
<1>11. CASE \E p \in puts : FilterIsFiled(p) \/ FilterLands(p) \/ FilterFails(p)
  BY <1>11, TreeFrame DEF FilterIsFiled, FilterLands, FilterFails
<1>12. Next => SyncVisibleSchemas \/ Events
  BY DEF Next
<1>13. CASE Events
  BY <1>3, <1>4, <1>5, <1>6, <1>7, <1>8, <1>9, <1>10, <1>11, <1>13 DEF Events, Arrives
<1> QED BY <1>1, <1>2, <1>12, <1>13

LEMMA TreeStarts == Init => TreeInv
<1> SUFFICES ASSUME Init PROVE TreeInv
  OBVIOUS
<1>1. /\ kind \in {"redis", "postgres"} /\ schemas \subseteq Schemas /\ tables = [s \in Schemas |-> {}]
      /\ keys \subseteq Keys /\ pattern = Keys /\ node = Keys
      /\ calls = {} /\ refreshes = {} /\ job = None /\ mixed = FALSE /\ fits = TRUE
  BY DEF Init
<1>2. /\ tree.items = [p \in Paths |-> None] /\ tree.cursor = None /\ tree.expanded = {}
      /\ IsTree(tree)
  BY DEF Init, IsTree, IsRecord
<1>3. \A p \in Paths : tree.items[p] = None
  BY <1>2
<1>4. TreeShape /\ OneLatest /\ Turns
  BY <1>1, <1>2 DEF TreeShape, OneLatest, Turns
<1>5. RedisInv
  BY <1>1, <1>2, <1>3 DEF RedisInv, Flat, Scans, Found, Paths
<1>6. PostgresInv
  BY <1>1, <1>3 DEF PostgresInv, Cached, Paths
<1> QED BY <1>4, <1>5, <1>6 DEF TreeInv

LEMMA TreeHolds == Spec => []TreeInv
BY TreeStarts, TreeStep, PTL DEF Spec

(* Whatever filters, nodes, refreshes and continued scans were asked for   *)
(* and however they were answered, the keys on screen are those of the     *)
(* filter and the node on screen: once nothing is under way the list was   *)
(* read with them, or its error is shown.                                  *)
THEOREM TreeAnswersItsFilterHolds == Spec => []TreeAnswersItsFilter
<1>1. TreeInv => TreeAnswersItsFilter
  BY DEF TreeInv, RedisInv, Scans, Found, TreeAnswersItsFilter
<1> QED BY <1>1, TreeHolds, PTL

(* A scan that reports its end has met every key: page by page, whatever   *)
(* the position a cursor names, what the tree holds covers what the scan   *)
(* has gone over, and without a cursor that is the whole keyspace.         *)
THEOREM FinishedScanIsCompleteHolds == Spec => []FinishedScanIsComplete
<1>1. TreeInv => FinishedScanIsComplete
  <2> SUFFICES ASSUME TreeInv, kind = "redis", calls = {}, ~mixed, ~tree.errors[Root],
                      tree.items[Root] # None, tree.cursor = None,
                      NEW k \in (keys \ Volatile) \cap pattern \cap node
               PROVE  k \in tree.items[Root]
    BY DEF FinishedScanIsComplete
  <2>1. keys \subseteq Keys /\ Scans
    BY DEF TreeInv, TreeShape, RedisInv
  <2>2. PICK i \in DOMAIN Keyspace : k = Keyspace[i]
    BY <2>1 DEF Keys, Range
  <2>3. Covers(keys, tree.items[Root], 0, tree.cursor, pattern, node)
    BY <2>1 DEF Scans, Found
  <2>4. i > 0 /\ Reached(i, tree.cursor)
    BY Positions DEF Reached
  <2> QED BY <2>2, <2>3, <2>4 DEF Covers
<1> QED BY <1>1, TreeHolds, PTL

(* A schema that is open shows the tables the server has, whatever was     *)
(* made, dropped or superseded meanwhile: what is cached is those tables,  *)
(* or its newest fetch is on its way, or a refresh has yet to follow, or   *)
(* the last refresh passed it over.                                        *)
THEOREM OpenSchemasAreFreshHolds == Spec => []OpenSchemasAreFresh
<1>1. TreeInv => OpenSchemasAreFresh
  BY DEF TreeInv, PostgresInv, Cached, DoneOn, Settled, OpenSchemasAreFresh
<1> QED BY <1>1, TreeHolds, PTL
=============================================================================

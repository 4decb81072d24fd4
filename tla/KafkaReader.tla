----------------------------- MODULE KafkaReader -----------------------------
(***************************************************************************)
(* The message browser of kafka/messages.go: one browser tab pages through *)
(* a topic, each page one GetData, while the topic grows, ages out, is     *)
(* compacted and is recreated, and reads run out of time.                  *)
(*                                                                         *)
(* A row is <<incarnation, partition, offset>>.  The cursor travels        *)
(* through the browser; between two pages the server keeps only what its   *)
(* client knows of the topic's id.                                         *)
(***************************************************************************)
EXTENDS Integers, FiniteSetsExt

CONSTANTS
  Parts,           \* partitions of the topic
  Logs,            \* what they may hold when the browse begins
  Queries,         \* what the tab may ask: direction, scan or browse, scope, seek
  Limit,           \* rows of a page
  MaxScan,         \* maxScanMessages: records of one step of a scan
  MaxRounds,       \* maxAdaptiveRounds
  MaxCandidates,   \* maxCandidateOffsets
  MaxOffset,       \* bound: offsets a partition may reach
  MaxChanges,      \* bound: changes of the topic
  MaxFailures,     \* bound: listings and reads that fail or run out of time
  Unset

Offsets == 0..MaxOffset
BrowseDirections == {"newest", "oldest"}
Query == [dir : BrowseDirections, scan : BOOLEAN, scope : (SUBSET Parts) \ {{}}, seek : Offsets \cup {Unset}]
Log == {l \in [end : Offsets, records : SUBSET Offsets] : l.records \subseteq 0..(l.end - 1)}

ASSUME ReaderAssumption ==
  /\ IsFiniteSet(Parts) /\ Logs \subseteq [Parts -> Log] /\ Queries \subseteq Query
  /\ Limit \in Nat \ {0} /\ MaxScan \in Nat \ {0} /\ MaxRounds \in Nat \ {0}
  /\ MaxCandidates \in Nat /\ MaxOffset \in Nat /\ MaxChanges \in Nat /\ MaxFailures \in Nat
  /\ Unset \notin Int \cup Parts

VARIABLES
  inc, log, lo, hi,    \* the topic: its incarnation, the offsets that hold a
                       \* record, where each partition starts and ends
  changes, failures,   \* how often the topic changed, reads failed
  known,               \* the incarnation the client has cached, or Unset
  query,               \* what the tab browses
  cursor,              \* the cursor of the last page, Unset where it has none
  more,                \* has_older or has_newer of the last page
  pc,                  \* where the request stands
  starts, ends,        \* the listed offsets, Unset until they are listed
  resume,              \* the cursor of this attempt
  retried,             \* the attempt follows a purge
  floor,               \* the edge the next round grows away from
  widen, round, scanned,
  rows,                \* what the rounds have read
  completed,           \* partitions that finished the last round they were in
  far,                 \* completedWindow
  held,                \* recordsRead
  partial,
  windows,             \* what consumeWindows was asked for
  landed, found,       \* partitions it has finished, and their rows
  shown,               \* history: the rows the tab was given since its browse began
  edge,                \* history: where the browse of each partition began
  seen,                \* history: incarnations this browse has listed or read
  unlisted             \* history: partitions whose end some page could not list

topicVars == <<inc, log, lo, hi, changes>>
tabVars == <<query, cursor, more, shown, edge>>
listVars == <<starts, ends, resume, retried>>
roundVars == <<floor, widen, round, scanned, rows, completed, far, held, partial>>
callVars == <<windows, landed, found>>
historyVars == <<seen, unlisted>>
readerVars == <<topicVars, failures, known, pc, tabVars, listVars, roundVars, callVars, historyVars>>

Everywhere(x) == [p \in Parts |-> x]
NoWindow == [from |-> 0, upper |-> 0]
Within(w) == w.from..(w.upper - 1)

ReaderInit ==
  /\ inc = 1 /\ lo = Everywhere(0)
  /\ \E l \in Logs : hi = [p \in Parts |-> l[p].end] /\ log = [p \in Parts |-> l[p].records]
  /\ changes = 0 /\ failures = 0
  /\ known = Unset
  /\ query \in Queries
  /\ cursor = Everywhere(Unset) /\ more = TRUE
  /\ pc = "idle"
  /\ starts = Unset /\ ends = Unset /\ resume = Everywhere(Unset) /\ retried = FALSE
  /\ floor = Everywhere(0) /\ widen = 1 /\ round = 0 /\ scanned = 0
  /\ rows = {} /\ completed = {} /\ far = Everywhere(NoWindow) /\ held = {} /\ partial = FALSE
  /\ windows = Everywhere(NoWindow) /\ landed = {} /\ found = {}
  /\ shown = {} /\ edge = Everywhere(Unset) /\ seen = {} /\ unlisted = {}
-----------------------------------------------------------------------------
(* The topic, whatever the reader does. *)

Change ==
  /\ changes < MaxChanges
  /\ changes' = changes + 1
  /\ UNCHANGED <<failures, known, pc, tabVars, listVars, roundVars, callVars, historyVars>>

Produce(p) ==
  /\ Change
  /\ hi[p] < MaxOffset
  /\ log' = [log EXCEPT ![p] = @ \cup {hi[p]}]
  /\ hi' = [hi EXCEPT ![p] = @ + 1]
  /\ UNCHANGED <<inc, lo>>

Retain(p, start) ==
  /\ Change
  /\ lo[p] < start /\ start <= hi[p]
  /\ lo' = [lo EXCEPT ![p] = start]
  /\ log' = [log EXCEPT ![p] = {o \in @ : o >= start}]
  /\ UNCHANGED <<inc, hi>>

Compact(p, o) ==
  /\ Change
  /\ o \in log[p]
  /\ log' = [log EXCEPT ![p] = @ \ {o}]
  /\ UNCHANGED <<inc, lo, hi>>

Recreate ==
  /\ Change
  /\ inc' = inc + 1
  /\ log' = Everywhere({}) /\ lo' = Everywhere(0) /\ hi' = Everywhere(0)

(* Another tab's request meets the stale topic id, purges it and reads on:    *)
(* consumeMu keeps its fetches out of this tab's.                             *)
OtherTabRenews ==
  /\ pc # "consume"
  /\ known \notin {Unset, inc}
  /\ known' = inc
  /\ UNCHANGED <<topicVars, failures, pc, tabVars, listVars, roundVars, callVars, historyVars>>
-----------------------------------------------------------------------------
(* Direction. *)

Oldest == query.dir = "oldest"
Target == IF query.scan THEN MaxScan ELSE Limit

(* The smallest window per partition that together makes a page. *)
Quota == (Target + Cardinality(query.scope) - 1) \div Cardinality(query.scope)

(* The cursor and the seek bound a partition from the side its browse comes *)
(* from: from above towards older records, from below towards newer ones.   *)
Lower(p, mark) ==
  IF Oldest THEN Max({starts[p], query.seek, mark} \ {Unset}) ELSE starts[p]
SeekCeiling == IF query.seek = Unset THEN Unset ELSE query.seek + 1
Upper(p, mark) ==
  IF Oldest THEN ends[p] ELSE Min({ends[p], SeekCeiling, mark} \ {Unset})

Windowed == {p \in query.scope : Lower(p, resume[p]) < Upper(p, resume[p])}
Beginning(p) == IF Oldest THEN Lower(p, resume[p]) ELSE Upper(p, resume[p])

(* Mutant: the last window reaches below the start of the partition. *)
UnclampedWindow(p) ==
  IF Oldest THEN [from |-> floor[p], upper |-> Min({floor[p] + widen, ends[p]})]
  ELSE [from |-> floor[p] - widen, upper |-> floor[p]]

(* The next piece of a partition, growing away from its floor. *)
NextWindow(p) ==
  IF Oldest THEN [from |-> floor[p], upper |-> Min({floor[p] + widen, ends[p]})]
  ELSE [from |-> Max({floor[p] - widen, starts[p]}), upper |-> floor[p]]

FarSide(w) == IF Oldest THEN w.upper ELSE w.from
Readable == {p \in Windowed : IF Oldest THEN floor[p] < ends[p] ELSE floor[p] > starts[p]}
-----------------------------------------------------------------------------
(* The request. *)

Ask ==
  /\ pc = "idle" /\ more
  /\ pc' = "listing"
  /\ starts' = Unset /\ ends' = Unset
  /\ resume' = cursor /\ retried' = FALSE
  /\ UNCHANGED <<topicVars, failures, known, tabVars, roundVars, callVars, historyVars>>

(* The two listings run side by side.  A partition whose offset cannot be   *)
(* listed counts as zero; without any end the request fails, as if it had   *)
(* not been made.                                                           *)
WasListed(offset, failed) == [p \in Parts |-> IF p \in failed THEN 0 ELSE offset[p]]
MayFail(failed) ==
  /\ failed # {} => failures < MaxFailures
  /\ failures' = IF failed = {} THEN failures ELSE failures + 1

ListStarts(failed) ==
  /\ pc = "listing" /\ starts = Unset /\ MayFail(failed)
  /\ starts' = WasListed(lo, failed)
  /\ seen' = seen \cup {inc}
  /\ UNCHANGED <<topicVars, known, pc, tabVars, ends, resume, retried, roundVars, callVars, unlisted>>

ListEnds(failed) ==
  /\ pc = "listing" /\ ends = Unset /\ MayFail(failed) /\ failed # Parts
  /\ ends' = WasListed(hi, failed)
  /\ seen' = seen \cup {inc} /\ unlisted' = unlisted \cup failed
  /\ UNCHANGED <<topicVars, known, pc, tabVars, starts, resume, retried, roundVars, callVars>>

(* readAttempt: nothing read yet, every window at its near edge. *)
BeginAttempt ==
  /\ pc = "listing" /\ starts # Unset /\ ends # Unset
  /\ pc' = "round"
  /\ floor' = [p \in Parts |-> IF p \in Windowed THEN Beginning(p) ELSE 0]
  /\ widen' = Quota /\ round' = 0 /\ scanned' = 0
  /\ rows' = {} /\ completed' = {} /\ far' = Everywhere(NoWindow) /\ held' = {}
  /\ partial' = FALSE
  /\ UNCHANGED <<topicVars, failures, known, tabVars, listVars, callVars, historyVars>>

(* One round: a window of each partition that has something left. *)
StartRound ==
  /\ pc = "round" /\ round < MaxRounds /\ Readable # {}
  /\ LET asked == [p \in Parts |-> IF p \in Readable THEN NextWindow(p) ELSE NoWindow]
     IN windows' = asked
  /\ landed' = {} /\ found' = {}
  /\ pc' = "consume"
  /\ UNCHANGED <<topicVars, failures, known, tabVars, listVars, roundVars, historyVars>>

(* Nothing left, the last round is done, or the budget ended between two. *)
StopRounds ==
  /\ pc = "round"
  /\ \/ (round = MaxRounds \/ Readable = {}) /\ UNCHANGED failures
     \/ round > 0 /\ failures < MaxFailures /\ failures' = failures + 1
  /\ pc' = "answer"
  /\ UNCHANGED <<topicVars, known, tabVars, listVars, roundVars, callVars, historyVars>>
-----------------------------------------------------------------------------
(* consumeWindows. *)

Asked == {p \in Parts : windows[p] # NoWindow}
FreshMetadata == known \in {Unset, inc}

(* A partition finishes its window once a fetch has reached the end of it:  *)
(* what it holds then is read, and nothing of a partition in flight is.     *)
MayLand(p) == p \in Asked \ landed /\ FreshMetadata /\ hi[p] >= windows[p].upper

PartitionLands(p) ==
  /\ pc = "consume" /\ MayLand(p)
  /\ landed' = landed \cup {p}
  /\ found' = found \cup {<<inc, p, o>> : o \in log[p] \cap Within(windows[p])}
  /\ known' = inc
  /\ seen' = seen \cup {inc}
  /\ UNCHANGED <<topicVars, failures, pc, tabVars, listVars, roundVars, windows, unlisted>>

(* Mutant: what earlier rounds read is forgotten. *)
HeldThisRound == (held \ Asked) \cup {r[2] : r \in found}

(* What a round leaves of earlier ones: it decides anew who is complete, and *)
(* forgets nobody whose records were read.                                   *)
Completed == (completed \ Asked) \cup landed
Held == held \cup {r[2] : r \in found}

Scanned == scanned + Cardinality(UNION {{<<p, o>> : o \in Within(windows[p])} : p \in Asked})

(* A call, and a request, takes its locals with it. *)
EndCall == windows' = Everywhere(NoWindow) /\ landed' = {} /\ found' = {}

NoRounds ==
  /\ floor' = Everywhere(0) /\ widen' = 1 /\ round' = 0 /\ scanned' = 0
  /\ rows' = {} /\ completed' = {} /\ far' = Everywhere(NoWindow) /\ held' = {}
  /\ partial' = FALSE

(* The call returns rows: of all windows, of enough of them, or of those the *)
(* budget left time for.                                                     *)
EndRound(cut) ==
  /\ rows' = rows \cup found
  /\ completed' = Completed
  /\ far' = [p \in Parts |-> IF p \in landed THEN windows[p] ELSE far[p]]
  /\ held' = Held
  /\ floor' = [p \in Parts |-> IF p \in Asked THEN FarSide(windows[p]) ELSE floor[p]]
  /\ scanned' = Scanned
  /\ partial' = (partial \/ cut)
  /\ IF cut \/ query.scan \/ Cardinality(rows') >= Limit \/ scanned' >= MaxCandidates
     THEN pc' = "answer" /\ UNCHANGED <<widen, round>>
     ELSE pc' = "round" /\ widen' = 2 * widen /\ round' = round + 1
  /\ EndCall
  /\ UNCHANGED <<topicVars, known, tabVars, listVars, historyVars>>

AllLanded == pc = "consume" /\ landed = Asked /\ EndRound(FALSE) /\ UNCHANGED failures

PageSatisfied ==
  /\ pc = "consume" /\ landed # Asked /\ Cardinality(found) >= Target
  /\ EndRound(FALSE) /\ UNCHANGED failures

(* Time runs out at any moment, and at the latest when nothing more comes. *)
Expire ==
  /\ pc = "consume" /\ landed # Asked
  /\ \/ failures < MaxFailures /\ failures' = failures + 1
     \/ FreshMetadata /\ (\A p \in Parts : ~ MayLand(p)) /\ UNCHANGED failures

BudgetSpent == landed # {} /\ Expire /\ EndRound(TRUE)

(* The page is given up: the tab keeps what it has and may ask again. *)
FailRequest ==
  /\ pc' = "idle"
  /\ NoRounds /\ EndCall
  /\ UNCHANGED <<topicVars, known, tabVars, listVars, historyVars>>

(* The call fails after earlier rounds: their rows are a partial page. *)
KeepEarlierRounds ==
  /\ ~ query.scan /\ completed # {}
  /\ completed' = completed \ Asked
  /\ partial' = TRUE
  /\ pc' = "answer"
  /\ EndCall
  /\ UNCHANGED <<topicVars, known, tabVars, listVars, floor, widen, round, scanned, rows, far,
                 held, historyVars>>

(* No window was finished in time; a scan goes on from where it is. *)
NothingLanded ==
  /\ landed = {} /\ Expire
  /\ \/ KeepEarlierRounds
     \/ /\ query.scan
        /\ pc' = "answer"
        /\ EndCall
        /\ UNCHANGED <<topicVars, known, tabVars, listVars, roundVars, historyVars>>
     \/ ~ query.scan /\ completed = {} /\ FailRequest

(* A broker refuses. *)
FetchFails ==
  /\ pc = "consume" /\ landed # Asked
  /\ failures < MaxFailures /\ failures' = failures + 1
  /\ KeepEarlierRounds \/ ((query.scan \/ completed = {}) /\ FailRequest)

(* Every fetch names a topic that is gone.  Nothing read before: the id is   *)
(* purged and the attempt repeated once, without a cursor.                   *)
TopicIsGone ==
  /\ pc = "consume" /\ landed # Asked /\ ~ FreshMetadata
  /\ UNCHANGED failures
  /\ \/ KeepEarlierRounds
     \/ /\ query.scan \/ completed = {}
        /\ ~ retried
        /\ known' = Unset
        /\ retried' = TRUE /\ resume' = Everywhere(Unset)
        /\ pc' = "listing"
        /\ EndCall
        /\ UNCHANGED <<topicVars, tabVars, starts, ends, roundVars, historyVars>>
     \/ (query.scan \/ completed = {}) /\ retried /\ FailRequest
-----------------------------------------------------------------------------
(* The page and its cursor. *)

Precedes(q, r) == q[2] = r[2] /\ (IF Oldest THEN q[3] < r[3] ELSE q[3] > r[3])

(* A page takes of each partition what comes first; how the partitions are  *)
(* merged is a matter of timestamps, which are arbitrary.                   *)
Pages ==
  IF query.scan \/ Cardinality(rows) <= Limit THEN {rows}
  ELSE {page \in SUBSET rows :
          /\ Cardinality(page) = Limit
          /\ \A r \in page, q \in rows : Precedes(q, r) => q \in page}

OffsetsOf(page, p) == {r[3] : r \in {q \in page : q[2] = p}}

(* Mutant: a window without records does not move the cursor. *)
RowsOnlyFrontier(page, p) ==
  LET taken == OffsetsOf(page, p) IN
  IF taken = {} THEN Beginning(p)
  ELSE IF Oldest THEN Max(taken) + 1 ELSE Min(taken)

(* computeFrontier: behind the last row returned; over a window confirmed   *)
(* to hold no record; else where the request began.                         *)
Frontier(page, p) ==
  LET taken == OffsetsOf(page, p) IN
  IF taken # {} /\ (query.scan => p \in completed)
    THEN IF Oldest THEN Max(taken) + 1 ELSE Min(taken)
  ELSE IF taken = {} /\ far[p] # NoWindow /\ p \notin held
    THEN FarSide(far[p])
  ELSE Beginning(p)

(* Mutants: the last offset does not count, a drained partition is forgotten. *)
NearlyExhausted(p, offset) == IF Oldest THEN offset >= ends[p] - 1 ELSE offset <= starts[p] + 1
Forgotten(p) == Unset

Exhausted(p, offset) == IF Oldest THEN offset >= ends[p] ELSE offset <= starts[p]
PinnedOffset(p) == IF Oldest THEN ends[p] ELSE starts[p]

(* buildPaginationCursor: a partition drained earlier stays in the cursor. *)
NextCursor(page) ==
  [p \in Parts |-> IF p \in Windowed THEN Frontier(page, p)
                   ELSE IF p \in query.scope /\ resume[p] # Unset THEN PinnedOffset(p)
                   ELSE Unset]

(* The tab appends the page, or starts over with it after a cursor reset. *)
AnswerRequest(page) ==
  /\ pc = "answer" /\ page \in Pages
  /\ pc' = "idle"
  /\ cursor' = NextCursor(page)
  /\ more' = \E p \in Windowed : ~ Exhausted(p, Frontier(page, p))
  /\ shown' = IF retried THEN page ELSE shown \cup page
  /\ edge' = [p \in Parts |-> IF p \in query.scope /\ resume[p] = Unset
                              THEN Beginning(p) ELSE edge[p]]
  /\ NoRounds
  /\ UNCHANGED <<topicVars, failures, known, query, listVars, callVars, historyVars>>

Reads ==
  \/ Ask
  \/ \E failed \in SUBSET Parts : ListStarts(failed) \/ ListEnds(failed)
  \/ BeginAttempt \/ StartRound \/ StopRounds
  \/ \E p \in Parts : PartitionLands(p)
  \/ AllLanded \/ PageSatisfied \/ BudgetSpent \/ NothingLanded \/ FetchFails \/ TopicIsGone
  \/ \E page \in SUBSET rows : AnswerRequest(page)

Changes ==
  \/ \E p \in Parts : \/ Produce(p)
                      \/ \E o \in Offsets : Retain(p, o) \/ Compact(p, o)
  \/ Recreate \/ OtherTabRenews

ReaderNext == Reads \/ Changes

ReaderSpec == ReaderInit /\ [][ReaderNext]_readerVars

(* The tab asks for the next page while there is one, brokers answer, and    *)
(* what they do not answer ends with its budget.                             *)
FairReaderSpec == ReaderSpec /\ WF_readerVars(Reads)
-----------------------------------------------------------------------------
Incs == 1..(MaxChanges + 1)
Rows == Incs \X Parts \X Offsets
Marks == [Parts -> Offsets \cup {Unset}]
ReadWindows == [Parts -> [from : Offsets, upper : Offsets]]

(* Type invariant: no offset a request works with leaves the log. *)
ReaderTypeOK ==
  /\ inc \in Incs /\ log \in [Parts -> SUBSET Offsets]
  /\ lo \in [Parts -> Offsets] /\ hi \in [Parts -> Offsets]
  /\ changes \in 0..MaxChanges /\ failures \in 0..MaxFailures
  /\ known \in Incs \cup {Unset}
  /\ query \in Query /\ cursor \in Marks /\ more \in BOOLEAN
  /\ pc \in {"idle", "listing", "round", "consume", "answer"}
  /\ starts \in [Parts -> Offsets] \cup {Unset} /\ ends \in [Parts -> Offsets] \cup {Unset}
  /\ resume \in Marks /\ retried \in BOOLEAN
  /\ floor \in [Parts -> Offsets] /\ widen \in Nat \ {0} /\ round \in 0..MaxRounds
  /\ scanned \in Nat
  /\ rows \subseteq Rows /\ found \subseteq Rows /\ shown \subseteq Rows
  /\ completed \subseteq Parts /\ held \subseteq Parts /\ landed \subseteq Parts
  /\ far \in ReadWindows /\ windows \in ReadWindows
  /\ partial \in BOOLEAN
  /\ edge \in [Parts -> Offsets \cup {Unset}] /\ seen \subseteq Incs /\ unlisted \subseteq Parts

(* What the browse has passed in partition p, from where it began to the     *)
(* cursor.                                                                   *)
Passed(p) ==
  IF edge[p] = Unset \/ cursor[p] = Unset THEN {}
  ELSE IF Oldest THEN edge[p]..(cursor[p] - 1) ELSE cursor[p]..(edge[p] - 1)

Unseen(p) == {o \in log[p] : <<inc, p, o>> \notin shown}

(* The browse has met no other incarnation than the present one. *)
SameTopic == seen \subseteq {inc}

(* The cursor never skips: a record behind it that still exists was given to *)
(* the tab, whatever was trimmed, cut short or compacted (messages.go        *)
(* 1712-1726).  A partition whose end could not be listed is passed by, and  *)
(* it alone; one whose start could not be is not.                            *)
NeverSkips == SameTopic => \A p \in Parts \ unlisted : Passed(p) \cap Unseen(p) = {}

(* "No more" is true: when the last page says so, every record from where    *)
(* the browse began to the end it was listed with was given to the tab, of   *)
(* each partition whose end was always listed.                               *)
ExhaustedMeansAll ==
  ~ more /\ SameTopic =>
    \A p \in query.scope \ unlisted, o \in Offsets :
      o \in Unseen(p) =>
        edge[p] = Unset \/ (IF Oldest THEN o < edge[p] \/ o >= ends[p] ELSE o >= edge[p])

(* Paging ends: ranges without records do not hold the cursor for ever.      *)
PagingEnds == <>[](pc = "idle" /\ ~ more)

(* What messages.go 1659-1663 and kafka.ts 448-451 are for: rows of a topic  *)
(* that was recreated replace those of its former self, and never join them. *)
NoMixedRows == \A q, r \in shown : q[1] = r[1]
=============================================================================

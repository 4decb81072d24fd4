---------------------------- MODULE KafkaClient ----------------------------
(***************************************************************************)
(* A topic tab of the browser: stores/kafka.ts and the message browser     *)
(* that drives it.                                                         *)
(*                                                                         *)
(* The tab shows one list, which a page load replaces, "Load older"        *)
(* extends and a search of the topic fills step by step.  Requests of all  *)
(* three kinds may be under way together.  The reader behind them is       *)
(* KafkaReader; here it answers the window next to the cursor.  Positions  *)
(* stand for the messages of all partitions in one order.                  *)
(***************************************************************************)
EXTENDS Integers, Sequences, FiniteSets, Subsequence

CONSTANTS
  LogEnd,        \* messages in the topic
  Partitions,    \* number of partitions
  Conditions,    \* what can be searched for
  Matches,       \* per condition: the positions that satisfy it
  Seeks,         \* positions a seek may name
  PageSize,      \* messages of a page, and of a step's window
  MaxMatches,    \* MAX_SCAN_MATCHES
  Slots,         \* bound: requests under way at once
  MaxGestures,   \* bound: what the user does
  MaxFaults,     \* bound: requests that fail, topics recreated
  All, None

Positions == 1..LogEnd
Scopes == {All} \cup 0..(Partitions - 1)
Directions == {"newest", "oldest"}
Views == [scope : Scopes, seek : Seeks \cup {None}, direction : Directions,
          search : Conditions \cup {None}]

ASSUME KafkaClientAssumption ==
  /\ LogEnd \in Nat \ {0} /\ Partitions \in Nat \ {0} /\ PageSize \in Nat \ {0}
  /\ Matches \in [Conditions -> SUBSET Positions] /\ Seeks \subseteq Positions
  /\ MaxMatches \in Nat \ {0} /\ MaxGestures \in Nat /\ MaxFaults \in Nat
  /\ IsFiniteSet(Slots) /\ Slots \subseteq Nat
  /\ None \notin Conditions \cup Seeks \cup Slots \cup Nat \cup Views /\ All \notin Nat

VARIABLES
  tab,         \* KafkaTopicTabState
  req,         \* per slot: a request under way
  controller,  \* kafkaScanControllers: the step that owns the tab's scan
  children,    \* the partitions and groups of the topic
  mounted,     \* the topic's view is on screen
  gestures, faults,
  era,         \* history: searches begun
  of           \* history: the view all of the list was read for, or None

clientVars == <<tab, req, controller, children, mounted>>
vars == <<clientVars, gestures, faults, era, of>>

View(t) == [scope |-> t.scope, seek |-> t.seek, direction |-> t.direction, search |-> t.search]

(* defaultTabState. *)
NewTab ==
  [rows |-> <<>>, loading |-> FALSE, older |-> FALSE, error |-> FALSE, more |-> FALSE,
   cursor |-> None, scope |-> All, seek |-> None, direction |-> "newest", filter |-> None,
   search |-> None, scanning |-> FALSE, deep |-> FALSE, canceled |-> FALSE,
   partial |-> FALSE, limit |-> FALSE]

Idle ==
  [kind |-> "idle", view |-> View(NewTab), cursor |-> None, phase |-> "idle", answer |-> None,
   reset |-> FALSE, loop |-> FALSE, mount |-> FALSE, era |-> 0]

Init ==
  /\ tab = NewTab /\ req = [i \in Slots |-> Idle] /\ controller = None
  /\ children = [loading |-> FALSE, known |-> FALSE, error |-> FALSE]
  /\ mounted = FALSE /\ gestures = 0 /\ faults = 0 /\ era = 0 /\ of = None

(* What a handler works on, and what it leaves. *)
State == [tab |-> tab, req |-> req, controller |-> controller, children |-> children,
          era |-> era, of |-> of]
Becomes(s) ==
  /\ tab' = s.tab /\ req' = s.req /\ controller' = s.controller
  /\ children' = s.children /\ era' = s.era /\ of' = s.of

----------------------------------------------------------------------------
(* The reader: the window next to the cursor, in the order of the view. *)

InRange(view, p) ==
  /\ view.scope = All \/ p % Partitions = view.scope
  /\ \/ view.seek = None
     \/ view.direction = "newest" /\ p <= view.seek
     \/ view.direction = "oldest" /\ p >= view.seek

Ahead(q) ==
  {p \in Positions :
     /\ InRange(q.view, p)
     /\ \/ q.cursor = None
        \/ q.view.direction = "newest" /\ p < q.cursor
        \/ q.view.direction = "oldest" /\ p > q.cursor}

InOrder(view, S) ==
  [k \in 1..Cardinality(S) |->
     Nth(S, IF view.direction = "newest" THEN Cardinality(S) + 1 - k ELSE k)]

Start(view) == IF view.direction = "newest" THEN LogEnd + 1 ELSE 0

(* A page is full when the log allows; a step may run out of budget before  *)
(* its window, even before its first message.                               *)
Windows(q) ==
  LET full == IF Cardinality(Ahead(q)) < PageSize THEN Cardinality(Ahead(q)) ELSE PageSize
  IN IF q.kind = "step" THEN 0..full ELSE {full}

Answer(q, n) ==
  LET ahead == InOrder(q.view, Ahead(q))
      window == SubSeq(ahead, 1, n)
      hit(p) == q.view.search = None \/ p \in Matches[q.view.search]
  IN [rows |-> Filtered(window, {k \in 1..n : hit(window[k])}),
      has_older |-> q.view.direction = "newest" /\ n < Len(ahead),
      has_newer |-> q.view.direction = "oldest" /\ n < Len(ahead),
      cursor |-> IF n = Len(ahead) THEN None
                 ELSE IF n > 0 THEN window[n]
                 ELSE IF q.cursor = None THEN Start(q.view) ELSE q.cursor,
      partial |-> n < PageSize /\ n < Len(ahead),
      recreated |-> FALSE]

ReadMore(answer, direction) ==
  IF direction = "oldest" THEN answer.has_newer ELSE answer.has_older

----------------------------------------------------------------------------
(* Sending. *)

FreeSlot(s) == CHOOSE i \in Slots : s.req[i].kind = "idle"
Room == Cardinality({i \in Slots : req[i].kind = "idle"}) >= 2

(* A load of the same partition from the same cursor is under way.         *)
Pending(s, cursor) ==
  {i \in Slots : /\ s.req[i].kind \in {"page", "older"} /\ s.req[i].view.scope = s.tab.scope
                 /\ s.req[i].cursor = cursor}

Request(kind, s, cursor) ==
  [Idle EXCEPT !.kind = kind, !.view = [View(s.tab) EXCEPT !.search = None], !.cursor = cursor,
               !.phase = "sent"]

(* fetchMessages; mount: the view's effect waits for it. *)
StartPage(s, mount) ==
  IF Pending(s, None) # {}
  THEN [s EXCEPT !.req = [i \in Slots |->
          IF i \in Pending(s, None) /\ mount THEN [s.req[i] EXCEPT !.mount = TRUE] ELSE s.req[i]]]
  ELSE [s EXCEPT !.req[FreeSlot(s)] = [Request("page", s, None) EXCEPT !.mount = mount],
                 !.tab = [s.tab EXCEPT !.loading = TRUE, !.error = FALSE]]

(* fetchOlderMessages. *)
StartOlder(s) ==
  IF s.tab.cursor = None \/ s.tab.older \/ Pending(s, s.tab.cursor) # {} THEN s
  ELSE [s EXCEPT !.req[FreeSlot(s)] = Request("older", s, s.tab.cursor),
                 !.tab = [s.tab EXCEPT !.older = TRUE, !.error = FALSE]]

(* Aborting reaches a request only until its headers are here.             *)
AbortScan(s) ==
  IF s.controller # None /\ s.req[s.controller].phase = "sent"
  THEN [s EXCEPT !.req[s.controller].phase = "cut"] ELSE s

(* The list is emptied and what described it forgotten.                    *)
Emptied(t) ==
  [t EXCEPT !.rows = <<>>, !.cursor = None, !.more = FALSE, !.scanning = FALSE,
            !.partial = FALSE, !.limit = FALSE]

(* runScanStep up to its request; loop: Search all waits for it. *)
StartStep(s0, reset, loop) ==
  IF s0.tab.scanning \/ (~reset /\ (~s0.tab.more \/ s0.tab.cursor = None)) THEN s0
  ELSE LET s == AbortScan(s0)
           begun == IF reset THEN s.era + 1 ELSE s.era
           slot == FreeSlot(s)
       IN [s EXCEPT
             !.req[slot] = [Request("step", s, IF reset THEN None ELSE s.tab.cursor) EXCEPT
                              !.view = View(s.tab), !.reset = reset, !.loop = loop, !.era = begun],
             !.controller = slot,
             !.tab = [(IF reset THEN Emptied(s.tab) ELSE s.tab) EXCEPT
                        !.scanning = TRUE, !.error = FALSE],
             !.era = begun,
             !.of = IF reset THEN View(s.tab) ELSE s.of]

StartChildren(s) ==
  IF s.children.loading THEN s
  ELSE [s EXCEPT !.children = [s.children EXCEPT !.loading = TRUE, !.error = FALSE]]

(* searchTopic: while a step runs its own is not started. *)
SearchTopic(s, c) ==
  StartStep([s EXCEPT !.tab = [s.tab EXCEPT !.search = c, !.canceled = FALSE, !.filter = None],
                      !.of = IF s.tab.search = c THEN s.of ELSE None], TRUE, FALSE)

(* refreshMessages. *)
Refreshed(s) ==
  IF s.tab.search # None THEN SearchTopic(s, s.tab.search) ELSE StartPage(s, FALSE)

(* What a change of the anchor ends in. *)
Reanchored(s) ==
  LET e == [s EXCEPT !.tab = Emptied(s.tab), !.of = None]
  IN IF s.tab.search # None THEN SearchTopic(e, s.tab.search) ELSE StartPage(e, FALSE)

SetSeek(s, seek) ==
  LET a == AbortScan(s) IN Reanchored([a EXCEPT !.tab.seek = seek])

SetDirection(s, d) ==
  LET a == AbortScan(s)
  IN IF s.tab.direction = d THEN a ELSE Reanchored([a EXCEPT !.tab.direction = d])

----------------------------------------------------------------------------
(* Gestures: what the message browser and the topic's header offer. *)

Gesture == Room /\ gestures < MaxGestures /\ gestures' = gestures + 1
Keep == UNCHANGED <<mounted, faults>>
Browsing == mounted /\ Gesture /\ Keep
Steady == ~tab.loading /\ ~tab.scanning

(* The view's effect: every time the tab is shown.                         *)
MountEffect(s) ==
  IF s.tab.search # None THEN StartChildren(s) ELSE StartPage(s, TRUE)

Mount ==
  /\ ~mounted /\ Room /\ mounted' = TRUE
  /\ Becomes(MountEffect(State)) /\ UNCHANGED <<gestures, faults>>

Leave ==
  /\ mounted /\ Gesture /\ mounted' = FALSE
  /\ UNCHANGED <<tab, req, controller, children, faults, era, of>>

(* The browser's button, or Retry beside an error. *)
Refresh == Steady \/ tab.error
RefreshMessages == Browsing /\ Refresh /\ Becomes(Refreshed(State))

RefreshAll ==
  /\ Browsing /\ ~children.loading /\ ~tab.scanning
  /\ Becomes(Refreshed(StartChildren(State)))

(* The produce dialog has sent something. *)
Produced == Browsing /\ Becomes(Refreshed(StartChildren(State)))

LoadOlder ==
  /\ Browsing /\ tab.more /\ tab.search = None /\ ~tab.older
  /\ Becomes(StartOlder(State))

SetPartitionFilter(scope) ==
  /\ Browsing /\ scope # tab.scope /\ (scope # All => children.known)
  /\ LET a == AbortScan(State)
         t == [Emptied(tab) EXCEPT !.scope = scope, !.filter = None, !.search = None,
                                   !.deep = FALSE, !.canceled = FALSE]
     IN Becomes(StartPage([a EXCEPT !.tab = t, !.of = None], FALSE))

ApplySeek(seek) == Browsing /\ Steady /\ seek # tab.seek /\ Becomes(SetSeek(State, seek))

ApplyDirection(d) ==
  Browsing /\ Steady /\ d # tab.direction /\ Becomes(SetDirection(State, d))

SetLoadedFilter(c) ==
  /\ Browsing /\ tab.search = None /\ tab.rows # <<>>
  /\ Becomes([State EXCEPT !.tab.filter = c])

ClearLoadedFilter ==
  Browsing /\ tab.filter # None /\ Becomes([State EXCEPT !.tab.filter = None])

(* The search dialog; an anchor turns the walk round and seeks first.      *)
StartSearch(c, anchor) ==
  /\ Browsing /\ ~tab.scanning
  /\ Becomes(SearchTopic(IF anchor = None THEN State
                         ELSE SetSeek(SetDirection(State, "oldest"), anchor), c))

(* A link's jump onto this topic, from whatever tab is shown.              *)
LinkJump(c) ==
  /\ Gesture /\ mounted' = TRUE /\ UNCHANGED faults
  /\ LET s == SearchTopic(State, c) IN Becomes(IF mounted THEN s ELSE MountEffect(s))

Offered == mounted /\ tab.more /\ tab.search # None /\ ~tab.deep /\ ~tab.limit /\ ~tab.scanning

ScanMore == Browsing /\ Offered /\ Becomes(StartStep(State, FALSE, FALSE))

EndLoop(s) == [s EXCEPT !.tab.deep = FALSE]

(* The head of the loop; a step that cannot start leaves the cursor as it  *)
(* was, which ends it too.                                                 *)
LoopHead(s) ==
  IF \/ s.tab.canceled \/ ~s.tab.more \/ s.tab.cursor = None \/ s.tab.error \/ s.tab.limit
     \/ s.tab.scanning
  THEN EndLoop(s) ELSE StartStep(s, FALSE, TRUE)

ScanAll ==
  /\ Browsing /\ Offered
  /\ Becomes(LoopHead([State EXCEPT !.tab.deep = TRUE, !.tab.canceled = FALSE]))

CancelScan(s) == [AbortScan(s) EXCEPT !.tab.scanning = FALSE]
CancelScanAll(s) == [CancelScan(s) EXCEPT !.tab.canceled = TRUE]

Cancel ==
  /\ mounted /\ tab.search # None /\ (tab.scanning \/ tab.deep)
  /\ Room /\ gestures < MaxGestures /\ gestures' = gestures + 1
  /\ Becomes(IF tab.deep THEN CancelScanAll(State) ELSE CancelScan(State)) /\ Keep

ClearSearch ==
  /\ Browsing /\ tab.search # None /\ ~tab.scanning /\ ~tab.deep
  /\ LET a == AbortScan(State)
         t == [Emptied(tab) EXCEPT !.search = None, !.canceled = FALSE, !.deep = FALSE]
     IN Becomes(StartPage([a EXCEPT !.tab = t, !.of = None], FALSE))

----------------------------------------------------------------------------
(* Answers. *)

Untimed == UNCHANGED <<mounted, gestures>>

(* The headers are here; an abort comes too late from now on.              *)
Respond(i) ==
  /\ req[i].phase = "sent"
  /\ \E n \in Windows(req[i]) :
       req' = [req EXCEPT ![i] = [@ EXCEPT !.phase = "body", !.answer = Answer(req[i], n)]]
  /\ UNCHANGED <<tab, controller, children, faults, era, of>> /\ Untimed

(* The topic was deleted and created again: an older page comes from the   *)
(* new one's newest end.                                                   *)
RespondRecreated(i) ==
  /\ req[i].phase = "sent" /\ req[i].kind = "older" /\ faults < MaxFaults
  /\ faults' = faults + 1
  /\ LET first == [req[i] EXCEPT !.cursor = None]
     IN \E n \in Windows(first) :
          req' = [req EXCEPT ![i] = [@ EXCEPT !.phase = "body",
                    !.answer = [Answer(first, n) EXCEPT !.recreated = TRUE]]]
  /\ UNCHANGED <<tab, controller, children, era, of>> /\ Untimed

Freed(s, i) == [s EXCEPT !.req[i] = Idle]

Shown(t) == {t.rows[k].pos : k \in 1..Len(t.rows)}

(* The rows of an answer that are not in the list yet, tagged by search.   *)
Fresh(base, answer, by) ==
  LET listed == {base[k].pos : k \in 1..Len(base)}
      news == Filtered(answer.rows, {k \in 1..Len(answer.rows) : answer.rows[k] \notin listed})
  IN [k \in 1..Len(news) |-> [pos |-> news[k], by |-> by]]

ReadFor(view, s) == IF s.of = view THEN view ELSE None

(* A page replaces the list; the mount's effect goes on to the children.   *)
PageLands(s, i) ==
  LET q == s.req[i]
      done == [Freed(s, i) EXCEPT
                 !.tab = [s.tab EXCEPT !.rows = Fresh(<<>>, q.answer, 0),
                            !.more = ReadMore(q.answer, q.view.direction),
                            !.cursor = q.answer.cursor, !.loading = FALSE],
                 !.of = q.view]
  IN IF q.mount THEN StartChildren(done) ELSE done

(* An older page is appended, or replaces a list of a topic that is gone.  *)
OlderLands(s, i) ==
  LET q == s.req[i]
      base == IF q.answer.recreated THEN <<>> ELSE s.tab.rows
  IN [Freed(s, i) EXCEPT
        !.tab = [s.tab EXCEPT !.rows = base \o Fresh(base, q.answer, 0),
                   !.more = ReadMore(q.answer, q.view.direction),
                   !.cursor = q.answer.cursor, !.older = FALSE],
        !.of = IF q.answer.recreated THEN q.view ELSE ReadFor(q.view, s)]

AnyStep(s, i) == TRUE
IsCurrentStep(s, i) == s.controller = i

KeepController(s, i) == Freed(s, i)
Finally(s, i) == [Freed(s, i) EXCEPT !.controller = IF s.controller = i THEN None ELSE s.controller]

(* The cap stopped the search, not the end of the log.                     *)
LimitWhenMore(merged, more) == Len(merged) >= MaxMatches /\ more
LimitReached(merged, more) ==
  Len(merged) >= MaxMatches /\ (Len(merged) > MaxMatches \/ more)

StepLands(s, i) ==
  LET q == s.req[i]
      base == IF q.reset THEN <<>> ELSE s.tab.rows
      merged == base \o Fresh(base, q.answer, q.era)
      more == ReadMore(q.answer, q.view.direction)
  IN IF ~IsCurrentStep(s, i) THEN Finally(s, i)
     ELSE [Finally(s, i) EXCEPT
             !.tab = [s.tab EXCEPT
                        !.rows = SubSeq(merged, 1, IF Len(merged) > MaxMatches THEN MaxMatches
                                                   ELSE Len(merged)),
                        !.partial = q.answer.partial, !.limit = LimitReached(merged, more),
                        !.more = more, !.cursor = q.answer.cursor, !.scanning = FALSE],
             !.of = IF q.reset THEN q.view ELSE ReadFor(q.view, s)]

StepFails(s, i, aborted) ==
  IF ~IsCurrentStep(s, i) THEN Finally(s, i)
  ELSE [Finally(s, i) EXCEPT !.tab = [s.tab EXCEPT !.scanning = FALSE,
                                        !.error = IF aborted THEN s.tab.error ELSE TRUE]]

AlwaysMoved(s, before) == TRUE
Moved(s, before) == s.tab.cursor # before

(* Search all resumes when its step is over, whatever became of the step.  *)
LoopResumes(s, q) ==
  IF ~q.loop THEN s
  ELSE IF s.tab.canceled \/ s.tab.error \/ ~Moved(s, q.cursor) THEN EndLoop(s)
  ELSE LoopHead(s)

Land(i) ==
  /\ req[i].phase = "body"
  /\ Becomes(CASE req[i].kind = "page"  -> PageLands(State, i)
               [] req[i].kind = "older" -> OlderLands(State, i)
               [] req[i].kind = "step"  -> LoopResumes(StepLands(State, i), req[i]))
  /\ UNCHANGED faults /\ Untimed

AbortLands(i) ==
  /\ req[i].phase = "cut"
  /\ Becomes(LoopResumes(StepFails(State, i, TRUE), req[i]))
  /\ UNCHANGED faults /\ Untimed

(* The network, the server or the request's deadline. *)
Fails(i) ==
  /\ req[i].phase \in {"sent", "body"} /\ faults < MaxFaults /\ faults' = faults + 1
  /\ LET q == req[i]
         failed == [Freed(State, i) EXCEPT !.tab = [tab EXCEPT !.error = TRUE,
                      !.loading = IF q.kind = "page" THEN FALSE ELSE tab.loading,
                      !.older = IF q.kind = "older" THEN FALSE ELSE tab.older]]
     IN Becomes(IF q.kind = "step" THEN LoopResumes(StepFails(State, i, FALSE), q)
                ELSE IF q.mount THEN StartChildren(failed) ELSE failed)
  /\ Untimed

ChildrenLand ==
  /\ children.loading
  /\ \/ children' = [children EXCEPT !.loading = FALSE, !.known = TRUE] /\ UNCHANGED faults
     \/ /\ faults < MaxFaults /\ faults' = faults + 1
        /\ children' = [children EXCEPT !.loading = FALSE, !.error = TRUE]
  /\ UNCHANGED <<tab, req, controller, era, of>> /\ Untimed

RetryChildren ==
  Browsing /\ children.error /\ Becomes(StartChildren(State))

Next ==
  \/ Mount \/ Leave \/ RefreshMessages \/ RefreshAll \/ Produced \/ LoadOlder
  \/ \E p \in Scopes : SetPartitionFilter(p)
  \/ \E k \in Seeks \cup {None} : ApplySeek(k)
  \/ \E d \in Directions : ApplyDirection(d)
  \/ \E c \in Conditions : SetLoadedFilter(c) \/ LinkJump(c)
  \/ \E c \in Conditions, k \in Seeks \cup {None} : StartSearch(c, k)
  \/ ClearLoadedFilter \/ ScanMore \/ ScanAll \/ Cancel \/ ClearSearch \/ RetryChildren
  \/ \E i \in Slots : Respond(i) \/ RespondRecreated(i) \/ Land(i) \/ AbortLands(i) \/ Fails(i)
  \/ ChildrenLand

Spec == Init /\ [][Next]_vars

(* Requests are answered, or their deadline passes; handlers run.          *)
Fairness ==
  /\ \A i \in Slots : WF_vars(Respond(i) \/ Land(i) \/ AbortLands(i))
  /\ WF_vars(ChildrenLand)
FairSpec == Spec /\ Fairness

----------------------------------------------------------------------------
(* Every variable has its type; the controller registered for the tab is   *)
(* that of a step still under way, and a spinning scan has one.            *)
TypeOK ==
  /\ View(tab) \in Views /\ tab.filter \in Conditions \cup {None}
  /\ \A k \in 1..Len(tab.rows) : tab.rows[k] \in [pos : Positions, by : Nat]
  /\ tab.cursor \in Nat \cup {None}
  /\ {tab.loading, tab.older, tab.error, tab.more, tab.scanning, tab.deep, tab.canceled,
      tab.partial, tab.limit, mounted} \subseteq BOOLEAN
  /\ children \in [loading : BOOLEAN, known : BOOLEAN, error : BOOLEAN]
  /\ \A i \in Slots :
       /\ req[i].kind \in {"idle", "page", "older", "step"} /\ req[i].view \in Views
       /\ req[i].phase \in {"idle", "sent", "body", "cut"} /\ req[i].cursor \in Nat \cup {None}
  /\ controller # None => req[controller].kind = "step"
  /\ tab.scanning => controller # None
  /\ gestures \in 0..MaxGestures /\ faults \in 0..MaxFaults /\ of \in Views \cup {None}

(* Once a newer search has begun, no row of an earlier one is in the list: *)
(* a superseded step appends nothing, whenever its answer arrives.         *)
OldSearchLeavesNoRows == \A k \in 1..Len(tab.rows) : tab.rows[k].by \in {0, era}

(* The file of matches says it is complete (the browser's scanComplete)    *)
(* only if it holds every match of the range searched; unless rows of      *)
(* another view got into the list.                                         *)
ScanComplete ==
  ~tab.scanning /\ ~tab.deep /\ ~tab.canceled /\ ~tab.limit /\ ~tab.partial /\ ~tab.more
ExportIsHonest ==
  tab.search # None /\ tab.rows # <<>> /\ ScanComplete /\ of = View(tab) =>
    Shown(tab) = {p \in Matches[tab.search] : InRange(View(tab), p)}

(* Whatever is spinning stops: Search all, which has no limit of steps,    *)
(* ends even when the reader makes no progress.                            *)
Busy == tab.deep \/ tab.scanning \/ tab.loading \/ tab.older \/ children.loading
SpinnersStop == Busy ~> ~Busy

(* kafka.ts: a search and a plain page load never contend for the list.    *)
SearchKeepsItsMatches ==
  tab.search # None => \A k \in 1..Len(tab.rows) : tab.rows[k].by # 0
=============================================================================

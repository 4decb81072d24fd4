------------------------------ MODULE SqlConsole ------------------------------
(***************************************************************************)
(* The SQL console of the browser: stores/sqlConsole.ts, the component     *)
(* around it, and the requests it has under way.                           *)
(*                                                                         *)
(* A run is an execute, execute-multi, explain or analyze request.  A text *)
(* stands for the statements the editor makes of it.  The server's session *)
(* of a tab takes requests in turn (ConsoleSession); here it is the state  *)
(* of its transaction and the requests that wait for it.                   *)
(***************************************************************************)
EXTENDS Integers, Sequences, FiniteSets, Subsequence

CONSTANTS
  Tabs,          \* console tabs of one connection
  Texts,         \* what the editor may hold
  Empty,         \* an editor with nothing in it
  Ending,        \* COMMIT or ROLLBACK
  Foreign,       \* what another console of the connection runs
  TxStates,      \* what the server may say of a transaction, "idle" among them
  Attempts,      \* HISTORY_SETTLE_ATTEMPTS
  MaxRuns,       \* bound: runs
  MaxReads,      \* bound: transaction reads
  MaxLists,      \* bound: history reads
  MaxFaults,     \* bound: requests lost, sessions expired, page reloads, foreign runs
  MaxGestures,   \* bound: what the user does
  Kinds,         \* the kinds of run the instance has
  None

InSession == {"execute", "batch"}
Runs == 1..MaxRuns
Reads == 1..MaxReads
Lists == 1..MaxLists
Commands == Texts \cup {Ending, Foreign}

ASSUME ConsoleAssumption ==
  /\ "idle" \in TxStates /\ TxStates \subseteq {"idle", "open", "failed", "lost", "expired"}
  /\ Kinds \subseteq {"execute", "batch", "explain", "analyze"} /\ Empty \in Texts
  /\ Ending \notin Texts \cup {Foreign} /\ Foreign \notin Texts
  /\ Attempts \in Nat \ {0} /\ MaxRuns \in Nat /\ MaxReads \in Nat
  /\ MaxLists \in Nat /\ MaxFaults \in Nat /\ MaxGestures \in Nat
  /\ None \notin Runs /\ None \notin Commands /\ None \notin TxStates /\ None \notin Tabs

VARIABLES
  tab,          \* SqlTabState, per tab
  controller,   \* sqlRunControllers: the run that owns a tab, or None
  starts,       \* sqlRunStarts
  typing,       \* the timer that fetches an open panel's history is set
  run,          \* per run: its tab, kind and command; its phase in the browser
  cut,          \* runs whose response will not arrive: aborted before it did
  known,        \* per run: the history it knew when it was canceled
  tries,        \* per run: history reads of its settling
  read,         \* transaction reads: tab, starts when sent, phase, answer
  list,         \* history reads: tab, search, for whom, phase, answer
  session,      \* the server's state of a tab's transaction
  queue,        \* requests that wait for a session, the first has its turn
  log,          \* the connection's history, oldest first
  faults, gestures,
  stopped,      \* history: runs the user stopped
  missed,       \* history: tabs no report has told how the session changed
  crossed       \* history: tabs whose session was ended with a request under way

clientVars == <<tab, controller, starts, typing, run, cut, known, tries, read, list>>
serverVars == <<session, queue, log>>
ghosts == <<stopped, missed, crossed>>
vars == <<clientVars, serverVars, faults, gestures, ghosts>>

(* defaultTabState. *)
NewTab(text) ==
  [running |-> FALSE, failed |-> FALSE, shown |-> None, tx |-> "idle",
   open |-> FALSE, search |-> None, history |-> <<>>, loading |-> FALSE, refused |-> FALSE,
   cursor |-> -1, editor |-> text, draft |-> text]

NoRun == [tab |-> None, kind |-> None, command |-> None, phase |-> "new", answer |-> None]
NoRead == [tab |-> None, starts |-> 0, phase |-> "new", tx |-> None]
NoList == [tab |-> None, search |-> None, for |-> None, walk |-> None, phase |-> "new", answer |-> <<>>]

(* What the connection's history holds from before. *)
Earlier == [i \in 1..2 |-> [id |-> MaxRuns + MaxFaults + i, run |-> None, command |-> Foreign]]

(* A console that mounts, with the draft the workspace kept. *)
Init ==
  /\ \E text \in Texts : tab = [t \in Tabs |-> NewTab(text)]
  /\ controller = [t \in Tabs |-> None] /\ starts = [t \in Tabs |-> 0]
  /\ typing = {}
  /\ run = [r \in Runs |-> NoRun] /\ cut = {}
  /\ known = [r \in Runs |-> {}] /\ tries = [r \in Runs |-> 0]
  /\ read = [i \in Reads |-> NoRead] /\ list = [i \in Lists |-> NoList]
  /\ session = [t \in Tabs |-> "idle"] /\ queue = [t \in Tabs |-> <<>>]
  /\ log \in {<<>>, Earlier}
  /\ faults = 0 /\ gestures = 0 /\ stopped = {} /\ missed = {} /\ crossed = {}

Gesture == gestures < MaxGestures /\ gestures' = gestures + 1
Fault == faults < MaxFaults /\ faults' = faults + 1
-----------------------------------------------------------------------------
(* Requests: each is sent with the lowest number that is free. *)

Unused(f) == {i \in DOMAIN f : f[i].phase = "new" /\ \A j \in 1..(i - 1) : f[j].phase # "new"}

Request(kind, id) == [kind |-> kind, id |-> id]
Without(s, withdrawn) == Filtered(s, {n \in DOMAIN s : s[n] \notin withdrawn})

(* refreshTransaction, as far as it goes before the answer. *)
Reading(i, t) == [NoRead EXCEPT !.tab = t, !.starts = starts[t], !.phase = "sent"]

(* fetchHistory, likewise, for a run that settles, for a walk, or for nobody. *)
Listing(t, for, walk) ==
  [NoList EXCEPT !.tab = t, !.search = tab[t].search, !.for = for, !.walk = walk, !.phase = "sent"]
Loading(t) == [tab EXCEPT ![t].loading = TRUE]

UnderWay(t) == {i \in Reads : read[i].tab = t /\ read[i].phase \in {"sent", "answered"}}

Live(t) == {r \in Runs : run[r].tab = t /\ run[r].phase = "sent"}
-----------------------------------------------------------------------------
(* Running. *)

(* An abort ends a request unless its response had arrived. *)
Abort(r) ==
  cut' \in {cut \cup {r}} \cup (IF run[r].answer # None THEN {cut} ELSE {})

AbortOwner(t) == IF controller[t] \in Live(t) THEN Abort(controller[t]) ELSE UNCHANGED cut

StartRun(t, kind, command) ==
  \E r \in Unused(run) :
    /\ run' = [run EXCEPT ![r] = [NoRun EXCEPT !.tab = t, !.kind = kind, !.command = command,
                                              !.phase = "sent"]]
    /\ AbortOwner(t)
    /\ controller' = [controller EXCEPT ![t] = r]
    /\ starts' = [starts EXCEPT ![t] = @ + 1]
    /\ tab' = [tab EXCEPT ![t].running = TRUE, ![t].failed = FALSE, ![t].shown = None]
    /\ queue' = IF kind \in InSession THEN [queue EXCEPT ![t] = Append(@, Request("run", r))] ELSE queue
    /\ missed' = IF kind \notin InSession /\ (UnderWay(t) # {} \/ controller[t] \in Live(t))
                 THEN missed \cup {t} ELSE missed
    /\ UNCHANGED <<typing, known, tries, read, list, session, log, faults, stopped, crossed>>

RunText(t, kind) ==
  /\ tab[t].editor # Empty
  /\ StartRun(t, kind, tab[t].editor)

(* Commit and Rollback of the transaction bar. *)
EndTransaction(t) ==
  /\ tab[t].tx \in {"open", "failed"} /\ ~ tab[t].running
  /\ StartRun(t, "execute", Ending)

(* cancelRun *)
Stop(t) ==
  /\ tab[t].running
  /\ AbortOwner(t)
  /\ tab' = [tab EXCEPT ![t].running = FALSE]
  /\ stopped' = stopped \cup {controller[t]}
  /\ UNCHANGED <<controller, starts, typing, run, known, tries, read, list, serverVars, faults,
                 missed, crossed>>

(* Mutant: whoever answers owns the tab. *)
AnyRun(r) == TRUE

IsCurrentRun(r) == controller[run[r].tab] = r

Finished(r) == [run EXCEPT ![r].phase = "done"]

Released(r) == [controller EXCEPT ![run[r].tab] = IF @ = r THEN None ELSE @]

Show(r, failed, canceled) ==
  [tab EXCEPT ![run[r].tab].running = FALSE, ![run[r].tab].failed = failed,
              ![run[r].tab].shown = [run |-> r, canceled |-> canceled]]

(* A run that another one replaced ends without a trace. *)
Overtaken(r) ==
  /\ run[r].phase = "sent" /\ ~ IsCurrentRun(r)
  /\ run[r].answer # None \/ r \in cut
  /\ run' = Finished(r)
  /\ UNCHANGED <<tab, controller, starts, typing, cut, known, tries, read, list, serverVars, faults, ghosts>>

Owns(r, kinds) == run[r].phase = "sent" /\ IsCurrentRun(r) /\ run[r].kind \in kinds

(* The response of runStatements: results, or an error that may carry the     *)
(* transaction; an open panel is refreshed.                                   *)
Answered(r) ==
  /\ Owns(r, InSession) /\ run[r].answer # None /\ r \notin cut
  /\ LET t == run[r].tab
         a == run[r].answer
     IN /\ tab' = [Show(r, a.failed, FALSE) EXCEPT ![t].tx = a.tx]
        /\ missed' = missed \ {t}
        /\ IF ~ a.failed /\ tab[t].open
           THEN run' = [run EXCEPT ![r].phase = "listing"] /\ UNCHANGED controller
           ELSE run' = Finished(r) /\ controller' = Released(r)
  /\ UNCHANGED <<starts, typing, cut, known, tries, read, list, serverVars, faults, stopped, crossed>>

(* The network lost the request or its response: an error without a state. *)
RunLost(r) ==
  /\ Owns(r, InSession) /\ r \notin cut
  /\ Fault
  /\ tab' = Show(r, TRUE, FALSE) /\ missed' = missed \cup {run[r].tab}
  /\ run' = Finished(r) /\ controller' = Released(r)
  /\ UNCHANGED <<starts, typing, cut, known, tries, read, list, serverVars, stopped, crossed>>

(* The catch handler of an aborted request: one canceled result, the          *)
(* transaction is asked for, and an open panel waits for the run to show.     *)
Aborted(r) ==
  /\ Owns(r, InSession) /\ r \in cut
  /\ LET t == run[r].tab IN
     /\ tab' = Show(r, FALSE, TRUE)
     /\ known' = [known EXCEPT ![r] = {e.id : e \in {tab[t].history[i] : i \in DOMAIN tab[t].history}}]
     /\ \E i \in Unused(read) : read' = [read EXCEPT ![i] = Reading(i, t)]
                                 /\ queue' = [queue EXCEPT ![t] = Append(@, Request("state", i))]
     /\ IF tab[t].open
        THEN run' = [run EXCEPT ![r].phase = "settling"] /\ UNCHANGED controller
        ELSE run' = Finished(r) /\ controller' = Released(r)
  /\ UNCHANGED <<starts, typing, cut, tries, list, session, log, faults, ghosts>>

(* How an explain or analyze ends: a plan or a failure, a cancel, no response. *)
PlanEnds(r, kind) ==
  /\ Owns(r, {kind})
  /\ \/ r \notin cut /\ run[r].answer # None /\ tab' = Show(r, run[r].answer.failed, FALSE) /\ UNCHANGED faults
     \/ r \in cut /\ tab' = Show(r, FALSE, TRUE) /\ UNCHANGED faults
     \/ r \notin cut /\ Fault /\ tab' = Show(r, TRUE, FALSE)
  /\ run' = Finished(r) /\ controller' = Released(r)
  /\ UNCHANGED <<starts, typing, cut, known, tries, read, list, serverVars, ghosts>>

Explained(r) == PlanEnds(r, "explain")
Analyzed(r) == PlanEnds(r, "analyze")
-----------------------------------------------------------------------------
(* The transaction bar. *)

(* The mount of the console, and the window coming back while it is open. *)
RefreshTransaction(t) ==
  \E i \in Unused(read) :
    /\ read' = [read EXCEPT ![i] = Reading(i, t)]
    /\ queue' = [queue EXCEPT ![t] = Append(@, Request("state", i))]
    /\ UNCHANGED <<tab, controller, starts, typing, run, cut, known, tries, list, session, log, faults,
                   ghosts>>

(* Mutant: the answer is taken whatever began in the meantime. *)
AnyAnswer(i) == TRUE

StillAsked(i) == read[i].starts = starts[read[i].tab]

TransactionRead(i) ==
  /\ read[i].phase = "answered"
  /\ IF StillAsked(i)
     THEN /\ tab' = [tab EXCEPT ![read[i].tab].tx = read[i].tx]
          /\ missed' = missed \ {read[i].tab}
     ELSE UNCHANGED <<tab, missed>>
  /\ read' = [read EXCEPT ![i] = [NoRead EXCEPT !.phase = "done"]]
  /\ UNCHANGED <<controller, starts, typing, run, cut, known, tries, list, serverVars, faults, stopped,
                 crossed>>

ReadLost(i) ==
  /\ read[i].phase \in {"sent", "answered"}
  /\ Fault
  /\ missed' = missed \cup {read[i].tab}
  /\ read' = [read EXCEPT ![i] = [NoRead EXCEPT !.phase = "done"]]
  /\ queue' = [queue EXCEPT ![read[i].tab] = Without(@, {Request("state", i)})]
  /\ UNCHANGED <<tab, controller, starts, typing, run, cut, known, tries, list, session, log, stopped,
                 crossed>>

(* endSession: the notice is dismissed. *)
Dismiss(t) ==
  /\ tab[t].tx \in {"lost", "expired"}
  /\ tab' = [tab EXCEPT ![t].tx = "idle"]
  /\ \/ queue' = [queue EXCEPT ![t] = Append(@, Request("end", 0))] /\ UNCHANGED <<faults, missed>>
     \/ Fault /\ missed' = missed \cup {t} /\ UNCHANGED queue
  /\ crossed' = IF UnderWay(t) \cup Live(t) # {} THEN crossed \cup {t} ELSE crossed
  /\ UNCHANGED <<controller, starts, typing, run, cut, known, tries, read, list, session, log, stopped>>
-----------------------------------------------------------------------------
(* History. *)

Matching(search) == SelectSeq(log, LAMBDA e : search = None \/ e.command = search)
NewestFirst(s) == [i \in 1..Len(s) |-> s[Len(s) + 1 - i]]
Ids(t) == {tab[t].history[i] : i \in DOMAIN tab[t].history}

TogglePanel(t) ==
  /\ tab' = [tab EXCEPT ![t].open = ~ @]
  /\ typing' = IF tab[t].open THEN typing \ {t} ELSE typing \cup {t}
  /\ UNCHANGED <<controller, starts, run, cut, known, tries, read, list, serverVars, faults, stopped,
                 missed, crossed>>

SetHistorySearch(t, search) ==
  /\ tab[t].open /\ search # tab[t].search
  /\ tab' = [tab EXCEPT ![t].search = search]
  /\ typing' = typing \cup {t}
  /\ UNCHANGED <<controller, starts, run, cut, known, tries, read, list, serverVars, faults, stopped,
                 missed, crossed>>

FetchHistory(t, for, walk) ==
  \E i \in Unused(list) : list' = [list EXCEPT ![i] = Listing(t, for, walk)] /\ tab' = Loading(t)

(* The timer of the open panel. *)
PanelFetches(t) ==
  /\ t \in typing
  /\ FetchHistory(t, None, None)
  /\ typing' = typing \ {t}
  /\ UNCHANGED <<controller, starts, run, cut, known, tries, read, serverVars, faults, ghosts>>

(* A run that answered refreshes an open panel; one that was canceled does so *)
(* again and again until it shows.                                            *)
RunFetches(r) ==
  /\ run[r].phase \in {"listing", "settling"}
  /\ \A i \in Lists : ~ (list[i].for = r /\ list[i].phase \in {"sent", "answered"})
  /\ FetchHistory(run[r].tab, r, None)
  /\ tries' = [tries EXCEPT ![r] = @ + 1]
  /\ UNCHANGED <<controller, starts, typing, run, cut, known, read, serverVars, faults, ghosts>>

RunLanded(r, history) ==
  \E e \in {history[i] : i \in DOMAIN history} : e.id \notin known[r] /\ e.command = run[r].command

DraftToKeep(b) == IF b.cursor = -1 THEN b.editor ELSE b.draft

Cursor(b, direction) ==
  IF direction = "next" THEN b.cursor - 1
  ELSE IF b.cursor + 1 < Len(b.history) THEN b.cursor + 1 ELSE Len(b.history) - 1

(* navigateHistory once it has a list: what a step makes of the store. *)
Walked(b, direction) ==
  LET c == Cursor(b, direction) IN
  IF b.history = <<>> \/ direction = None THEN b
  ELSE IF c < 0 THEN [b EXCEPT !.cursor = -1, !.editor = b.draft]
  ELSE [b EXCEPT !.cursor = c, !.draft = DraftToKeep(b),
                 !.editor = IF c < Len(b.history) THEN b.history[c + 1].command ELSE @]

(* The editor on screen takes a text over that it does not hold, and its       *)
(* onChange reports that as typed (setEditorValue): the step is forgotten.     *)
Synced(b, before) ==
  IF b.editor = before.editor THEN b ELSE [b EXCEPT !.cursor = -1, !.draft = b.editor]

(* The await of a run that had its list: enough, or once more. *)
ListSettles(i, history) ==
  LET r == list[i].for IN
  IF r \in Runs /\ (run[r].phase = "listing" \/ RunLanded(r, history) \/ tries[r] = Attempts)
  THEN run' = Finished(r) /\ controller' = Released(r)
  ELSE UNCHANGED <<run, controller>>

ListServed(i) ==
  /\ list[i].phase = "sent"
  /\ list' = [list EXCEPT ![i].phase = "answered", ![i].answer = NewestFirst(Matching(list[i].search))]
  /\ UNCHANGED <<tab, controller, starts, typing, run, cut, known, tries, read, serverVars, faults, ghosts>>

(* A walk that waited for the list goes on; its tab may have left the screen.  *)
WalkGoesOn(t, b, direction) ==
  \E after \in {Walked(b, direction), Synced(Walked(b, direction), b)} : tab' = [tab EXCEPT ![t] = after]

ListArrives(i) ==
  /\ LET t == list[i].tab
     IN \/ /\ list[i].phase = "answered"
           /\ WalkGoesOn(t, [tab[t] EXCEPT !.history = list[i].answer, !.loading = FALSE, !.refused = FALSE],
                         list[i].walk)
           /\ ListSettles(i, list[i].answer) /\ UNCHANGED faults
        \/ /\ list[i].phase \in {"sent", "answered"} /\ Fault
           /\ WalkGoesOn(t, [tab[t] EXCEPT !.loading = FALSE, !.refused = TRUE], list[i].walk)
           /\ ListSettles(i, tab[t].history)
  /\ list' = [list EXCEPT ![i] = [NoList EXCEPT !.phase = "done"]]
  /\ UNCHANGED <<starts, typing, cut, known, tries, read, serverVars, stopped, missed, crossed>>

ClearHistory(t) ==
  /\ tab[t].open
  /\ log' = <<>>
  /\ tab' = [tab EXCEPT ![t].history = <<>>, ![t].cursor = -1]
  /\ UNCHANGED <<controller, starts, typing, run, cut, known, tries, read, list, session, queue, faults,
                 ghosts>>
-----------------------------------------------------------------------------
(* The editor. *)

SetEditor(t, text) ==
  /\ text # tab[t].editor
  /\ tab' = [tab EXCEPT ![t].editor = text, ![t].cursor = -1, ![t].draft = text]
  /\ UNCHANGED <<controller, starts, typing, run, cut, known, tries, read, list, serverVars, faults,
                 ghosts>>

(* A click on an entry of the panel; a double click also runs it. *)
ApplyHistory(t, i) ==
  /\ tab[t].open /\ i \in DOMAIN tab[t].history
  /\ SetEditor(t, tab[t].history[i].command)

(* A step, or the fetch of the list it needs. *)
Navigate(t, direction) ==
  /\ \/ /\ tab[t].history # <<>>
        /\ tab' = [tab EXCEPT ![t] = Synced(Walked(@, direction), @)]
        /\ UNCHANGED list
     \/ tab[t].history = <<>> /\ FetchHistory(t, None, direction)
  /\ UNCHANGED <<controller, starts, typing, run, cut, known, tries, read, serverVars, faults, stopped,
                 missed, crossed>>
-----------------------------------------------------------------------------
(* The server. *)

Record(r, command) ==
  IF command = None THEN log
  ELSE Append(log, [id |-> IF r = None THEN MaxRuns + faults' ELSE r, run |-> r, command |-> command])

(* A run has its turn.  A canceled one may end before it did anything. *)
Serve(t, tx) ==
  /\ queue[t] # <<>> /\ Head(queue[t]).kind = "run" /\ session[t] # "expired" /\ tx # "expired"
  /\ LET r == Head(queue[t]).id IN
     /\ run' = [run EXCEPT ![r].answer = [failed |-> FALSE, tx |-> tx]]
     /\ \/ session' = [session EXCEPT ![t] = tx] /\ log' = Record(r, run[r].command)
        \/ r \in cut /\ tx = session[t] /\ UNCHANGED <<session, log>>
  /\ queue' = [queue EXCEPT ![t] = Tail(@)]
  /\ UNCHANGED <<tab, controller, starts, typing, cut, known, tries, read, list, faults, ghosts>>

(* A run that is refused says how the transaction stands: expired only once. *)
Refuse(t, tx) ==
  /\ queue[t] # <<>> /\ Head(queue[t]).kind = "run" /\ (tx = "expired" <=> session[t] = "expired")
  /\ LET r == Head(queue[t]).id IN
     /\ run' = [run EXCEPT ![r].answer = [failed |-> TRUE, tx |-> tx]]
     /\ log' = IF run[r].kind = "batch" THEN log ELSE Record(r, run[r].command)
  /\ session' = [session EXCEPT ![t] = IF tx = "expired" THEN "idle" ELSE tx]
  /\ queue' = [queue EXCEPT ![t] = Tail(@)]
  /\ UNCHANGED <<tab, controller, starts, typing, cut, known, tries, read, list, faults, ghosts>>

(* Explain and analyze run outside the session. *)
ServePlan(r, failed) ==
  /\ run[r].phase = "sent" /\ run[r].kind \notin InSession /\ run[r].answer = None
  /\ run' = [run EXCEPT ![r].answer = [failed |-> failed, tx |-> None]]
  /\ UNCHANGED <<tab, controller, starts, typing, cut, known, tries, read, list, serverVars, faults,
                 ghosts>>

ServeState(t) ==
  /\ queue[t] # <<>> /\ Head(queue[t]).kind = "state"
  /\ LET i == Head(queue[t]).id IN read' = [read EXCEPT ![i].phase = "answered", ![i].tx = session[t]]
  /\ queue' = [queue EXCEPT ![t] = Tail(@)]
  /\ UNCHANGED <<tab, controller, starts, typing, run, cut, known, tries, list, session, log, faults,
                 ghosts>>

ServeEnd(t) ==
  /\ queue[t] # <<>> /\ Head(queue[t]).kind = "end"
  /\ session' = [session EXCEPT ![t] = "idle"]
  /\ queue' = [queue EXCEPT ![t] = Tail(@)]
  /\ UNCHANGED <<clientVars, log, faults, ghosts>>

(* The idle timer of the session: half an hour, in which no response travels. *)
Expire(t) ==
  /\ UnderWay(t) \cup Live(t) = {}
  /\ queue[t] = <<>> /\ session[t] \in {"open", "failed"} /\ "expired" \in TxStates
  /\ Fault
  /\ session' = [session EXCEPT ![t] = "expired"]
  /\ missed' = missed \cup {t}
  /\ UNCHANGED <<clientVars, queue, log, stopped, crossed>>

(* Another console of the connection writes into the same history. *)
ForeignRun ==
  /\ Fault
  /\ log' = Record(None, Foreign)
  /\ UNCHANGED <<clientVars, session, queue, ghosts>>

(* The page is loaded anew: the drafts come back, requests are gone, the      *)
(* console mounts and asks for its transaction.                               *)
Reload ==
  /\ Fault
  /\ tab' = [t \in Tabs |-> NewTab(tab[t].editor)]
  /\ controller' = [t \in Tabs |-> None] /\ starts' = [t \in Tabs |-> 0] /\ typing' = {}
  /\ cut' = cut \cup {r \in Runs : run[r].phase # "new"}
  /\ run' = [r \in Runs |-> IF run[r].phase = "new" THEN run[r] ELSE [run[r] EXCEPT !.phase = "done"]]
  /\ list' = [i \in Lists |-> IF list[i].phase = "new" THEN NoList ELSE [NoList EXCEPT !.phase = "done"]]
  /\ read' = [i \in Reads |-> IF read[i].phase = "new" THEN NoRead ELSE [NoRead EXCEPT !.phase = "done"]]
  /\ queue' = [t \in Tabs |-> Without(queue[t], {Request("state", i) : i \in Reads})]
  /\ missed' = Tabs /\ crossed' = {} /\ stopped' = {}
  /\ UNCHANGED <<known, tries, session, log>>
-----------------------------------------------------------------------------
Gestures(t) ==
  \/ \E kind \in Kinds : RunText(t, kind)
  \/ EndTransaction(t) \/ Stop(t)
  \/ RefreshTransaction(t) \/ Dismiss(t)
  \/ TogglePanel(t) \/ ClearHistory(t)
  \/ \E direction \in {"previous", "next"} : Navigate(t, direction)
  \/ \E search \in (Texts \ {Empty}) \cup {None} : SetHistorySearch(t, search)
  \/ \E text \in Texts : SetEditor(t, text)
  \/ \E i \in 1..Len(tab[t].history) : ApplyHistory(t, i)

Arrivals ==
  \/ \E r \in Runs : Overtaken(r) \/ Answered(r) \/ Aborted(r) \/ Explained(r) \/ Analyzed(r) \/ RunFetches(r)
  \/ \E i \in Reads : TransactionRead(i)
  \/ \E i \in Lists : ListArrives(i)
  \/ \E t \in Tabs : PanelFetches(t)

Server ==
  \/ \E t \in Tabs : \/ ServeState(t) \/ ServeEnd(t)
                     \/ \E tx \in TxStates : Serve(t, tx) \/ Refuse(t, tx)
  \/ \E r \in Runs, failed \in BOOLEAN : ServePlan(r, failed)
  \/ \E i \in Lists : ListServed(i)

Faults ==
  \/ \E r \in Runs : RunLost(r)
  \/ \E i \in Reads : ReadLost(i)
  \/ \E t \in Tabs : Expire(t)
  \/ ForeignRun \/ Reload

Next ==
  \/ Gesture /\ \E t \in Tabs : Gestures(t)
  \/ (Arrivals \/ Server \/ Faults) /\ UNCHANGED gestures

Spec == Init /\ [][Next]_vars
-----------------------------------------------------------------------------
(* Type invariant: owners are unfinished runs of their tab (sqlRunControllers).*)
TypeOK ==
  /\ \A t \in Tabs :
       /\ tab[t].running \in BOOLEAN /\ tab[t].failed \in BOOLEAN /\ tab[t].open \in BOOLEAN
       /\ tab[t].tx \in TxStates /\ tab[t].cursor \in -1..(MaxRuns + MaxFaults + 1)
       /\ tab[t].editor \in Commands /\ tab[t].draft \in Commands
       /\ (\A i \in DOMAIN tab[t].history : tab[t].history[i].id \in 1..(MaxRuns + MaxFaults + 2)) /\ tab[t].search \in Texts \cup {None}
       /\ controller[t] \in Runs \cup {None} /\ starts[t] \in 0..MaxRuns
       /\ session[t] \in TxStates
       /\ controller[t] # None => run[controller[t]].tab = t /\ run[controller[t]].phase # "done"
  /\ \A r \in Runs : run[r].phase \in {"new", "sent", "settling", "listing", "done"}
  /\ cut \subseteq Runs /\ stopped \subseteq Runs /\ faults \in 0..MaxFaults /\ gestures \in 0..MaxGestures
  /\ missed \subseteq Tabs /\ crossed \subseteq Tabs /\ typing \subseteq Tabs

RunsOf(t) == {r \in Runs : run[r].tab = t}
Newest(t, r) == r \in RunsOf(t) /\ \A q \in RunsOf(t) : q <= r

(* A tab belongs to its newest run: nothing of a run that was stopped or     *)
(* replaced is shown in it, and it says "running", with a Stop button, as    *)
(* long as that run is neither answered nor stopped (sqlConsole.ts 163-167). *)
NewestRunOwnsTheTab ==
  \A t \in Tabs :
    /\ tab[t].shown # None => Newest(t, tab[t].shown.run)
    /\ tab[t].running <=> \E r \in Live(t) \ stopped : Newest(t, r)

Quiet(t) == queue[t] = <<>> /\ UnderWay(t) = {} /\ Live(t) = {}

(* Once nothing is under way the bar says what the session says, whatever    *)
(* was stopped, replaced, refused or overtaken.  Excepted is what no report  *)
(* has told since (missed) and a session ended with requests under way       *)
(* (crossed).                                                                *)
BarSettles ==
  \A t \in Tabs : Quiet(t) /\ t \notin missed \cup crossed =>
    tab[t].tx = session[t] \/ (tab[t].tx = "expired" /\ session[t] = "idle")
=============================================================================

--------------------------- MODULE ConsoleSession ---------------------------
(***************************************************************************)
(* The console sessions of one postgres connector (postgres/session.go):   *)
(* the connection a SQL console tab keeps from the bounded pool while it   *)
(* has a transaction open, the turn its runs take, the idle timer that     *)
(* rolls it back, and the Close that ends every session before the pool.   *)
(*                                                                         *)
(* A request is one handler goroutine that already holds the connector; it *)
(* runs once.  A session object is named by the request that created it.   *)
(***************************************************************************)
EXTENDS Naturals, FiniteSets

CONSTANTS
  Req,             \* requests
  SessionIDs,      \* one per SQL console tab
  Ops,             \* what the requests of this instance may ask for
  MaxConns,        \* size of the pool
  MaxStatements,   \* statements of one run
  Nil

AllOps == {"run", "state", "end", "query", "close"}

ASSUME SessionAssumption ==
  /\ Ops \subseteq AllOps
  /\ MaxConns \in Nat \ {0} /\ MaxStatements \in Nat \ {0}
  /\ Nil \notin Req \cup SessionIDs \cup AllOps

VARIABLES
  sessions,   \* p.sessions: the session object of each tab
  turn,       \* who holds a session's lock
  conn,       \* a session's connection: "none" or the state of its transaction
  ended, lost, expired,
  gen,        \* s.idleGen
  armed,      \* s.idle: the timer that is running, [gen, by]
  fired,      \* timers that went off and wait for the lock
  pool,       \* "open", "closing", "closed"
  toEnd,      \* the sessions Close has still to end
  pc, op, id,
  mine,       \* the session object a request works on
  left,       \* statements a run may still send
  wasInTx,    \* runs that found a transaction open
  told,       \* the transaction state a request was answered
  lastRun,    \* history: the last run that sent statements on a session
  owed,       \* history: sessions rolled back while idle whose tab was not told
  dropped     \* history: runs whose cancel broke off an open transaction

sessionVars == <<sessions, turn, conn, ended, lost, expired>>
timerVars == <<gen, armed, fired>>
closeVars == <<pool, toEnd>>
requestVars == <<pc, op, id, mine, left, wasInTx, told>>
historyVars == <<lastRun, owed, dropped>>
connectorVars == <<sessionVars, timerVars, closeVars, requestVars, historyVars>>

NoTimer == [gen |-> 0, by |-> Nil]

SessionInit ==
  /\ sessions = [t \in SessionIDs |-> Nil]
  /\ turn = [s \in Req |-> Nil]
  /\ conn = [s \in Req |-> "none"]
  /\ ended = {} /\ lost = {} /\ expired = {}
  /\ gen = [s \in Req |-> 0]
  /\ armed = [s \in Req |-> NoTimer]
  /\ fired = [s \in Req |-> {}]
  /\ pool = "open" /\ toEnd = {}
  /\ pc = [r \in Req |-> "idle"]
  /\ op = [r \in Req |-> Nil]
  /\ id = [r \in Req |-> Nil]
  /\ mine = [r \in Req |-> Nil]
  /\ left = [r \in Req |-> MaxStatements]
  /\ wasInTx = {}
  /\ told = [r \in Req |-> Nil]
  /\ lastRun = [s \in Req |-> Nil]
  /\ owed = {} /\ dropped = {}

Goto(r, label) == pc' = [pc EXCEPT ![r] = label]
InTx(s) == conn[s] \in {"open", "failed"}

(* Connections out of the pool: pinned or running sessions, and queries. *)
InUse == Cardinality({s \in Req : conn[s] # "none"})
         + Cardinality({r \in Req : pc[r] = "querying"})

(* Once Close has begun the manager's lock keeps new requests away; those that
   have the connector already go on. *)
Closing == \E r \in Req : op[r] = "close"

Arrive(r, o, t) ==
  /\ pc[r] = "idle" /\ ~Closing
  /\ op' = [op EXCEPT ![r] = o]
  /\ id' = [id EXCEPT ![r] = t]
  /\ Goto(r, IF o = "query" THEN "borrow" ELSE IF o = "close" THEN "endAll" ELSE "lookup")
  /\ UNCHANGED <<sessionVars, timerVars, closeVars, mine, left, wasInTx, told, historyVars>>

(* An operation without a session borrows a connection and returns it. *)
Borrow(r) ==
  /\ pc[r] = "borrow" /\ InUse < MaxConns
  /\ Goto(r, IF pool = "open" THEN "querying" ELSE "done")
  /\ UNCHANGED <<sessionVars, timerVars, closeVars, op, id, mine, left, wasInTx, told, historyVars>>

QueryEnds(r) ==
  /\ pc[r] = "querying"
  /\ Goto(r, "done")
  /\ UNCHANGED <<sessionVars, timerVars, closeVars, op, id, mine, left, wasInTx, told, historyVars>>

-----------------------------------------------------------------------------
(* A run finds its tab's session or creates it; a state request only finds it;
   an end takes it out of the map first. *)
LookupSession(r) ==
  /\ pc[r] = "lookup"
  /\ LET s == sessions[id[r]]
         object == IF s = Nil /\ op[r] = "run" THEN r ELSE s
     IN /\ sessions' = [sessions EXCEPT ![id[r]] = IF op[r] = "end" THEN Nil ELSE object]
        /\ mine' = [mine EXCEPT ![r] = object]
        /\ told' = [told EXCEPT ![r] = IF object = Nil /\ op[r] = "state" THEN "idle" ELSE @]
        /\ Goto(r, IF object = Nil THEN "done" ELSE "lock")
  /\ UNCHANGED <<turn, conn, ended, lost, expired, timerVars, closeVars, op, id, left, wasInTx,
                 historyVars>>

(* The context ends while the request waits for its turn.  endSession does not
   give up: it waits without its request's cancellation. *)
GiveUpTurn(r) ==
  /\ pc[r] = "lock" /\ op[r] \in {"run", "state"}
  /\ told' = [told EXCEPT ![r] = IF op[r] = "run" THEN "idle" ELSE @]
  /\ Goto(r, "done")
  /\ UNCHANGED <<sessionVars, timerVars, closeVars, op, id, mine, left, wasInTx, historyVars>>

(* s.stopIdle: a timer that has already gone off finds another idleGen. *)
StopIdle(s) ==
  /\ armed' = [armed EXCEPT ![s] = NoTimer]
  /\ gen' = [gen EXCEPT ![s] = @ + 1]
  /\ UNCHANGED fired

(* Statements go out on the pinned connection, or on one just acquired. *)
SendStatements(r, s) ==
  /\ wasInTx' = IF InTx(s) THEN wasInTx \cup {r} ELSE wasInTx
  /\ lost' = lost \ {s}
  /\ lastRun' = [lastRun EXCEPT ![s] = r]
  /\ Goto(r, "running")

AnswerWith(r, answer) ==
  /\ told' = [told EXCEPT ![r] = answer]
  /\ Goto(r, "done")

(* Mutant: an ended, or an expired, session is used like any other. *)
RefusesNobody(s) == FALSE
RefusesEnded(s) == s \in ended
RefusesExpired(s) == s \in expired

(* inSession once its turn has come: an ended session refuses, an expired one
   refuses once, and the idle clock stops. *)
TakeTurn(r) ==
  /\ pc[r] = "lock" /\ op[r] = "run" /\ turn[mine[r]] = Nil
  /\ LET s == mine[r] IN
     \/ /\ RefusesEnded(s)
        /\ AnswerWith(r, "ended")
        /\ UNCHANGED <<turn, lost, expired, timerVars, wasInTx, lastRun, owed>>
     \/ /\ ~RefusesEnded(s) /\ RefusesExpired(s)
        /\ AnswerWith(r, "expired")
        /\ expired' = expired \ {s}
        /\ owed' = owed \ {s}
        /\ UNCHANGED <<turn, lost, timerVars, wasInTx, lastRun>>
     \/ /\ ~RefusesEnded(s) /\ ~RefusesExpired(s)
        /\ turn' = [turn EXCEPT ![s] = r]
        /\ StopIdle(s)
        /\ IF conn[s] = "none"
           THEN Goto(r, "acquire") /\ UNCHANGED <<lost, wasInTx, lastRun>>
           ELSE SendStatements(r, s)
        /\ UNCHANGED <<expired, told, owed>>
  /\ UNCHANGED <<sessions, conn, ended, closeVars, op, id, mine, left, dropped>>

(* pool.Acquire, while the session's turn is held.  A closed pool refuses, and
   the request's context may end first. *)
Acquire(r) ==
  /\ pc[r] = "acquire" /\ InUse < MaxConns
  /\ IF pool = "open"
     THEN /\ conn' = [conn EXCEPT ![mine[r]] = "idle"]
          /\ SendStatements(r, mine[r])
          /\ UNCHANGED <<turn, told>>
     ELSE /\ AnswerWith(r, "idle")
          /\ turn' = [turn EXCEPT ![mine[r]] = Nil]
          /\ UNCHANGED <<conn, lost, wasInTx, lastRun>>
  /\ UNCHANGED <<sessions, ended, expired, timerVars, closeVars, op, id, mine, left, owed, dropped>>

GiveUpAcquire(r) ==
  /\ pc[r] = "acquire"
  /\ AnswerWith(r, "idle")
  /\ turn' = [turn EXCEPT ![mine[r]] = Nil]
  /\ UNCHANGED <<sessions, conn, ended, lost, expired, timerVars, closeVars, op, id, mine, left,
                 wasInTx, historyVars>>

-----------------------------------------------------------------------------
(* What a statement does to the transaction.  A failing one stops the run; one
   canceled under way closes the connection, and the server rolls back. *)
AfterStatement(state, effect) ==
  CASE effect = "begin" /\ state = "idle" -> "open"
    [] effect = "finish" -> "idle"
    [] effect = "fail" /\ state = "open" -> "failed"
    [] effect = "cancel" -> "closed"
    [] OTHER -> state

(* Mutant: the batch looks one statement past its end. *)
PastLast(r) == left[r] = 0
LastStatement(r) == left[r] = 1

Statement(r, effect) ==
  /\ pc[r] = "running"
  /\ LET s == mine[r]
         stops == effect \in {"fail", "cancel", "refuse"} \/ LastStatement(r)
     IN /\ conn[s] = "failed" => effect \notin {"begin", "work"}
        /\ conn' = [conn EXCEPT ![s] = AfterStatement(@, effect)]
        /\ dropped' = IF effect = "cancel" /\ InTx(s) THEN dropped \cup {r} ELSE dropped
        /\ left' = [left EXCEPT ![r] = @ - 1]
        /\ Goto(r, IF stops THEN "ran" ELSE "running")
  /\ UNCHANGED <<sessions, turn, ended, lost, expired, timerVars, closeVars, op, id, mine, wasInTx,
                 told, lastRun, owed>>

(* Mutant: only a healthy transaction starts the idle clock. *)
ArmIdleIfOpen(r, s) ==
  IF conn[s] = "open"
  THEN /\ gen' = [gen EXCEPT ![s] = @ + 1]
       /\ armed' = [armed EXCEPT ![s] = [gen |-> gen[s] + 1, by |-> r]]
       /\ UNCHANGED fired
  ELSE UNCHANGED timerVars

ArmIdle(r, s) ==
  /\ gen' = [gen EXCEPT ![s] = @ + 1]
  /\ armed' = [armed EXCEPT ![s] = [gen |-> gen[s] + 1, by |-> r]]
  /\ UNCHANGED fired

(* Mutant: the connection stays pinned whether or not a transaction is open. *)
KeepsAny(s) == conn[s] # "closed"
KeepsConnection(s) == InTx(s)

(* inSession after fn: the connection stays pinned only for a transaction. *)
RunEnds(r) ==
  /\ pc[r] = "ran"
  /\ LET s == mine[r] IN
     \/ /\ conn[s] = "closed"
        /\ lost' = IF r \in wasInTx THEN lost \cup {s} ELSE lost
        /\ told' = [told EXCEPT ![r] = IF r \in wasInTx THEN "lost" ELSE "idle"]
        /\ conn' = [conn EXCEPT ![s] = "none"]
        /\ UNCHANGED timerVars
     \/ /\ conn[s] # "closed"
        /\ told' = [told EXCEPT ![r] = conn[s]]
        /\ IF KeepsConnection(s)
           THEN ArmIdle(r, s) /\ UNCHANGED conn
           ELSE conn' = [conn EXCEPT ![s] = "none"] /\ UNCHANGED timerVars
        /\ UNCHANGED lost
  /\ turn' = [turn EXCEPT ![mine[r]] = Nil]
  /\ Goto(r, "done")
  /\ UNCHANGED <<sessions, ended, expired, closeVars, op, id, mine, left, wasInTx, historyVars>>

-----------------------------------------------------------------------------
(* Thirty minutes pass with nothing running. *)
IdleElapses(s) ==
  /\ armed[s] # NoTimer
  /\ fired' = [fired EXCEPT ![s] = @ \cup {armed[s]}]
  /\ armed' = [armed EXCEPT ![s] = NoTimer]
  /\ UNCHANGED <<sessionVars, gen, closeVars, requestVars, historyVars>>

(* Mutant: a timer that went off too late is not recognised. *)
ExpiresAny(s, timer) == s \notin ended /\ conn[s] # "none"
Expires(s, timer) == s \notin ended /\ gen[s] = timer.gen /\ conn[s] # "none"

(* expireSession, under the session's lock. *)
ExpireSession(s, timer) ==
  /\ timer \in fired[s] /\ turn[s] = Nil
  /\ fired' = [fired EXCEPT ![s] = @ \ {timer}]
  /\ IF Expires(s, timer)
     THEN /\ conn' = [conn EXCEPT ![s] = "none"]
          /\ armed' = [armed EXCEPT ![s] = NoTimer]
          /\ expired' = expired \cup {s}
          /\ owed' = owed \cup {s}
     ELSE UNCHANGED <<conn, armed, expired, owed>>
  /\ UNCHANGED <<sessions, turn, ended, lost, gen, closeVars, requestVars, lastRun, dropped>>

(* SessionState, once the run in progress is over. *)
ReadState(r) ==
  /\ pc[r] = "lock" /\ op[r] = "state" /\ turn[mine[r]] = Nil
  /\ LET s == mine[r] IN
     AnswerWith(r, IF s \in lost THEN "lost" ELSE IF s \in expired THEN "expired"
               ELSE IF conn[s] = "none" THEN "idle" ELSE conn[s])
  /\ UNCHANGED <<sessionVars, timerVars, closeVars, op, id, mine, left, wasInTx, historyVars>>

(* endSession: roll back, hand the connection back, never run again. *)
EndTurn(r) ==
  /\ pc[r] = "lock" /\ op[r] \in {"end", "close"} /\ turn[mine[r]] = Nil
  /\ ended' = ended \cup {mine[r]}
  /\ conn' = [conn EXCEPT ![mine[r]] = "none"]
  /\ StopIdle(mine[r])
  /\ Goto(r, IF op[r] = "close" THEN "ending" ELSE "done")
  /\ UNCHANGED <<sessions, turn, lost, expired, closeVars, op, id, mine, left, wasInTx, told,
                 historyVars>>

-----------------------------------------------------------------------------
(* Close: endAllSessions empties the map and ends what was in it, one session
   after the other; then pgxpool.Close waits for every connection. *)
EndAllSessions(r) ==
  /\ pc[r] = "endAll"
  /\ toEnd' = {sessions[t] : t \in SessionIDs} \ {Nil}
  /\ sessions' = [t \in SessionIDs |-> Nil]
  /\ Goto(r, "ending")
  /\ UNCHANGED <<turn, conn, ended, lost, expired, timerVars, pool, op, id, mine, left, wasInTx,
                 told, historyVars>>

EndNext(r, s) ==
  /\ pc[r] = "ending" /\ s \in toEnd
  /\ toEnd' = toEnd \ {s}
  /\ mine' = [mine EXCEPT ![r] = s]
  /\ Goto(r, "lock")
  /\ UNCHANGED <<sessionVars, timerVars, pool, op, id, left, wasInTx, told, historyVars>>

ClosePool(r) ==
  /\ pc[r] = "ending" /\ toEnd = {}
  /\ pool' = "closing"
  /\ Goto(r, "drain")
  /\ UNCHANGED <<sessionVars, timerVars, toEnd, op, id, mine, left, wasInTx, told, historyVars>>

PoolClosed(r) ==
  /\ pc[r] = "drain" /\ InUse = 0
  /\ pool' = "closed"
  /\ Goto(r, "done")
  /\ UNCHANGED <<sessionVars, timerVars, toEnd, op, id, mine, left, wasInTx, told, historyVars>>

-----------------------------------------------------------------------------
Effects == {"begin", "finish", "work", "fail", "cancel", "refuse"}

Step(r) ==
  \/ Borrow(r) \/ QueryEnds(r)
  \/ LookupSession(r) \/ TakeTurn(r) \/ Acquire(r) \/ RunEnds(r)
  \/ \E effect \in Effects : Statement(r, effect)
  \/ ReadState(r) \/ EndTurn(r)
  \/ EndAllSessions(r) \/ ClosePool(r) \/ PoolClosed(r)
  \/ \E s \in Req : EndNext(r, s)

Timer(s) == IdleElapses(s) \/ \E timer \in fired[s] : ExpireSession(s, timer)

SessionNext ==
  \/ \E r \in Req : \/ \E o \in Ops, t \in SessionIDs : Arrive(r, o, t)
                    \/ GiveUpTurn(r) \/ GiveUpAcquire(r)
                    \/ Step(r)
  \/ \E s \in Req : Timer(s)

SessionSpec == SessionInit /\ [][SessionNext]_connectorVars

(* Goroutines are scheduled, statements end, and a timer that is running goes
   off.  Nobody is assumed to give up waiting. *)
FairSpec ==
  /\ SessionSpec
  /\ (\A r \in Req : WF_connectorVars(Step(r))) /\ (\A s \in Req : WF_connectorVars(Timer(s)))
-----------------------------------------------------------------------------
Timers == [gen : Nat, by : Req \cup {Nil}]

(* Type invariant. *)
SessionTypeOK ==
  /\ sessions \in [SessionIDs -> Req \cup {Nil}]
  /\ turn \in [Req -> Req \cup {Nil}]
  /\ conn \in [Req -> {"none", "idle", "open", "failed", "closed"}]
  /\ ended \subseteq Req /\ lost \subseteq Req /\ expired \subseteq Req
  /\ gen \in [Req -> Nat]
  /\ armed \in [Req -> Timers]
  /\ fired \in [Req -> SUBSET Timers]
  /\ pool \in {"open", "closing", "closed"} /\ toEnd \subseteq Req
  /\ pc \in [Req -> {"idle", "borrow", "querying", "lookup", "lock", "acquire", "running", "ran",
                     "endAll", "ending", "drain", "done"}]
  /\ op \in [Req -> AllOps \cup {Nil}]
  /\ id \in [Req -> SessionIDs \cup {Nil}]
  /\ mine \in [Req -> Req \cup {Nil}]
  /\ left \in [Req -> 0..MaxStatements]
  /\ wasInTx \subseteq Req
  /\ told \in [Req -> {Nil, "idle", "open", "failed", "lost", "expired", "ended"}]
  /\ lastRun \in [Req -> Req \cup {Nil}]
  /\ owed \subseteq Req /\ dropped \subseteq Req

(* A connection a tab keeps between its runs is on loan for a transaction, its
   idle clock is running or has just gone off, and the session can still be
   found by EndSession, or is held by one that ends it. *)
PinnedIsBounded ==
  \A s \in Req : conn[s] # "none" /\ turn[s] = Nil =>
    /\ InTx(s)
    /\ \E timer \in {armed[s]} \cup fired[s] : timer.gen = gen[s]
    /\ \/ \E t \in SessionIDs : sessions[t] = s
       \/ s \in toEnd
       \/ \E r \in Req : mine[r] = s /\ pc[r] = "lock" /\ op[r] \in {"end", "close"}

(* Once a session has been ended, no run that was queued for it sends a
   statement, and it holds no connection. *)
EndedIsOver ==
  \A s \in ended : conn[s] = "none" /\ turn[s] = Nil

(* The timer rolls back only a transaction that nobody used since that timer
   was started, even when it goes off while a run holds the session. *)
IdleClockSparesRuns ==
  [][\A s \in Req : s \in expired' \ expired =>
       \E timer \in fired[s] \ fired'[s] : timer.by = lastRun[s]]_connectorVars

(* After an idle rollback no statement of the tab runs, autocommitted, until
   one run has been refused with the reason: a state request in between does
   not use the refusal up. *)
ExpiryIsTold ==
  \A r \in Req : pc[r] \in {"acquire", "running", "ran"} => mine[r] \notin owed

(* Everyone gets on: runs wait for their turn and for a connection, ends for
   the run in progress, Close for all of them, and a pinned connection comes
   back by its timer at the latest. *)
EveryRequestFinishes == \A r \in Req : pc[r] # "idle" ~> pc[r] = "done"

(* session.go:248-249, "endAllSessions runs before the pool closes": when the
   pool is told to close, no session has a connection pinned. *)
NothingPinnedAtPoolClose ==
  pool = "closing" => \A s \in Req : InTx(s) => turn[s] # Nil

(* session.go:36, "lost remembers that the last run dropped an open
   transaction": a run whose cancel did so is answered lost. *)
DropIsToldAsLost == \A r \in dropped : pc[r] = "done" => told[r] = "lost"
=============================================================================

----------------------------- MODULE ConsoleProofs ----------------------------
(* Theorems about the SQL console, on both sides of the wire: ConsoleSession,
   for any number of requests, tabs, connections of the pool and statements of
   a run, and SqlConsole, for any number of tabs, runs, reads and lists, and
   any texts. *)
EXTENDS ConsoleSession, SqlConsole, SubsequenceProofs, TLAPS

-----------------------------------------------------------------------------
(* The sessions of the connector. *)

Holding == {"acquire", "running", "ran"}

(* What a request has done by the time it stands somewhere. *)
RequestInv ==
  \A r \in Req :
    /\ pc[r] = "idle" <=> op[r] = Nil
    /\ pc[r] # "idle" => id[r] \in SessionIDs
    /\ pc[r] = "lookup" => op[r] \in {"run", "state", "end"}
    /\ pc[r] = "lock" => op[r] \in {"run", "state", "end", "close"}
    /\ pc[r] \in Holding => op[r] = "run"
    /\ pc[r] \in {"endAll", "ending", "drain"} => op[r] = "close"
    /\ pc[r] \in Holding \cup {"lock"} => mine[r] \in Req
    /\ pc[r] \notin {"ran", "done"} => left[r] > 0

(* One request at most closes the connector, and only once it has emptied the
   map are there sessions left to end. *)
CloseInv ==
  /\ \A r, q \in Req : op[r] = "close" /\ op[q] = "close" => r = q
  /\ toEnd # {} => \E r \in Req : op[r] = "close" /\ pc[r] # "endAll"

(* The turn of a session is held by exactly the run that works on it. *)
TurnInv ==
  /\ \A r \in Req : pc[r] \in Holding => turn[mine[r]] = r
  /\ \A s \in Req : turn[s] # Nil => pc[turn[s]] \in Holding /\ mine[turn[s]] = s

(* The connection of a session while a run holds its turn, and between runs. *)
ConnInv ==
  /\ \A r \in Req : /\ pc[r] = "acquire" => conn[mine[r]] = "none"
                    /\ pc[r] = "running" => conn[mine[r]] \in {"idle", "open", "failed"}
                    /\ pc[r] = "ran" => conn[mine[r]] # "none"
                    /\ pc[r] \in {"running", "ran"} => lastRun[mine[r]] = r
  /\ \A s \in Req : turn[s] = Nil => conn[s] \in {"none", "open", "failed"}

TimersOf(s) == {timer \in {armed[s]} \cup fired[s] : timer # NoTimer}

(* A timer of the session's present generation was started after the last run
   that used the session, and no run holds the turn; a pinned connection has
   such a timer. *)
TimerInv ==
  \A s \in Req :
    /\ \A timer \in TimersOf(s) :
         /\ timer.gen <= gen[s]
         /\ timer.gen = gen[s] => turn[s] = Nil /\ timer.by = lastRun[s]
    /\ conn[s] # "none" /\ turn[s] = Nil => \E timer \in TimersOf(s) : timer.gen = gen[s]
    /\ NoTimer \notin fired[s]

(* Somebody can still end the session: it is in the map, or Close or an end has
   taken it out and comes to it. *)
EndedBySomebody(s) ==
  \/ \E t \in SessionIDs : sessions[t] = s
  \/ s \in toEnd
  \/ \E r \in Req : mine[r] = s /\ pc[r] = "lock" /\ op[r] \in {"end", "close"}

ReachInv ==
  /\ \A r \in Req : pc[r] = "lock" /\ op[r] = "run" /\ mine[r] \notin ended => EndedBySomebody(mine[r])
  /\ \A s \in Req : turn[s] # Nil \/ conn[s] # "none" => EndedBySomebody(s)

(* A tab that is still to be told is marked expired and nobody runs on it. *)
OwedInv == owed \subseteq expired /\ \A s \in owed : turn[s] = Nil

SessionIInv == SessionTypeOK /\ RequestInv /\ CloseInv /\ TurnInv /\ ConnInv /\ EndedIsOver /\ TimerInv /\ ReachInv /\ OwedInv
-----------------------------------------------------------------------------
(* A session that somebody will end stays one while the map, the list of Close
   and the requests that wait to end a session are as they were. *)
LEMMA StaysReachable ==
  ASSUME \A t \in SessionIDs : sessions'[t] = sessions[t], toEnd' = toEnd,
         \A q \in Req : pc[q] = "lock" /\ op[q] \in {"end", "close"} =>
                     pc'[q] = "lock" /\ op'[q] = op[q] /\ mine'[q] = mine[q]
  PROVE \A x \in Req : EndedBySomebody(x) => EndedBySomebody(x)'
BY DEF EndedBySomebody

(* No timer is a timer of generation 0 that nobody started. *)
LEMMA NoTimerType == NoTimer \in Timers
BY DEF NoTimer, Timers

LEMMA ArrivePreserves ==
  ASSUME SessionIInv, NEW r \in Req, NEW o \in Ops, NEW t \in SessionIDs, Arrive(r, o, t)
  PROVE SessionIInv'
<1> USE DEF SessionIInv, SessionTypeOK, Holding, sessionVars, timerVars, closeVars, requestVars, historyVars, Arrive, Goto, Closing
<1>0. \A x \in Req : EndedBySomebody(x) => EndedBySomebody(x)'
  BY StaysReachable
<1>1. SessionTypeOK'
  BY SessionAssumption
<1>2. RequestInv'
  BY SessionAssumption DEF RequestInv, AllOps
<1>3. CloseInv'
  BY DEF CloseInv
<1>4. TurnInv'
  BY DEF TurnInv
<1>5. ConnInv'
  BY DEF ConnInv
<1>6. EndedIsOver'
  BY DEF EndedIsOver
<1>7. TimerInv'
  BY DEF TimerInv, TimersOf
<1>8. ReachInv'
  BY <1>0 DEF RequestInv, ReachInv
<1>9. OwedInv'
  BY DEF OwedInv
<1>10. QED
  BY <1>1, <1>2, <1>3, <1>4, <1>5, <1>6, <1>7, <1>8, <1>9

LEMMA BorrowPreserves ==
  ASSUME SessionIInv, NEW r \in Req, Borrow(r)
  PROVE SessionIInv'
<1> USE DEF SessionIInv, SessionTypeOK, Holding, sessionVars, timerVars, closeVars, requestVars, historyVars, Borrow, Goto
<1>0. \A x \in Req : EndedBySomebody(x) => EndedBySomebody(x)'
  BY StaysReachable
<1>1. SessionTypeOK'
  OBVIOUS
<1>2. RequestInv'
  BY DEF RequestInv
<1>3. CloseInv'
  BY DEF CloseInv
<1>4. TurnInv'
  BY DEF TurnInv
<1>5. ConnInv'
  BY DEF ConnInv
<1>6. EndedIsOver'
  BY DEF EndedIsOver
<1>7. TimerInv'
  BY DEF TimerInv, TimersOf
<1>8. ReachInv'
  BY <1>0 DEF RequestInv, ReachInv
<1>9. OwedInv'
  BY DEF OwedInv
<1>10. QED
  BY <1>1, <1>2, <1>3, <1>4, <1>5, <1>6, <1>7, <1>8, <1>9

LEMMA QueryEndsPreserves ==
  ASSUME SessionIInv, NEW r \in Req, QueryEnds(r)
  PROVE SessionIInv'
<1> USE DEF SessionIInv, SessionTypeOK, Holding, sessionVars, timerVars, closeVars, requestVars, historyVars, QueryEnds, Goto
<1>0. \A x \in Req : EndedBySomebody(x) => EndedBySomebody(x)'
  BY StaysReachable
<1>1. SessionTypeOK'
  OBVIOUS
<1>2. RequestInv'
  BY DEF RequestInv
<1>3. CloseInv'
  BY DEF CloseInv
<1>4. TurnInv'
  BY DEF TurnInv
<1>5. ConnInv'
  BY DEF ConnInv
<1>6. EndedIsOver'
  BY DEF EndedIsOver
<1>7. TimerInv'
  BY DEF TimerInv, TimersOf
<1>8. ReachInv'
  BY <1>0 DEF RequestInv, ReachInv
<1>9. OwedInv'
  BY DEF OwedInv
<1>10. QED
  BY <1>1, <1>2, <1>3, <1>4, <1>5, <1>6, <1>7, <1>8, <1>9

LEMMA LookupSessionPreserves ==
  ASSUME SessionIInv, NEW r \in Req, LookupSession(r)
  PROVE SessionIInv'
<1> USE DEF SessionIInv, SessionTypeOK, Holding, sessionVars, timerVars, closeVars, requestVars, historyVars, LookupSession, Goto
<1>1. SessionTypeOK'
  BY DEF RequestInv
<1>2. RequestInv'
  BY DEF RequestInv
<1>3. CloseInv'
  BY DEF CloseInv
<1>4. TurnInv'
  BY DEF TurnInv
<1>5. ConnInv'
  BY DEF ConnInv
<1>6. EndedIsOver'
  BY DEF EndedIsOver
<1>7. TimerInv'
  BY DEF TimerInv, TimersOf
<1>8. ReachInv'
  BY SessionAssumption DEF RequestInv, ReachInv, EndedBySomebody
<1>9. OwedInv'
  BY DEF OwedInv
<1>10. QED
  BY <1>1, <1>2, <1>3, <1>4, <1>5, <1>6, <1>7, <1>8, <1>9

LEMMA GiveUpTurnPreserves ==
  ASSUME SessionIInv, NEW r \in Req, GiveUpTurn(r)
  PROVE SessionIInv'
<1> USE DEF SessionIInv, SessionTypeOK, Holding, sessionVars, timerVars, closeVars, requestVars, historyVars, GiveUpTurn, Goto
<1>0. \A x \in Req : EndedBySomebody(x) => EndedBySomebody(x)'
  BY StaysReachable
<1>1. SessionTypeOK'
  OBVIOUS
<1>2. RequestInv'
  BY DEF RequestInv
<1>3. CloseInv'
  BY DEF CloseInv
<1>4. TurnInv'
  BY DEF TurnInv
<1>5. ConnInv'
  BY DEF ConnInv
<1>6. EndedIsOver'
  BY DEF EndedIsOver
<1>7. TimerInv'
  BY DEF TimerInv, TimersOf
<1>8. ReachInv'
  BY <1>0 DEF RequestInv, ReachInv
<1>9. OwedInv'
  BY DEF OwedInv
<1>10. QED
  BY <1>1, <1>2, <1>3, <1>4, <1>5, <1>6, <1>7, <1>8, <1>9

LEMMA TakeTurnPreserves ==
  ASSUME SessionIInv, NEW r \in Req, TakeTurn(r)
  PROVE SessionIInv'
<1> USE DEF SessionIInv, SessionTypeOK, Holding, sessionVars, timerVars, closeVars, requestVars, historyVars, TakeTurn, Goto, AnswerWith, RefusesEnded, RefusesExpired, StopIdle, SendStatements, InTx
<1>0. \A x \in Req : EndedBySomebody(x) => EndedBySomebody(x)'
  BY StaysReachable
<1>1. SessionTypeOK'
  <2>1. mine[r] \in Req /\ gen[mine[r]] + 1 \in Nat
    BY DEF RequestInv
  <2>2. CASE RefusesEnded(mine[r]) \/ RefusesExpired(mine[r])
    BY <2>1, <2>2
  <2>3. CASE ~RefusesEnded(mine[r]) /\ ~RefusesExpired(mine[r])
    BY SMTT(60), <2>1, <2>3, NoTimerType
  <2>4. QED
    BY <2>2, <2>3
<1>2. RequestInv'
  BY DEF RequestInv
<1>3. CloseInv'
  BY DEF CloseInv
<1>4. TurnInv'
  <2>1. mine[r] \in Req /\ turn[mine[r]] = Nil /\ Nil \notin Req
    BY SessionAssumption DEF RequestInv
  <2>2. CASE RefusesEnded(mine[r]) \/ RefusesExpired(mine[r])
    BY <2>1, <2>2 DEF TurnInv
  <2>3. CASE ~RefusesEnded(mine[r]) /\ ~RefusesExpired(mine[r])
    <3>1. turn' = [turn EXCEPT ![mine[r]] = r] /\ pc'[r] \in Holding /\ mine' = mine
      BY <2>3
    <3>2. \A q \in Req \ {r} : pc'[q] = pc[q]
      BY <2>3
    <3>3. QED
      BY <2>1, <3>1, <3>2 DEF TurnInv
  <2>4. QED
    BY <2>2, <2>3
<1>5. ConnInv'
  BY SessionAssumption DEF RequestInv, TurnInv, ConnInv
<1>6. EndedIsOver'
  BY DEF EndedIsOver
<1>7. TimerInv'
  <2>1. mine[r] \in Req /\ turn[mine[r]] = Nil /\ Nil \notin Req
    BY SessionAssumption DEF RequestInv
  <2>2. CASE RefusesEnded(mine[r]) \/ RefusesExpired(mine[r])
    <3>1. turn' = turn /\ conn' = conn /\ gen' = gen /\ armed' = armed /\ fired' = fired /\ lastRun' = lastRun
      BY <2>2
    <3>2. QED
      BY <3>1 DEF TimerInv, TimersOf
  <2>3. CASE ~RefusesEnded(mine[r]) /\ ~RefusesExpired(mine[r])
    <3>1. /\ turn' = [turn EXCEPT ![mine[r]] = r] /\ conn' = conn /\ fired' = fired
          /\ armed' = [armed EXCEPT ![mine[r]] = NoTimer]
          /\ gen' = [gen EXCEPT ![mine[r]] = @ + 1]
          /\ \A x \in Req \ {mine[r]} : lastRun'[x] = lastRun[x]
      BY <2>3
    <3>2. SUFFICES ASSUME NEW x \in Req
                   PROVE /\ \A t \in TimersOf(x)' :
                              /\ t.gen <= gen'[x]
                              /\ t.gen = gen'[x] => turn'[x] = Nil /\ t.by = lastRun'[x]
                         /\ conn'[x] # "none" /\ turn'[x] = Nil =>
                              \E t \in TimersOf(x)' : t.gen = gen'[x]
                         /\ NoTimer \notin fired'[x]
      BY DEF TimerInv
    <3>3. CASE x # mine[r]
      BY <2>1, <3>1, <3>3 DEF TimerInv, TimersOf
    <3>4. CASE x = mine[r]
      <4>1. gen[x] \in Nat /\ gen'[x] = gen[x] + 1 /\ turn'[x] = r /\ fired'[x] = fired[x]
        BY <2>1, <3>1, <3>4
      <4>2. \A t \in fired[x] \cup {armed[x]} : t.gen \in Nat
        BY <3>4, NoTimerType DEF Timers
      <4>3. TimersOf(x)' \subseteq TimersOf(x)
        BY <2>1, <3>1, <3>4 DEF TimersOf
      <4>4. \A t \in TimersOf(x)' : t.gen \in Nat /\ t.gen <= gen[x]
        BY <4>2, <4>3 DEF TimerInv, TimersOf
      <4>5. QED
        BY <2>1, <4>1, <4>4 DEF TimerInv
    <3>5. QED
      BY <3>3, <3>4
  <2>4. QED
    BY <2>2, <2>3
<1>8. ReachInv'
  <2>1. \A q \in Req : pc'[q] = "lock" => pc[q] = "lock" /\ mine[q] \in Req
    BY DEF RequestInv
  <2>2. \A x \in Req : turn'[x] # turn[x] => x = mine[r] /\ mine[r] \notin ended
    OBVIOUS
  <2>3. op' = op /\ mine' = mine /\ ended' = ended /\ conn' = conn /\ pc[r] = "lock" /\ op[r] = "run"
    OBVIOUS
  <2>4. \A x \in Req : turn'[x] # turn[x] => EndedBySomebody(x)'
    BY <1>0, <2>2, <2>3 DEF ReachInv
  <2>5. QED
    BY <1>0, <2>1, <2>3, <2>4 DEF ReachInv
<1>9. OwedInv'
  BY DEF OwedInv
<1>10. QED
  BY <1>1, <1>2, <1>3, <1>4, <1>5, <1>6, <1>7, <1>8, <1>9

LEMMA AcquirePreserves ==
  ASSUME SessionIInv, NEW r \in Req, Acquire(r)
  PROVE SessionIInv'
<1> USE DEF SessionIInv, SessionTypeOK, Holding, sessionVars, timerVars, closeVars, requestVars, historyVars, Acquire, Goto, AnswerWith, SendStatements, InTx
<1>0. \A x \in Req : EndedBySomebody(x) => EndedBySomebody(x)'
  BY StaysReachable
<1>1. SessionTypeOK'
  OBVIOUS
<1>2. RequestInv'
  BY DEF RequestInv
<1>3. CloseInv'
  BY DEF CloseInv
<1>4. TurnInv'
  BY DEF RequestInv, TurnInv
<1>5. ConnInv'
  BY SessionAssumption DEF RequestInv, TurnInv, ConnInv
<1>6. EndedIsOver'
  BY SessionAssumption DEF EndedIsOver, TurnInv
<1>7. TimerInv'
  BY SessionAssumption DEF TurnInv, ConnInv, TimerInv, TimersOf
<1>8. ReachInv'
  BY SessionAssumption, <1>0 DEF RequestInv, TurnInv, ReachInv
<1>9. OwedInv'
  BY DEF OwedInv
<1>10. QED
  BY <1>1, <1>2, <1>3, <1>4, <1>5, <1>6, <1>7, <1>8, <1>9

LEMMA GiveUpAcquirePreserves ==
  ASSUME SessionIInv, NEW r \in Req, GiveUpAcquire(r)
  PROVE SessionIInv'
<1> USE DEF SessionIInv, SessionTypeOK, Holding, sessionVars, timerVars, closeVars, requestVars, historyVars, GiveUpAcquire, Goto, AnswerWith
<1>0. \A x \in Req : EndedBySomebody(x) => EndedBySomebody(x)'
  BY StaysReachable
<1>1. SessionTypeOK'
  OBVIOUS
<1>2. RequestInv'
  BY DEF RequestInv
<1>3. CloseInv'
  BY DEF CloseInv
<1>4. TurnInv'
  BY DEF TurnInv
<1>5. ConnInv'
  BY DEF ConnInv
<1>6. EndedIsOver'
  BY DEF EndedIsOver
<1>7. TimerInv'
  BY DEF ConnInv, TimerInv, TimersOf
<1>8. ReachInv'
  BY <1>0 DEF RequestInv, ReachInv
<1>9. OwedInv'
  BY DEF OwedInv
<1>10. QED
  BY <1>1, <1>2, <1>3, <1>4, <1>5, <1>6, <1>7, <1>8, <1>9

LEMMA StatementPreserves ==
  ASSUME SessionIInv, NEW r \in Req, NEW effect \in Effects, Statement(r, effect)
  PROVE SessionIInv'
<1> USE DEF SessionIInv, SessionTypeOK, Holding, sessionVars, timerVars, closeVars, requestVars, historyVars, Statement, Goto, InTx, AfterStatement, LastStatement, Effects
<1>0. \A x \in Req : EndedBySomebody(x) => EndedBySomebody(x)'
  BY StaysReachable
<1>1. SessionTypeOK'
  BY SessionAssumption DEF RequestInv
<1>2. RequestInv'
  <2>1. left[r] \in Nat /\ left[r] > 0
    BY DEF RequestInv
  <2>2. pc'[r] \notin {"ran", "done"} => left'[r] > 0
    BY <2>1
  <2>3. QED
    BY <2>2 DEF RequestInv
<1>3. CloseInv'
  BY DEF CloseInv
<1>4. TurnInv'
  BY DEF TurnInv
<1>5. ConnInv'
  BY SessionAssumption DEF TurnInv, ConnInv
<1>6. EndedIsOver'
  BY SessionAssumption DEF EndedIsOver, TurnInv
<1>7. TimerInv'
  BY DEF ConnInv, TimerInv, TimersOf
<1>8. ReachInv'
  BY SessionAssumption, <1>0 DEF RequestInv, TurnInv, ReachInv
<1>9. OwedInv'
  BY DEF OwedInv
<1>10. QED
  BY <1>1, <1>2, <1>3, <1>4, <1>5, <1>6, <1>7, <1>8, <1>9

LEMMA RunEndsPreserves ==
  ASSUME SessionIInv, NEW r \in Req, RunEnds(r)
  PROVE SessionIInv'
<1> USE DEF SessionIInv, SessionTypeOK, Holding, sessionVars, timerVars, closeVars, requestVars, historyVars, RunEnds, Goto, KeepsConnection, ArmIdle, InTx
<1>0. \A x \in Req : EndedBySomebody(x) => EndedBySomebody(x)'
  BY StaysReachable
<1>1. SessionTypeOK'
  <2>1. mine[r] \in Req /\ conn[mine[r]] # "none"
    BY DEF RequestInv, ConnInv
  <2>2. [gen |-> gen[mine[r]] + 1, by |-> r] \in Timers
    BY <2>1 DEF Timers
  <2>3. armed' \in [Req -> Timers] /\ gen' \in [Req -> Nat]
    BY <2>1, <2>2
  <2>4. told' \in [Req -> {Nil, "idle", "open", "failed", "lost", "expired", "ended"}]
    BY <2>1
  <2>5. conn' \in [Req -> {"none", "idle", "open", "failed", "closed"}]
    BY <2>1
  <2>6. QED
    BY <2>1, <2>3, <2>4, <2>5
<1>2. RequestInv'
  BY DEF RequestInv
<1>3. CloseInv'
  BY DEF CloseInv
<1>4. TurnInv'
  BY DEF TurnInv
<1>5. ConnInv'
  BY DEF RequestInv, ConnInv
<1>6. EndedIsOver'
  BY DEF EndedIsOver
<1>7. TimerInv'
  <2>1. mine[r] \in Req /\ turn[mine[r]] = r /\ lastRun[mine[r]] = r /\ r # Nil
    BY SessionAssumption DEF RequestInv, TurnInv, ConnInv
  <2>2. SUFFICES ASSUME NEW x \in Req
                 PROVE /\ \A timer \in TimersOf(x)' :
                            /\ timer.gen <= gen'[x]
                            /\ timer.gen = gen'[x] => turn'[x] = Nil /\ timer.by = lastRun'[x]
                       /\ conn'[x] # "none" /\ turn'[x] = Nil =>
                            \E timer \in TimersOf(x)' : timer.gen = gen'[x]
                       /\ NoTimer \notin fired'[x]
    BY DEF TimerInv
  <2>3. CASE x # mine[r]
    BY <2>1, <2>3 DEF TimerInv, TimersOf
  <2>4. CASE x = mine[r] /\ gen' = gen
    BY <2>1, <2>4 DEF TimerInv, TimersOf
  <2>5. CASE x = mine[r] /\ gen' # gen
    <3> DEFINE new == [gen |-> gen[x] + 1, by |-> r]
    <3>1. gen'[x] = gen[x] + 1 /\ armed'[x] = new /\ fired' = fired /\ turn'[x] = Nil /\ lastRun' = lastRun
      BY <2>1, <2>5
    <3>2. new # NoTimer
      BY <2>1 DEF NoTimer
    <3>3. NoTimer \notin fired[x] /\ \A timer \in fired[x] : timer.gen <= gen[x]
      BY DEF TimerInv, TimersOf
    <3>4. \A timer \in fired[x] : timer.gen \in Nat
      BY DEF Timers
    <3>5. QED
      BY <2>1, <2>5, <3>1, <3>2, <3>3, <3>4 DEF TimersOf
  <2>6. QED
    BY <2>3, <2>4, <2>5
<1>8. ReachInv'
  BY <1>0 DEF RequestInv, ReachInv
<1>9. OwedInv'
  BY DEF OwedInv
<1>10. QED
  BY <1>1, <1>2, <1>3, <1>4, <1>5, <1>6, <1>7, <1>8, <1>9

LEMMA IdleElapsesPreserves ==
  ASSUME SessionIInv, NEW s \in Req, IdleElapses(s)
  PROVE SessionIInv'
<1> USE DEF SessionIInv, SessionTypeOK, Holding, sessionVars, timerVars, closeVars, requestVars, historyVars, IdleElapses, Goto
<1>0. \A x \in Req : EndedBySomebody(x) => EndedBySomebody(x)'
  BY StaysReachable
<1>1. SessionTypeOK'
  <2>1. fired' \in [Req -> SUBSET Timers]
    OBVIOUS
  <2>2. QED
    BY <2>1, NoTimerType
<1>2. RequestInv'
  BY DEF RequestInv
<1>3. CloseInv'
  BY DEF CloseInv
<1>4. TurnInv'
  BY DEF TurnInv
<1>5. ConnInv'
  BY DEF ConnInv
<1>6. EndedIsOver'
  BY DEF EndedIsOver
<1>7. TimerInv'
  BY DEF TimerInv, TimersOf
<1>8. ReachInv'
  BY <1>0 DEF RequestInv, ReachInv
<1>9. OwedInv'
  BY DEF OwedInv
<1>10. QED
  BY <1>1, <1>2, <1>3, <1>4, <1>5, <1>6, <1>7, <1>8, <1>9

LEMMA ExpireSessionPreserves ==
  ASSUME SessionIInv, NEW s \in Req, NEW timer \in fired[s], ExpireSession(s, timer)
  PROVE SessionIInv'
<1> USE DEF SessionIInv, SessionTypeOK, Holding, sessionVars, timerVars, closeVars, requestVars, historyVars, ExpireSession, Goto, Expires, NoTimer, Timers
<1>0. \A x \in Req : EndedBySomebody(x) => EndedBySomebody(x)'
  BY StaysReachable
<1>1. SessionTypeOK'
  <2>1. fired' \in [Req -> SUBSET Timers]
    OBVIOUS
  <2>2. QED
    BY SMTT(60), <2>1, NoTimerType
<1>2. RequestInv'
  BY DEF RequestInv
<1>3. CloseInv'
  BY DEF CloseInv
<1>4. TurnInv'
  BY DEF TurnInv
<1>5. ConnInv'
  <2>1. turn[s] = Nil /\ turn' = turn /\ pc' = pc /\ mine' = mine /\ lastRun' = lastRun
        /\ (conn' = conn \/ conn' = [conn EXCEPT ![s] = "none"])
    OBVIOUS
  <2>2. \A r \in Req : pc[r] \in Holding => mine[r] \in Req \ {s}
    BY <2>1, SessionAssumption DEF RequestInv, TurnInv
  <2>3. \A r \in Req : pc[r] \in Holding => conn'[mine[r]] = conn[mine[r]]
    BY <2>1, <2>2
  <2>4. \A x \in Req : conn'[x] = conn[x] \/ conn'[x] = "none"
    BY <2>1
  <2>5. QED
    BY <2>1, <2>3, <2>4 DEF ConnInv
<1>6. EndedIsOver'
  BY DEF EndedIsOver
<1>7. TimerInv'
  <2>1. SUFFICES ASSUME NEW x \in Req
                 PROVE /\ \A t \in TimersOf(x)' :
                            /\ t.gen <= gen'[x]
                            /\ t.gen = gen'[x] => turn'[x] = Nil /\ t.by = lastRun'[x]
                       /\ conn'[x] # "none" /\ turn'[x] = Nil =>
                            \E t \in TimersOf(x)' : t.gen = gen'[x]
                       /\ NoTimer \notin fired'[x]
    BY DEF TimerInv
  <2>2. TimersOf(x)' \subseteq TimersOf(x)
    BY DEF TimersOf
  <2>3. CASE x # s
    BY <2>3 DEF TimerInv, TimersOf
  <2>4. CASE x = s
    <3>1. conn'[s] # "none" => timer.gen # gen[s] /\ armed' = armed
      BY DEF EndedIsOver
    <3>2. conn'[s] # "none" => conn[s] # "none"
      OBVIOUS
    <3>3. QED
      BY <2>2, <2>4, <3>1, <3>2 DEF TimerInv, TimersOf
  <2>5. QED
    BY <2>3, <2>4
<1>8. ReachInv'
  BY <1>0 DEF RequestInv, ReachInv
<1>9. OwedInv'
  BY DEF OwedInv
<1>10. QED
  BY <1>1, <1>2, <1>3, <1>4, <1>5, <1>6, <1>7, <1>8, <1>9

LEMMA ReadStatePreserves ==
  ASSUME SessionIInv, NEW r \in Req, ReadState(r)
  PROVE SessionIInv'
<1> USE DEF SessionIInv, SessionTypeOK, Holding, sessionVars, timerVars, closeVars, requestVars, historyVars, ReadState, Goto, AnswerWith
<1>0. \A x \in Req : EndedBySomebody(x) => EndedBySomebody(x)'
  BY StaysReachable
<1>1. SessionTypeOK'
  <2>1. mine[r] \in Req
    BY DEF RequestInv
  <2>2. conn[mine[r]] \in {"none", "open", "failed"}
    BY <2>1 DEF ConnInv
  <2>3. QED
    BY <2>1, <2>2
<1>2. RequestInv'
  BY DEF RequestInv
<1>3. CloseInv'
  BY DEF CloseInv
<1>4. TurnInv'
  BY DEF TurnInv
<1>5. ConnInv'
  BY DEF ConnInv
<1>6. EndedIsOver'
  BY DEF EndedIsOver
<1>7. TimerInv'
  BY DEF TimerInv, TimersOf
<1>8. ReachInv'
  BY <1>0 DEF RequestInv, ReachInv
<1>9. OwedInv'
  BY DEF OwedInv
<1>10. QED
  BY <1>1, <1>2, <1>3, <1>4, <1>5, <1>6, <1>7, <1>8, <1>9

LEMMA EndTurnPreserves ==
  ASSUME SessionIInv, NEW r \in Req, EndTurn(r)
  PROVE SessionIInv'
<1> USE DEF SessionIInv, SessionTypeOK, Holding, sessionVars, timerVars, closeVars, requestVars, historyVars, EndTurn, Goto, StopIdle, NoTimer, Timers
<1>1. SessionTypeOK'
  BY DEF RequestInv
<1>2. RequestInv'
  BY DEF RequestInv
<1>3. CloseInv'
  BY DEF CloseInv
<1>4. TurnInv'
  BY DEF TurnInv
<1>5. ConnInv'
  BY SessionAssumption DEF TurnInv, ConnInv
<1>6. EndedIsOver'
  BY DEF EndedIsOver, RequestInv
<1>7. TimerInv'
  BY DEF TimerInv, TimersOf
<1>8. ReachInv'
  <2>1. mine[r] \in Req /\ mine[r] \in ended' /\ conn'[mine[r]] = "none" /\ turn' = turn /\ turn[mine[r]] = Nil
    BY DEF RequestInv
  <2>2. \A x \in Req \ {mine[r]} : EndedBySomebody(x) => EndedBySomebody(x)'
    BY DEF EndedBySomebody
  <2>3. \A q \in Req : pc'[q] = "lock" => q # r /\ pc[q] = "lock" /\ mine'[q] = mine[q] /\ op'[q] = op[q]
    OBVIOUS
  <2>4. \A q \in Req : pc[q] = "lock" => mine[q] \in Req
    BY DEF RequestInv
  <2>5. QED
    BY <2>1, <2>2, <2>3, <2>4 DEF ReachInv
<1>9. OwedInv'
  BY DEF OwedInv
<1>10. QED
  BY <1>1, <1>2, <1>3, <1>4, <1>5, <1>6, <1>7, <1>8, <1>9

LEMMA EndAllSessionsPreserves ==
  ASSUME SessionIInv, NEW r \in Req, EndAllSessions(r)
  PROVE SessionIInv'
<1> USE DEF SessionIInv, SessionTypeOK, Holding, sessionVars, timerVars, closeVars, requestVars, historyVars, EndAllSessions, Goto
<1>1. SessionTypeOK'
  OBVIOUS
<1>2. RequestInv'
  BY DEF RequestInv
<1>3. CloseInv'
  BY DEF RequestInv, CloseInv
<1>4. TurnInv'
  BY DEF TurnInv
<1>5. ConnInv'
  BY DEF ConnInv
<1>6. EndedIsOver'
  BY DEF EndedIsOver
<1>7. TimerInv'
  BY DEF TimerInv, TimersOf
<1>8. ReachInv'
  <2>1. toEnd = {}
    BY DEF CloseInv, RequestInv
  <2>2. \A x \in Req : EndedBySomebody(x) => EndedBySomebody(x)'
    BY <2>1 DEF EndedBySomebody
  <2>3. \A q \in Req : pc'[q] = "lock" => pc[q] = "lock" /\ mine[q] \in Req
    BY DEF RequestInv
  <2>4. QED
    BY <2>2, <2>3 DEF ReachInv
<1>9. OwedInv'
  BY DEF OwedInv
<1>10. QED
  BY <1>1, <1>2, <1>3, <1>4, <1>5, <1>6, <1>7, <1>8, <1>9

LEMMA EndNextPreserves ==
  ASSUME SessionIInv, NEW r \in Req, NEW s \in Req, EndNext(r, s)
  PROVE SessionIInv'
<1> USE DEF SessionIInv, SessionTypeOK, Holding, sessionVars, timerVars, closeVars, requestVars, historyVars, EndNext, Goto
<1>1. SessionTypeOK'
  OBVIOUS
<1>2. RequestInv'
  BY DEF RequestInv
<1>3. CloseInv'
  BY DEF CloseInv
<1>4. TurnInv'
  BY DEF TurnInv
<1>5. ConnInv'
  BY DEF ConnInv
<1>6. EndedIsOver'
  BY DEF EndedIsOver
<1>7. TimerInv'
  BY DEF TimerInv, TimersOf
<1>8. ReachInv'
  BY DEF RequestInv, ReachInv, EndedBySomebody
<1>9. OwedInv'
  BY DEF OwedInv
<1>10. QED
  BY <1>1, <1>2, <1>3, <1>4, <1>5, <1>6, <1>7, <1>8, <1>9

LEMMA ClosePoolPreserves ==
  ASSUME SessionIInv, NEW r \in Req, ClosePool(r)
  PROVE SessionIInv'
<1> USE DEF SessionIInv, SessionTypeOK, Holding, sessionVars, timerVars, closeVars, requestVars, historyVars, ClosePool, Goto
<1>0. \A x \in Req : EndedBySomebody(x) => EndedBySomebody(x)'
  BY StaysReachable
<1>1. SessionTypeOK'
  OBVIOUS
<1>2. RequestInv'
  BY DEF RequestInv
<1>3. CloseInv'
  BY DEF CloseInv
<1>4. TurnInv'
  BY DEF TurnInv
<1>5. ConnInv'
  BY DEF ConnInv
<1>6. EndedIsOver'
  BY DEF EndedIsOver
<1>7. TimerInv'
  BY DEF TimerInv, TimersOf
<1>8. ReachInv'
  BY <1>0 DEF RequestInv, ReachInv
<1>9. OwedInv'
  BY DEF OwedInv
<1>10. QED
  BY <1>1, <1>2, <1>3, <1>4, <1>5, <1>6, <1>7, <1>8, <1>9

LEMMA PoolClosedPreserves ==
  ASSUME SessionIInv, NEW r \in Req, PoolClosed(r)
  PROVE SessionIInv'
<1> USE DEF SessionIInv, SessionTypeOK, Holding, sessionVars, timerVars, closeVars, requestVars, historyVars, PoolClosed, Goto
<1>0. \A x \in Req : EndedBySomebody(x) => EndedBySomebody(x)'
  BY StaysReachable
<1>1. SessionTypeOK'
  OBVIOUS
<1>2. RequestInv'
  BY DEF RequestInv
<1>3. CloseInv'
  BY DEF CloseInv
<1>4. TurnInv'
  BY DEF TurnInv
<1>5. ConnInv'
  BY DEF ConnInv
<1>6. EndedIsOver'
  BY DEF EndedIsOver
<1>7. TimerInv'
  BY DEF TimerInv, TimersOf
<1>8. ReachInv'
  BY <1>0 DEF RequestInv, ReachInv
<1>9. OwedInv'
  BY DEF OwedInv
<1>10. QED
  BY <1>1, <1>2, <1>3, <1>4, <1>5, <1>6, <1>7, <1>8, <1>9
-----------------------------------------------------------------------------
LEMMA SessionInitInv == SessionInit => SessionIInv
<1> SUFFICES ASSUME SessionInit PROVE SessionIInv
  OBVIOUS
<1> USE DEF SessionInit
<1>1. SessionTypeOK
  BY SessionAssumption DEF SessionTypeOK, NoTimer, Timers
<1>2. RequestInv
  BY SessionAssumption DEF RequestInv, Holding
<1>3. CloseInv /\ TurnInv
  BY SessionAssumption DEF CloseInv, TurnInv, Holding, AllOps
<1>4. ConnInv /\ EndedIsOver /\ OwedInv
  BY DEF ConnInv, EndedIsOver, OwedInv
<1>5. TimerInv /\ ReachInv
  BY DEF TimerInv, TimersOf, ReachInv
<1>6. QED
  BY <1>1, <1>2, <1>3, <1>4, <1>5 DEF SessionIInv

(* One case per action. *)
LEMMA SessionNextPreserves == SessionIInv /\ [SessionNext]_connectorVars => SessionIInv'
<1> SUFFICES ASSUME SessionIInv, [SessionNext]_connectorVars PROVE SessionIInv'
  OBVIOUS
<1>1. CASE UNCHANGED connectorVars
  BY <1>1 DEF connectorVars, sessionVars, timerVars, closeVars, requestVars, historyVars, SessionIInv, SessionTypeOK,
     RequestInv, CloseInv, TurnInv, ConnInv, EndedIsOver, TimerInv, TimersOf, ReachInv,
     EndedBySomebody, OwedInv
<1>2. ASSUME NEW r \in Req, NEW o \in Ops, NEW t \in SessionIDs, Arrive(r, o, t) PROVE SessionIInv'
  BY <1>2, ArrivePreserves
<1>3. ASSUME NEW r \in Req, GiveUpTurn(r) \/ GiveUpAcquire(r) PROVE SessionIInv'
  BY <1>3, GiveUpTurnPreserves, GiveUpAcquirePreserves
<1>4. ASSUME NEW r \in Req, Step(r) PROVE SessionIInv'
  <2>1. CASE Borrow(r) \/ QueryEnds(r)
    BY <2>1, BorrowPreserves, QueryEndsPreserves
  <2>2. CASE LookupSession(r) \/ TakeTurn(r)
    BY <2>2, LookupSessionPreserves, TakeTurnPreserves
  <2>3. CASE Acquire(r) \/ RunEnds(r)
    BY <2>3, AcquirePreserves, RunEndsPreserves
  <2>4. ASSUME NEW effect \in Effects, Statement(r, effect) PROVE SessionIInv'
    BY <2>4, StatementPreserves
  <2>5. CASE ReadState(r) \/ EndTurn(r)
    BY <2>5, ReadStatePreserves, EndTurnPreserves
  <2>6. CASE EndAllSessions(r) \/ ClosePool(r) \/ PoolClosed(r)
    BY <2>6, EndAllSessionsPreserves, ClosePoolPreserves, PoolClosedPreserves
  <2>7. ASSUME NEW s \in Req, EndNext(r, s) PROVE SessionIInv'
    BY <2>7, EndNextPreserves
  <2>8. QED
    BY <1>4, <2>1, <2>2, <2>3, <2>4, <2>5, <2>6, <2>7 DEF Step
<1>5. ASSUME NEW s \in Req, Timer(s) PROVE SessionIInv'
  BY <1>5, IdleElapsesPreserves, ExpireSessionPreserves DEF Timer
<1>6. QED
  BY <1>1, <1>2, <1>3, <1>4, <1>5 DEF SessionNext

LEMMA SessionInvariance == SessionSpec => []SessionIInv
BY SessionInitInv, SessionNextPreserves, PTL DEF SessionSpec

(* Every variable keeps its type in every behaviour. *)
THEOREM SessionTypeCorrect == SessionSpec => []SessionTypeOK
<1>1. SessionIInv => SessionTypeOK
  BY DEF SessionIInv
<1>2. QED
  BY <1>1, SessionInvariance, PTL

(* A connection that stays pinned between two runs is on loan for a transaction,
   has a timer of the session's present generation, and its session can still be
   ended by EndSession or Close. *)
THEOREM PinnedIsBoundedHolds == SessionSpec => []PinnedIsBounded
<1>1. SessionIInv => PinnedIsBounded
  BY DEF SessionIInv, ConnInv, TimerInv, TimersOf, ReachInv, EndedBySomebody, PinnedIsBounded, InTx
<1>2. QED
  BY <1>1, SessionInvariance, PTL

(* A session that was ended, by its tab or by Close, holds no connection, and no
   run that was queued for it gets its turn. *)
THEOREM EndedIsOverHolds == SessionSpec => []EndedIsOver
<1>1. SessionIInv => EndedIsOver
  BY DEF SessionIInv
<1>2. QED
  BY <1>1, SessionInvariance, PTL

(* Between an idle rollback and the refusal that tells it, no run of the tab
   holds its session: not one that was queued, not one that asks the state
   first. *)
THEOREM ExpiryIsToldHolds == SessionSpec => []ExpiryIsTold
<1>1. SessionIInv => ExpiryIsTold
  BY SessionAssumption DEF SessionIInv, TurnInv, OwedInv, ExpiryIsTold, Holding
<1>2. QED
  BY <1>1, SessionInvariance, PTL

(* A step that marks a session expired consumes a timer that was started by the
   last run that sent statements on it: a timer of an earlier run, however late
   it gets the lock, rolls nothing back. *)
THEOREM IdleClockSparesRunsHolds == SessionSpec => IdleClockSparesRuns
<1> DEFINE Spares == \A s \in Req : s \in expired' \ expired =>
                       \E timer \in fired[s] \ fired'[s] : timer.by = lastRun[s]
<1>1. SessionIInv /\ [SessionNext]_connectorVars => [Spares]_connectorVars
  <2> SUFFICES ASSUME SessionIInv, SessionNext PROVE Spares
    OBVIOUS
  <2>1. ASSUME NEW s \in Req, NEW timer \in fired[s], ExpireSession(s, timer) PROVE Spares
    <3>1. SUFFICES ASSUME NEW x \in Req, x \in expired' \ expired
                   PROVE \E t \in fired[x] \ fired'[x] : t.by = lastRun[x]
      OBVIOUS
    <3>2. x = s /\ Expires(s, timer)
      BY <2>1, <3>1 DEF ExpireSession
    <3>3. timer \in fired[s] \ fired'[s]
      BY <2>1 DEF ExpireSession, SessionIInv, SessionTypeOK
    <3>4. timer # NoTimer
      BY DEF SessionIInv, TimerInv
    <3>5. timer.by = lastRun[s]
      BY <3>2, <3>4 DEF Expires, SessionIInv, TimerInv, TimersOf
    <3>6. QED
      BY <3>2, <3>3, <3>5
  <2>2. ASSUME NEW s \in Req, IdleElapses(s) PROVE Spares
    BY <2>2 DEF IdleElapses, sessionVars
  <2>3. ASSUME NEW r \in Req, \/ \E o \in Ops, t \in SessionIDs : Arrive(r, o, t)
                              \/ GiveUpTurn(r) \/ GiveUpAcquire(r) \/ Step(r)
        PROVE expired' \subseteq expired
    <3>1. CASE \E o \in Ops, t \in SessionIDs : Arrive(r, o, t)
      BY <3>1 DEF Arrive, sessionVars
    <3>2. CASE GiveUpTurn(r) \/ GiveUpAcquire(r)
      BY <3>2 DEF GiveUpTurn, GiveUpAcquire, sessionVars
    <3>3. CASE Step(r)
      BY <3>3 DEF Step, Borrow, QueryEnds, LookupSession, TakeTurn, Acquire, RunEnds, Statement,
         ReadState, EndTurn, EndAllSessions, EndNext, ClosePool, PoolClosed, sessionVars
    <3>4. QED
      BY <2>3, <3>1, <3>2, <3>3
  <2>4. QED
    BY <2>1, <2>2, <2>3 DEF SessionNext, Timer
<1>2. QED
  BY <1>1, SessionInvariance, PTL DEF SessionSpec, IdleClockSparesRuns

-----------------------------------------------------------------------------
(* The console of the client. *)

(* The shape of a tab's state, of a run and of a history read.  What a list of
   the history holds is left open: no theorem is about its entries. *)
TabFields == {"running", "failed", "shown", "tx", "open", "search", "history", "loading",
              "refused", "cursor", "editor", "draft"}

TabShape ==
  /\ DOMAIN tab = Tabs
  /\ \A t \in Tabs : /\ DOMAIN tab[t] = TabFields
                     /\ tab[t].running \in BOOLEAN /\ tab[t].cursor \in Int /\ tab[t].cursor >= -1

RunShape ==
  /\ DOMAIN run = Runs
  /\ \A r \in Runs : DOMAIN run[r] = {"tab", "kind", "command", "phase", "answer"}
  /\ controller \in [Tabs -> Runs \cup {None}]

ListShape ==
  /\ DOMAIN list = Lists
  /\ \A i \in Lists : DOMAIN list[i] = {"tab", "search", "for", "walk", "phase", "answer"}

(* Runs are numbered in the order they are sent. *)
OrderInv ==
  /\ \A r \in Runs : /\ run[r].phase \in {"new", "sent", "settling", "listing", "done"}
                     /\ run[r].phase = "new" => run[r].tab = None
                     /\ run[r].phase # "new" => run[r].tab \in Tabs
  /\ \A r, q \in Runs : run[r].phase = "new" /\ r < q => run[q].phase = "new"

(* The owner of a tab is its newest run, and the newest run owns its tab while
   its request is under way. *)
OwnerInv ==
  \A t \in Tabs :
    /\ controller[t] # None => /\ Newest(t, controller[t])
                               /\ run[controller[t]].phase \in {"sent", "settling", "listing"}
    /\ \A r \in Live(t) : Newest(t, r) => controller[t] = r

StoppedInv == \A r \in stopped : r \in Runs /\ run[r].phase # "new"

(* What a tab shows: a result of its newest run, or that it is running. *)
ShownInv ==
  \A t \in Tabs :
    /\ tab[t].shown # None => Newest(t, tab[t].shown.run)
    /\ tab[t].running <=> controller[t] \in Live(t) \ stopped

(* A history read is for a tab, of a step of a walk or of none.  One that a run
   waits for is the only one it waits for, and the run has had its answer. *)
ListInv ==
  /\ \A i \in Lists : list[i].phase \in {"sent", "answered"} =>
       list[i].tab \in Tabs /\ list[i].walk \in {"previous", "next", None}
  /\ \A i \in Lists : list[i].for \in Runs =>
       /\ list[i].phase \in {"sent", "answered"}
       /\ run[list[i].for].phase \in {"settling", "listing"}
  /\ \A i, j \in Lists : list[i].for \in Runs /\ list[i].for = list[j].for => i = j

(* An owner is the newest run of its tab, and not over. *)
OwnerIsNewest ==
  \A t \in Tabs : controller[t] # None =>
    Newest(t, controller[t]) /\ run[controller[t]].phase \in {"sent", "settling", "listing"}

IInv == TabShape /\ RunShape /\ ListShape /\ OrderInv /\ OwnerInv /\ StoppedInv /\ ShownInv /\ ListInv
-----------------------------------------------------------------------------
(* What a session, an editor or a list does leaves the runs, their owners and
   what is shown alone. *)
LEMMA RunsUntouched ==
  ASSUME IInv, controller' = controller, stopped' = stopped,
         \A r \in Runs : run'[r].tab = run[r].tab /\ run'[r].phase = run[r].phase,
         \A t \in Tabs : tab'[t].shown = tab[t].shown /\ tab'[t].running = tab[t].running
  PROVE OrderInv' /\ OwnerInv' /\ StoppedInv' /\ ShownInv'
<1> USE DEF IInv, RunsOf
<1>1. \A t \in Tabs : Live(t)' = Live(t)
  BY DEF Live
<1>2. \A t \in Tabs : \A r : Newest(t, r)' <=> Newest(t, r)
  BY DEF Newest
<1>3. OrderInv'
  BY DEF OrderInv
<1>4. OwnerInv'
  <2>1. \A t \in Tabs : controller[t] # None => controller[t] \in Runs
    BY DEF RunShape
  <2>2. QED
    BY <1>1, <1>2, <2>1 DEF OwnerInv
<1>5. StoppedInv'
  BY DEF StoppedInv
<1>6. ShownInv'
  BY <1>1, <1>2 DEF ShownInv
<1>7. QED
  BY <1>3, <1>4, <1>5, <1>6

(* The owner of a tab has its answer, its error or its cancel, and the tab
   shows it; it gives the tab up, or goes on to refresh the open panel. *)
LEMMA OwnerEnds ==
  ASSUME IInv, NEW r \in Runs, run[r].phase = "sent", controller[run[r].tab] = r,
         \A x \in Runs : run'[x].tab = run[x].tab,
         \A x \in Runs \ {r} : run'[x].phase = run[x].phase,
         \/ run'[r].phase \in {"settling", "listing"} /\ controller' = controller
         \/ run'[r].phase = "done" /\ controller' = [controller EXCEPT ![run[r].tab] = None],
         stopped' = stopped,
         \A t \in Tabs \ {run[r].tab} :
            tab'[t].shown = tab[t].shown /\ tab'[t].running = tab[t].running,
         tab'[run[r].tab].running = FALSE, tab'[run[r].tab].shown.run = r
  PROVE OrderInv' /\ OwnerInv' /\ StoppedInv' /\ ShownInv'
<1> USE DEF IInv, RunsOf
<1>1. run[r].tab \in Tabs
  BY DEF OrderInv
<1>2. \A t \in Tabs : Live(t)' = Live(t) \ {r}
  BY DEF Live
<1>3. \A t \in Tabs : \A x : Newest(t, x)' <=> Newest(t, x)
  BY DEF Newest
<1>4. Newest(run[r].tab, r)
  BY <1>1, ConsoleAssumption DEF OwnerInv
<1>5. OrderInv'
  BY DEF OrderInv
<1>6. OwnerInv'
  BY <1>1, <1>2, <1>3, <1>4 DEF OwnerInv, RunShape, Newest
<1>7. StoppedInv'
  BY DEF StoppedInv
<1>8. ShownInv'
  <2>1. \A t \in Tabs \ {run[r].tab} : controller[t] # r /\ controller'[t] = controller[t]
    BY ConsoleAssumption DEF OwnerInv, Newest, RunShape
  <2>2. controller'[run[r].tab] \notin Live(run[r].tab)'
    BY <1>1, <1>2, ConsoleAssumption DEF RunShape, Live
  <2>3. QED
    BY <1>1, <1>2, <1>3, <1>4, <2>1, <2>2 DEF ShownInv
<1>9. QED
  BY <1>5, <1>6, <1>7, <1>8

(* A step of a walk keeps the shape of the tab, and what does not belong to the
   editor. *)
LEMMA WalkedKeeps ==
  ASSUME NEW b, NEW direction, DOMAIN b = TabFields, b.cursor \in Int, b.cursor >= -1
  PROVE /\ DOMAIN Walked(b, direction) = TabFields
        /\ Walked(b, direction).cursor \in Int /\ Walked(b, direction).cursor >= -1
        /\ Walked(b, direction).running = b.running /\ Walked(b, direction).shown = b.shown
<1>1. Cursor(b, direction) \in Int
  BY DEF Cursor
<1>2. QED
  BY <1>1 DEF Walked


(* What the editor makes of a step leaves the rest of the tab as it is. *)
LEMMA SyncedKeeps ==
  ASSUME NEW b, NEW before, DOMAIN b = TabFields, b.running \in BOOLEAN, b.cursor \in Int, b.cursor >= -1
  PROVE /\ DOMAIN Synced(b, before) = TabFields
        /\ Synced(b, before).shown = b.shown /\ Synced(b, before).running = b.running
        /\ Synced(b, before).cursor \in Int /\ Synced(b, before).cursor >= -1
BY DEF Synced, TabFields

(* A run that had its history gives its tab up, if it still has it. *)
LEMMA WaiterEnds ==
  ASSUME IInv, NEW r \in Runs, run[r].phase \in {"settling", "listing"},
         run' = Finished(r), controller' = Released(r), stopped' = stopped,
         \A t \in Tabs : tab'[t].shown = tab[t].shown /\ tab'[t].running = tab[t].running
  PROVE OrderInv' /\ OwnerInv' /\ StoppedInv' /\ ShownInv'
<1> USE DEF IInv, RunsOf
<1>1. run[r].tab \in Tabs
  BY DEF OrderInv
<1>2. /\ \A x \in Runs : run'[x].tab = run[x].tab /\ (x # r => run'[x].phase = run[x].phase)
      /\ run'[r].phase = "done"
      /\ controller' = [controller EXCEPT ![run[r].tab] = IF @ = r THEN None ELSE @]
  BY DEF RunShape, Finished, Released
<1>3. \A t \in Tabs : Live(t)' = Live(t) /\ r \notin Live(t)
  BY <1>2 DEF Live
<1>4. \A t \in Tabs : \A x : Newest(t, x)' <=> Newest(t, x)
  BY <1>2 DEF Newest
<1>5. OrderInv'
  BY <1>2 DEF OrderInv
<1>6. \A t \in Tabs : \/ controller'[t] = controller[t]
                      \/ controller[t] = r /\ controller'[t] = None
  <2>1. controller \in [Tabs -> Runs \cup {None}]
    BY DEF RunShape
  <2>2. QED
    BY <1>1, <1>2, <2>1
<1>7. OwnerInv'
  <2>1. \A t \in Tabs : controller'[t] # None => controller'[t] = controller[t] /\ controller[t] # r
    BY <1>1, <1>2, <1>6 DEF OwnerInv, Newest, RunShape
  <2>2. \A t \in Tabs : controller[t] \in Runs \cup {None}
    BY DEF RunShape
  <2>3. QED
    BY <1>2, <1>3, <1>4, <1>6, <2>1, <2>2 DEF OwnerInv
<1>8. StoppedInv'
  BY <1>2 DEF StoppedInv
<1>9. ShownInv'
  <2>1. \A t \in Tabs : None \notin Live(t)
    BY ConsoleAssumption DEF Live
  <2>2. QED
    BY <1>3, <1>4, <1>6, <2>1 DEF ShownInv
<1>10. QED
  BY <1>5, <1>7, <1>8, <1>9

LEMMA StartRunPreserves ==
  ASSUME IInv, NEW t \in Tabs, NEW kind, NEW command, StartRun(t, kind, command)
  PROVE IInv'
<1> USE DEF IInv, clientVars, serverVars, ghosts, StartRun, Unused, NoRun
<1>1. TabShape'
  <2>1. DOMAIN tab' = Tabs
    BY DEF TabShape
  <2>2. \A x \in Tabs \ {t} : tab'[x] = tab[x]
    BY DEF TabShape
  <2>3. DOMAIN tab'[t] = TabFields /\ tab'[t].running = TRUE /\ tab'[t].cursor = tab[t].cursor
    BY DEF TabShape
  <2>4. QED
    BY <2>1, <2>2, <2>3 DEF TabShape
<1>2. RunShape'
  BY DEF RunShape
<1>3. ListShape'
  BY DEF ListShape
<1>4. OrderInv' /\ OwnerInv'
  <2>0. PICK r \in Unused(run) :
          /\ run' = [run EXCEPT ![r] = [NoRun EXCEPT !.tab = t, !.kind = kind, !.command = command,
                                                     !.phase = "sent"]]
          /\ controller' = [controller EXCEPT ![t] = r]
    OBVIOUS
  <2>1. /\ r \in Runs /\ run[r].phase = "new" /\ \A x \in 1..(r - 1) : run[x].phase # "new"
        /\ run'[r].phase = "sent" /\ run'[r].tab = t
        /\ \A x \in Runs \ {r} : run'[x] = run[x]
        /\ controller' = [controller EXCEPT ![t] = r]
    BY <2>0 DEF RunShape
  <2>2. \A x \in Runs : run[x].phase # "new" => x < r
    BY <2>1 DEF OrderInv, Runs
  <2>3. \A x \in Tabs \ {t} : RunsOf(x)' = RunsOf(x) /\ Live(x)' = Live(x)
    BY <2>1, ConsoleAssumption DEF OrderInv, RunsOf, Live
  <2>4. \A x \in RunsOf(t)' : x <= r
    BY <2>1, <2>2, ConsoleAssumption DEF OrderInv, RunsOf, Runs
  <2>5. OrderInv'
    BY <2>1, <2>2 DEF OrderInv, Runs
  <2>6. Newest(t, r)' /\ \A x : Newest(t, x)' => x = r
    BY <2>1, <2>4 DEF Newest, RunsOf, Runs
  <2>7. \A x \in Tabs \ {t} : \A y : Newest(x, y)' <=> Newest(x, y)
    BY <2>3 DEF Newest
  <2>8. OwnerInv'
    BY <2>1, <2>3, <2>6, <2>7 DEF OwnerInv, RunShape
  <2>9. QED
    BY <2>5, <2>8

<1>6. StoppedInv'
  BY DEF StoppedInv
<1>7. ShownInv'
  BY ConsoleAssumption DEF TabShape, RunShape, OrderInv, StoppedInv, ShownInv, Newest, RunsOf,
     Live
<1>8. ListInv'
  BY DEF ListInv
<1>10. QED
  BY <1>1, <1>2, <1>3, <1>4, <1>6, <1>7, <1>8

LEMMA StopPreserves ==
  ASSUME IInv, NEW t \in Tabs, Stop(t)
  PROVE IInv'
<1> USE DEF IInv, clientVars, serverVars, ghosts, Stop
<1>1. TabShape'
  BY DEF TabShape, TabFields
<1>2. RunShape'
  BY DEF RunShape
<1>3. ListShape'
  BY DEF ListShape
<1>4. OrderInv'
  BY DEF OrderInv
<1>5. OwnerInv'
  BY DEF OwnerInv, Newest, RunsOf, Live
<1>6. StoppedInv'
  BY DEF StoppedInv, ShownInv, Live
<1>7. ShownInv'
  BY DEF TabShape, ShownInv, Newest, RunsOf, Live
<1>8. ListInv'
  BY DEF ListInv
<1>10. QED
  BY <1>1, <1>2, <1>3, <1>4, <1>5, <1>6, <1>7, <1>8

LEMMA OvertakenPreserves ==
  ASSUME IInv, NEW r \in Runs, Overtaken(r)
  PROVE IInv'
<1> USE DEF IInv, clientVars, serverVars, ghosts, Overtaken, IsCurrentRun, Finished
<1>1. TabShape'
  BY DEF TabShape
<1>2. RunShape'
  BY DEF RunShape
<1>3. ListShape'
  BY DEF ListShape
<1>4. OrderInv'
  BY DEF OrderInv
<1>5. OwnerInv'
  BY DEF OwnerInv, Newest, RunsOf, Live
<1>6. StoppedInv'
  BY DEF StoppedInv
<1>7. ShownInv'
  BY DEF ShownInv, Newest, RunsOf, Live
<1>8. ListInv'
  BY DEF ListInv
<1>10. QED
  BY <1>1, <1>2, <1>3, <1>4, <1>5, <1>6, <1>7, <1>8

(* Showing how a run ended touches its tab only, and neither its editor nor its
   walk through the history. *)
LEMMA ShowsOneTab ==
  ASSUME TabShape, NEW r \in Runs, run[r].tab \in Tabs, NEW failed, NEW canceled,
         tab' = Show(r, failed, canceled)
  PROVE /\ TabShape'
        /\ \A x \in Tabs \ {run[r].tab} : tab'[x] = tab[x]
        /\ tab'[run[r].tab].running = FALSE /\ tab'[run[r].tab].shown.run = r
<1> DEFINE t == run[r].tab
<1>1. DOMAIN tab' = Tabs /\ \A x \in Tabs \ {t} : tab'[x] = tab[x]
  BY DEF Show, TabShape
<1>2. /\ DOMAIN tab'[t] = TabFields
      /\ tab'[t].running = FALSE /\ tab'[t].shown = [run |-> r, canceled |-> canceled]
      /\ tab'[t].cursor = tab[t].cursor /\ tab'[t].draft = tab[t].draft
  BY DEF Show, TabShape, TabFields
<1>3. TabShape'
  <2>1. SUFFICES ASSUME NEW x \in Tabs
                 PROVE /\ DOMAIN tab'[x] = TabFields
                       /\ tab'[x].running \in BOOLEAN /\ tab'[x].cursor \in Int /\ tab'[x].cursor >= -1
    BY <1>1 DEF TabShape
  <2>2. CASE x = t
    BY <1>2, <2>2 DEF TabShape
  <2>3. CASE x # t
    BY <1>1, <2>3 DEF TabShape
  <2>4. QED BY <2>2, <2>3
<1>4. QED
  BY <1>1, <1>2, <1>3

LEMMA AnsweredPreserves ==
  ASSUME IInv, NEW r \in Runs, Answered(r)
  PROVE IInv'
<1> USE DEF IInv, clientVars, serverVars, ghosts, Answered, Owns, IsCurrentRun, Finished, Released, Show
<1>1. TabShape'
  BY DEF TabShape, TabFields
<1>2. RunShape'
  BY DEF RunShape
<1>3. ListShape'
  BY DEF ListShape
<1>4. OrderInv' /\ OwnerInv' /\ StoppedInv' /\ ShownInv'
  <2>1. run[r].tab \in Tabs /\ run[r].phase = "sent" /\ controller[run[r].tab] = r
    BY DEF OrderInv
  <2>2. \A x \in Tabs \ {run[r].tab} : tab'[x] = tab[x]
    BY DEF TabShape
  <2>3. tab'[run[r].tab].running = FALSE /\ tab'[run[r].tab].shown.run = r
    BY <2>1 DEF TabShape, TabFields
  <2>4. \A x \in Runs : run'[x].tab = run[x].tab /\ (x # r => run'[x].phase = run[x].phase)
    BY DEF RunShape
  <2>5. \/ run'[r].phase = "listing" /\ controller' = controller
        \/ run'[r].phase = "done" /\ controller' = [controller EXCEPT ![run[r].tab] = None]
    BY <2>1 DEF RunShape
  <2>6. QED
    BY <2>1, <2>2, <2>3, <2>4, <2>5, OwnerEnds
<1>5. ListInv'
  BY DEF ListInv, RunShape
<1>7. QED
  BY <1>1, <1>2, <1>3, <1>4, <1>5

LEMMA RunLostPreserves ==
  ASSUME IInv, NEW r \in Runs, RunLost(r)
  PROVE IInv'
<1> USE DEF IInv, clientVars, serverVars, ghosts, RunLost, Owns, IsCurrentRun, Finished, Released, Show
<1>1. TabShape'
  BY DEF TabShape, TabFields
<1>2. RunShape'
  BY DEF RunShape
<1>3. ListShape'
  BY DEF ListShape
<1>4. OrderInv' /\ OwnerInv' /\ StoppedInv' /\ ShownInv'
  <2>1. run[r].tab \in Tabs /\ run[r].phase = "sent" /\ controller[run[r].tab] = r
    BY DEF OrderInv
  <2>2. \A x \in Tabs \ {run[r].tab} : tab'[x] = tab[x]
    BY DEF TabShape
  <2>3. tab'[run[r].tab].running = FALSE /\ tab'[run[r].tab].shown.run = r
    BY <2>1 DEF TabShape
  <2>4. \A x \in Runs : run'[x].tab = run[x].tab /\ (x # r => run'[x].phase = run[x].phase)
    OBVIOUS
  <2>5. run'[r].phase = "done" /\ controller' = [controller EXCEPT ![run[r].tab] = None]
    BY <2>1 DEF RunShape
  <2>6. QED
    BY <2>1, <2>2, <2>3, <2>4, <2>5, OwnerEnds
<1>5. ListInv'
  BY DEF ListInv
<1>7. QED
  BY <1>1, <1>2, <1>3, <1>4, <1>5

LEMMA AbortedPreserves ==
  ASSUME IInv, NEW r \in Runs, Aborted(r)
  PROVE IInv'
<1> USE DEF IInv, clientVars, serverVars, ghosts, Aborted, Owns, IsCurrentRun, Finished, Released
<1>0. /\ TabShape'
      /\ \A x \in Tabs \ {run[r].tab} : tab'[x] = tab[x]
      /\ tab'[run[r].tab].running = FALSE /\ tab'[run[r].tab].shown.run = r
  <2>1. run[r].tab \in Tabs
    BY DEF OrderInv
  <2>2. QED
    BY <2>1, ShowsOneTab
<1>2. RunShape'
  BY DEF RunShape
<1>3. ListShape'
  BY DEF ListShape
<1>4. OrderInv' /\ OwnerInv' /\ StoppedInv' /\ ShownInv'
  <2>1. run[r].tab \in Tabs /\ run[r].phase = "sent" /\ controller[run[r].tab] = r
    BY DEF OrderInv
  <2>2. \A x \in Runs : run'[x].tab = run[x].tab /\ (x # r => run'[x].phase = run[x].phase)
    BY DEF RunShape
  <2>3. \/ run'[r].phase = "settling" /\ controller' = controller
        \/ run'[r].phase = "done" /\ controller' = [controller EXCEPT ![run[r].tab] = None]
    BY <2>1 DEF RunShape
  <2>4. QED
    BY <1>0, <2>1, <2>2, <2>3, OwnerEnds
<1>5. ListInv'
  BY DEF ListInv, RunShape
<1>6. QED
  BY <1>0, <1>2, <1>3, <1>4, <1>5

LEMMA PlanEndsPreserves ==
  ASSUME IInv, NEW r \in Runs, NEW kind, PlanEnds(r, kind)
  PROVE IInv'
<1> USE DEF IInv, clientVars, serverVars, ghosts, PlanEnds, Owns, IsCurrentRun, Finished, Released
<1>0. /\ TabShape'
      /\ \A x \in Tabs \ {run[r].tab} : tab'[x] = tab[x]
      /\ tab'[run[r].tab].running = FALSE /\ tab'[run[r].tab].shown.run = r
  <2>1. run[r].tab \in Tabs
    BY DEF OrderInv
  <2>2. PICK failed, canceled : tab' = Show(r, failed, canceled)
    OBVIOUS
  <2>3. QED
    BY <2>1, <2>2, ShowsOneTab
<1>2. RunShape'
  BY DEF RunShape
<1>3. ListShape'
  BY DEF ListShape
<1>4. OrderInv' /\ OwnerInv' /\ StoppedInv' /\ ShownInv'
  <2>1. run[r].tab \in Tabs /\ run[r].phase = "sent" /\ controller[run[r].tab] = r
    BY DEF OrderInv
  <2>2. \A x \in Runs : run'[x].tab = run[x].tab /\ (x # r => run'[x].phase = run[x].phase)
    BY DEF RunShape
  <2>3. run'[r].phase = "done" /\ controller' = [controller EXCEPT ![run[r].tab] = None]
    BY <2>1 DEF RunShape
  <2>4. QED
    BY <1>0, <2>1, <2>2, <2>3, OwnerEnds
<1>5. ListInv'
  BY DEF ListInv, RunShape
<1>6. QED
  BY <1>0, <1>2, <1>3, <1>4, <1>5

LEMMA RefreshTransactionPreserves ==
  ASSUME IInv, NEW t \in Tabs, RefreshTransaction(t)
  PROVE IInv'
<1> USE DEF IInv, clientVars, serverVars, ghosts, RefreshTransaction
<1>1. TabShape'
  BY DEF TabShape
<1>2. RunShape'
  BY DEF RunShape
<1>3. ListShape'
  BY DEF ListShape
<1>4. OrderInv' /\ OwnerInv' /\ StoppedInv' /\ ShownInv'
  BY RunsUntouched
<1>5. ListInv'
  BY DEF ListInv
<1>7. QED
  BY <1>1, <1>2, <1>3, <1>4, <1>5

LEMMA TransactionReadPreserves ==
  ASSUME IInv, NEW i \in Reads, TransactionRead(i)
  PROVE IInv'
<1> USE DEF IInv, clientVars, serverVars, ghosts, TransactionRead
<1>1. TabShape'
  BY DEF TabShape, TabFields
<1>2. RunShape'
  BY DEF RunShape
<1>3. ListShape'
  BY DEF ListShape
<1>4. OrderInv' /\ OwnerInv' /\ StoppedInv' /\ ShownInv'
  BY RunsUntouched DEF TabShape, TabFields
<1>5. ListInv'
  BY DEF ListInv
<1>7. QED
  BY <1>1, <1>2, <1>3, <1>4, <1>5

LEMMA ReadLostPreserves ==
  ASSUME IInv, NEW i \in Reads, ReadLost(i)
  PROVE IInv'
<1> USE DEF IInv, clientVars, serverVars, ghosts, ReadLost
<1>1. TabShape'
  BY DEF TabShape
<1>2. RunShape'
  BY DEF RunShape
<1>3. ListShape'
  BY DEF ListShape
<1>4. OrderInv' /\ OwnerInv' /\ StoppedInv' /\ ShownInv'
  BY RunsUntouched
<1>5. ListInv'
  BY DEF ListInv
<1>7. QED
  BY <1>1, <1>2, <1>3, <1>4, <1>5

LEMMA DismissPreserves ==
  ASSUME IInv, NEW t \in Tabs, Dismiss(t)
  PROVE IInv'
<1> USE DEF IInv, clientVars, serverVars, ghosts, Dismiss
<1>1. TabShape'
  BY DEF TabShape
<1>2. RunShape'
  BY DEF RunShape
<1>3. ListShape'
  BY DEF ListShape
<1>4. OrderInv' /\ OwnerInv' /\ StoppedInv' /\ ShownInv'
  BY RunsUntouched
<1>5. ListInv'
  BY DEF ListInv
<1>7. QED
  BY <1>1, <1>2, <1>3, <1>4, <1>5

LEMMA TogglePanelPreserves ==
  ASSUME IInv, NEW t \in Tabs, TogglePanel(t)
  PROVE IInv'
<1> USE DEF IInv, clientVars, serverVars, ghosts, TogglePanel
<1>1. TabShape'
  BY DEF TabShape
<1>2. RunShape'
  BY DEF RunShape
<1>3. ListShape'
  BY DEF ListShape
<1>4. OrderInv' /\ OwnerInv' /\ StoppedInv' /\ ShownInv'
  BY RunsUntouched
<1>5. ListInv'
  BY DEF ListInv
<1>7. QED
  BY <1>1, <1>2, <1>3, <1>4, <1>5

LEMMA SetHistorySearchPreserves ==
  ASSUME IInv, NEW t \in Tabs, NEW search, SetHistorySearch(t, search)
  PROVE IInv'
<1> USE DEF IInv, clientVars, serverVars, ghosts, SetHistorySearch
<1>1. TabShape'
  BY DEF TabShape
<1>2. RunShape'
  BY DEF RunShape
<1>3. ListShape'
  BY DEF ListShape
<1>4. OrderInv' /\ OwnerInv' /\ StoppedInv' /\ ShownInv'
  BY RunsUntouched
<1>5. ListInv'
  BY DEF ListInv
<1>7. QED
  BY <1>1, <1>2, <1>3, <1>4, <1>5

LEMMA PanelFetchesPreserves ==
  ASSUME IInv, NEW t \in Tabs, PanelFetches(t)
  PROVE IInv'
<1> USE DEF IInv, clientVars, serverVars, ghosts, PanelFetches, FetchHistory, Listing, Loading, NoList, Unused
<1>1. TabShape'
  BY DEF TabShape
<1>2. RunShape'
  BY DEF RunShape
<1>3. ListShape'
  BY DEF ListShape
<1>4. OrderInv' /\ OwnerInv' /\ StoppedInv' /\ ShownInv'
  BY RunsUntouched
<1>5. ListInv'
  BY ConsoleAssumption DEF ListInv
<1>7. QED
  BY <1>1, <1>2, <1>3, <1>4, <1>5

LEMMA RunFetchesPreserves ==
  ASSUME IInv, NEW r \in Runs, RunFetches(r)
  PROVE IInv'
<1> USE DEF IInv, clientVars, serverVars, ghosts, RunFetches, FetchHistory, Listing, Loading, NoList, Unused
<1>1. TabShape'
  BY DEF TabShape
<1>2. RunShape'
  BY DEF RunShape
<1>3. ListShape'
  BY DEF ListShape
<1>4. OrderInv' /\ OwnerInv' /\ StoppedInv' /\ ShownInv'
  BY RunsUntouched
<1>5. ListInv'
  <2>1. PICK k \in Lists : /\ list[k].phase = "new"
                           /\ list' = [list EXCEPT ![k] = Listing(run[r].tab, r, None)]
    BY DEF ListShape
  <2>2. list'[k].for = r /\ list'[k].phase = "sent" /\ list'[k].tab = run[r].tab /\ list'[k].walk = None
    BY <2>1
  <2>3. \A x \in Lists \ {k} : list'[x] = list[x]
    BY <2>1
  <2>4. run[r].tab \in Tabs
    BY DEF OrderInv
  <2>5. \A x \in Lists \ {k} : list[x].for # r
    BY DEF ListInv
  <2>6. QED
    BY <2>2, <2>3, <2>4, <2>5 DEF ListInv
<1>7. QED
  BY <1>1, <1>2, <1>3, <1>4, <1>5

LEMMA ListServedPreserves ==
  ASSUME IInv, NEW i \in Lists, ListServed(i)
  PROVE IInv'
<1> USE DEF IInv, clientVars, serverVars, ghosts, ListServed
<1>1. TabShape'
  BY DEF TabShape
<1>2. RunShape'
  BY DEF RunShape
<1>3. ListShape'
  BY DEF ListShape
<1>4. OrderInv' /\ OwnerInv' /\ StoppedInv' /\ ShownInv'
  BY RunsUntouched
<1>5. ListInv'
  BY DEF ListInv, ListShape
<1>7. QED
  BY <1>1, <1>2, <1>3, <1>4, <1>5

LEMMA ListArrivesPreserves ==
  ASSUME IInv, NEW i \in Lists, ListArrives(i)
  PROVE IInv'
<1> USE DEF IInv, clientVars, serverVars, ghosts, ListArrives, ListSettles, NoList
<1>0. list[i].phase \in {"sent", "answered"} /\ list[i].tab \in Tabs
      /\ list[i].walk \in {"previous", "next", None}
  BY DEF ListInv
<1> DEFINE t == list[i].tab
           kept == [tab[t] EXCEPT !.loading = FALSE, !.refused = TRUE]
           given == [tab[t] EXCEPT !.history = list[i].answer, !.loading = FALSE, !.refused = FALSE]
<1>a. \E b \in {kept, given} : WalkGoesOn(t, b, list[i].walk)
  BY <1>0
<1>b. \A b \in {kept, given} :
        DOMAIN b = TabFields /\ b.cursor = tab[t].cursor /\ b.editor = tab[t].editor
        /\ b.draft = tab[t].draft /\ b.running = tab[t].running /\ b.shown = tab[t].shown
  BY <1>0 DEF TabShape, TabFields
<1>c. PICK b \in {kept, given} : WalkGoesOn(t, b, list[i].walk)
  BY <1>a
<1>d. PICK w \in {Walked(b, list[i].walk), Synced(Walked(b, list[i].walk), b)} : tab' = [tab EXCEPT ![t] = w]
  BY <1>c DEF WalkGoesOn
<1> HIDE DEF kept, given
<1>e. /\ tab'[t] = w /\ DOMAIN tab' = Tabs /\ \A x \in Tabs \ {t} : tab'[x] = tab[x]
      /\ DOMAIN w = TabFields /\ w.running = tab[t].running /\ w.shown = tab[t].shown
      /\ w.cursor \in Int /\ w.cursor >= -1
  <2>1. /\ DOMAIN b = TabFields /\ b.cursor \in Int /\ b.cursor >= -1 /\ b.running \in BOOLEAN
        /\ b.running = tab[t].running /\ b.shown = tab[t].shown
    BY <1>0, <1>b DEF TabShape
  <2>2. QED
    BY <1>0, <1>d, <2>1, WalkedKeeps, SyncedKeeps DEF TabShape
<1>1. TabShape'
  BY <1>0, <1>e DEF TabShape
<1>2. RunShape'
  BY ZenonT(60) DEF RunShape, Finished, Released
<1>3. ListShape'
  BY DEF ListShape
<1>4. OrderInv' /\ OwnerInv' /\ StoppedInv' /\ ShownInv'
  <2>2. \A x \in Tabs : tab'[x].shown = tab[x].shown /\ tab'[x].running = tab[x].running
    BY <1>e
  <2>3. CASE run' = run /\ controller' = controller
    BY <2>2, <2>3, RunsUntouched
  <2>4. CASE ~(run' = run /\ controller' = controller)
    <3>1. list[i].for \in Runs /\ run[list[i].for].phase \in {"settling", "listing"}
      BY <2>4 DEF ListInv
    <3>2. run' = Finished(list[i].for) /\ controller' = Released(list[i].for)
      BY <2>4
    <3>3. QED
      BY <2>2, <3>1, <3>2, WaiterEnds
  <2>5. QED
    BY <2>3, <2>4



<1>8. ListInv'
  <2>1. list'[i].for = None /\ list'[i].phase = "done" /\ \A x \in Lists \ {i} : list'[x] = list[x]
    BY DEF ListShape
  <2>2. \A x \in Runs \ {list[i].for} : run'[x].phase = run[x].phase
    BY DEF RunShape, Finished
  <2>3. \A x \in Lists \ {i} : list[x].for \in Runs => list[x].for # list[i].for
    BY DEF ListInv
  <2>4. None \notin Runs
    BY ConsoleAssumption
  <2>5. QED
    BY SMTT(60), <2>1, <2>2, <2>3, <2>4 DEF ListInv
<1>10. QED
  BY <1>1, <1>2, <1>3, <1>4, <1>8

LEMMA ClearHistoryPreserves ==
  ASSUME IInv, NEW t \in Tabs, ClearHistory(t)
  PROVE IInv'
<1> USE DEF IInv, clientVars, serverVars, ghosts, ClearHistory
<1>1. TabShape'
  BY DEF TabShape
<1>2. RunShape'
  BY DEF RunShape
<1>3. ListShape'
  BY DEF ListShape
<1>4. OrderInv' /\ OwnerInv' /\ StoppedInv' /\ ShownInv'
  BY RunsUntouched DEF TabShape
<1>5. ListInv'
  BY DEF ListInv
<1>7. QED
  BY <1>1, <1>2, <1>3, <1>4, <1>5

LEMMA SetEditorPreserves ==
  ASSUME IInv, NEW t \in Tabs, NEW text, SetEditor(t, text)
  PROVE IInv'
<1> USE DEF IInv, clientVars, serverVars, ghosts, SetEditor
<1>1. TabShape'
  BY DEF TabShape
<1>2. RunShape'
  BY DEF RunShape
<1>3. ListShape'
  BY DEF ListShape
<1>4. OrderInv' /\ OwnerInv' /\ StoppedInv' /\ ShownInv'
  BY RunsUntouched DEF TabShape
<1>5. ListInv'
  BY DEF ListInv
<1>7. QED
  BY <1>1, <1>2, <1>3, <1>4, <1>5

LEMMA NavigatePreserves ==
  ASSUME IInv, NEW t \in Tabs, NEW direction \in {"previous", "next"}, Navigate(t, direction)
  PROVE IInv'
<1> USE DEF IInv, clientVars, serverVars, ghosts, Navigate, FetchHistory, Listing, Loading, NoList, Unused
<1>0. \/ tab' = Loading(t)
      \/ tab' = [tab EXCEPT ![t] = Synced(Walked(@, direction), @)]
  OBVIOUS
<1>1. TabShape' /\ \A x \in Tabs : tab'[x].shown = tab[x].shown /\ tab'[x].running = tab[x].running
  <2>1. CASE tab' = Loading(t)
    BY <2>1 DEF TabShape
  <2>2. CASE tab' = [tab EXCEPT ![t] = Synced(Walked(@, direction), @)]
    <3>1. /\ tab'[t] = Synced(Walked(tab[t], direction), tab[t]) /\ DOMAIN tab' = Tabs
          /\ \A x \in Tabs \ {t} : tab'[x] = tab[x]
          /\ tab[t].cursor \in Int /\ tab[t].cursor >= -1 /\ tab[t].running \in BOOLEAN
          /\ DOMAIN tab[t] = TabFields
      BY <2>2 DEF TabShape
    <3>2. QED
      BY <3>1, WalkedKeeps, SyncedKeeps DEF TabShape
  <2>3. QED
    BY <1>0, <2>1, <2>2
<1>2. RunShape'
  BY DEF RunShape
<1>3. ListShape'
  BY DEF ListShape
<1>4. OrderInv' /\ OwnerInv' /\ StoppedInv' /\ ShownInv'
  BY <1>1, RunsUntouched
<1>5. ListInv'
  <2>1. CASE list' = list
    BY <2>1 DEF ListInv
  <2>2. CASE FetchHistory(t, None, direction)
    <3>1. PICK k \in Lists : list' = [list EXCEPT ![k] = Listing(t, None, direction)]
      BY <2>2 DEF ListShape
    <3>2. /\ list'[k].for = None /\ list'[k].tab = t /\ list'[k].walk = direction
          /\ list'[k].phase = "sent"
      BY <3>1 DEF ListShape
    <3>3. \A x \in Lists \ {k} : list'[x] = list[x]
      BY <3>1
    <3>4. QED
      BY <3>2, <3>3, ConsoleAssumption DEF ListInv
  <2>3. QED
    BY <2>1, <2>2
<1>7. QED
  BY <1>1, <1>2, <1>3, <1>4, <1>5

LEMMA ServePreserves ==
  ASSUME IInv, NEW t \in Tabs, NEW tx, Serve(t, tx)
  PROVE IInv'
<1> USE DEF IInv, clientVars, serverVars, ghosts, Serve
<1>1. TabShape'
  BY DEF TabShape
<1>2. RunShape'
  BY DEF RunShape
<1>3. ListShape'
  BY DEF ListShape
<1>4. OrderInv' /\ OwnerInv' /\ StoppedInv' /\ ShownInv'
  BY RunsUntouched
<1>5. ListInv'
  BY DEF ListInv
<1>7. QED
  BY <1>1, <1>2, <1>3, <1>4, <1>5

LEMMA RefusePreserves ==
  ASSUME IInv, NEW t \in Tabs, NEW tx, Refuse(t, tx)
  PROVE IInv'
<1> USE DEF IInv, clientVars, serverVars, ghosts, Refuse
<1>1. TabShape'
  BY DEF TabShape
<1>2. RunShape'
  BY DEF RunShape
<1>3. ListShape'
  BY DEF ListShape
<1>4. OrderInv' /\ OwnerInv' /\ StoppedInv' /\ ShownInv'
  BY RunsUntouched
<1>5. ListInv'
  BY DEF ListInv
<1>7. QED
  BY <1>1, <1>2, <1>3, <1>4, <1>5

LEMMA ServePlanPreserves ==
  ASSUME IInv, NEW r \in Runs, NEW failed, ServePlan(r, failed)
  PROVE IInv'
<1> USE DEF IInv, clientVars, serverVars, ghosts, ServePlan
<1>1. TabShape'
  BY DEF TabShape
<1>2. RunShape'
  BY DEF RunShape
<1>3. ListShape'
  BY DEF ListShape
<1>4. OrderInv' /\ OwnerInv' /\ StoppedInv' /\ ShownInv'
  BY RunsUntouched
<1>5. ListInv'
  BY DEF ListInv
<1>7. QED
  BY <1>1, <1>2, <1>3, <1>4, <1>5

LEMMA ServeStatePreserves ==
  ASSUME IInv, NEW t \in Tabs, ServeState(t)
  PROVE IInv'
<1> USE DEF IInv, clientVars, serverVars, ghosts, ServeState
<1>1. TabShape'
  BY DEF TabShape
<1>2. RunShape'
  BY DEF RunShape
<1>3. ListShape'
  BY DEF ListShape
<1>4. OrderInv' /\ OwnerInv' /\ StoppedInv' /\ ShownInv'
  BY RunsUntouched
<1>5. ListInv'
  BY DEF ListInv
<1>7. QED
  BY <1>1, <1>2, <1>3, <1>4, <1>5

LEMMA ServeEndPreserves ==
  ASSUME IInv, NEW t \in Tabs, ServeEnd(t)
  PROVE IInv'
<1> USE DEF IInv, clientVars, serverVars, ghosts, ServeEnd
<1>1. TabShape'
  BY DEF TabShape
<1>2. RunShape'
  BY DEF RunShape
<1>3. ListShape'
  BY DEF ListShape
<1>4. OrderInv' /\ OwnerInv' /\ StoppedInv' /\ ShownInv'
  BY RunsUntouched
<1>5. ListInv'
  BY DEF ListInv
<1>7. QED
  BY <1>1, <1>2, <1>3, <1>4, <1>5

LEMMA ExpirePreserves ==
  ASSUME IInv, NEW t \in Tabs, Expire(t)
  PROVE IInv'
<1> USE DEF IInv, clientVars, serverVars, ghosts, Expire
<1>1. TabShape'
  BY DEF TabShape
<1>2. RunShape'
  BY DEF RunShape
<1>3. ListShape'
  BY DEF ListShape
<1>4. OrderInv' /\ OwnerInv' /\ StoppedInv' /\ ShownInv'
  BY RunsUntouched
<1>5. ListInv'
  BY DEF ListInv
<1>7. QED
  BY <1>1, <1>2, <1>3, <1>4, <1>5

LEMMA ForeignRunPreserves ==
  ASSUME IInv, ForeignRun
  PROVE IInv'
<1> USE DEF IInv, clientVars, serverVars, ghosts, ForeignRun
<1>1. TabShape'
  BY DEF TabShape
<1>2. RunShape'
  BY DEF RunShape
<1>3. ListShape'
  BY DEF ListShape
<1>4. OrderInv' /\ OwnerInv' /\ StoppedInv' /\ ShownInv'
  BY RunsUntouched
<1>5. ListInv'
  BY DEF ListInv
<1>7. QED
  BY <1>1, <1>2, <1>3, <1>4, <1>5

LEMMA ReloadPreserves ==
  ASSUME IInv, Reload
  PROVE IInv'
<1> USE DEF IInv, clientVars, serverVars, ghosts, Reload, NewTab, NoList
<1>1. TabShape'
  <2>1. DOMAIN tab' = Tabs /\ \A x \in Tabs : tab'[x] = NewTab(tab[x].editor)
    OBVIOUS
  <2>2. \A x \in Tabs : /\ DOMAIN tab'[x] = TabFields
                        /\ tab'[x].running \in BOOLEAN /\ tab'[x].cursor = -1
    BY <2>1 DEF TabFields
  <2>3. \A x \in Tabs : tab'[x].cursor \in Int /\ tab'[x].cursor >= -1
    BY <2>2
  <2> HIDE DEF Reload
  <2>4. QED
    BY <2>1, <2>2, <2>3 DEF TabShape
<1>2. RunShape'
  BY DEF RunShape
<1>3. ListShape'
  BY DEF ListShape
<1>4. OrderInv'
  BY DEF OrderInv
<1>5. OwnerInv'
  BY DEF OwnerInv, Live
<1>6. StoppedInv'
  BY DEF StoppedInv
<1>7. ShownInv'
  BY DEF ShownInv, Live
<1>8. ListInv'
  BY ConsoleAssumption DEF ListInv
<1>10. QED
  BY <1>1, <1>2, <1>3, <1>4, <1>5, <1>6, <1>7, <1>8
-----------------------------------------------------------------------------
LEMMA InitInv == Init => IInv
<1> SUFFICES ASSUME Init PROVE IInv
  OBVIOUS
<1> USE DEF Init
<1>1. TabShape
  <2>1. PICK text \in Texts : tab = [t \in Tabs |-> NewTab(text)]
    OBVIOUS
  <2>2. DOMAIN NewTab(text) = TabFields /\ NewTab(text).running = FALSE /\ NewTab(text).cursor = -1
    BY DEF NewTab, TabFields
  <2>3. \A t \in Tabs : tab[t].running = FALSE /\ tab[t].cursor = -1
    BY <2>1, <2>2
  <2>4. \A t \in Tabs : tab[t].cursor \in Int /\ tab[t].cursor >= -1
    BY <2>3
  <2>5. QED
    BY <2>1, <2>2, <2>3, <2>4 DEF TabShape
<1>2. \A t \in Tabs : tab[t].running = FALSE /\ tab[t].shown = None /\ tab[t].cursor = -1
  BY DEF NewTab
<1>3. RunShape /\ ListShape
  BY DEF RunShape, ListShape, NoRun, NoList
<1>4. OrderInv /\ StoppedInv /\ ListInv
  BY ConsoleAssumption DEF OrderInv, StoppedInv, ListInv, NoRun, NoList
<1>5. OwnerInv /\ ShownInv
  BY <1>2 DEF OwnerInv, ShownInv, Live, NoRun
<1>6. QED
  BY <1>1, <1>3, <1>4, <1>5 DEF IInv

LEMMA GesturesPreserve ==
  ASSUME IInv, NEW t \in Tabs, Gestures(t)
  PROVE IInv'
<1>1. ASSUME NEW kind \in Kinds, RunText(t, kind) PROVE IInv'
  BY <1>1, StartRunPreserves DEF RunText
<1>2. CASE EndTransaction(t)
  BY <1>2, StartRunPreserves DEF EndTransaction
<1>3. CASE Stop(t) \/ RefreshTransaction(t) \/ Dismiss(t)
  BY <1>3, StopPreserves, RefreshTransactionPreserves, DismissPreserves
<1>4. CASE TogglePanel(t) \/ ClearHistory(t)
  BY <1>4, TogglePanelPreserves, ClearHistoryPreserves
<1>5. ASSUME NEW direction \in {"previous", "next"}, Navigate(t, direction) PROVE IInv'
  BY <1>5, NavigatePreserves
<1>6. ASSUME NEW search, SetHistorySearch(t, search) PROVE IInv'
  BY <1>6, SetHistorySearchPreserves
<1>7. ASSUME NEW text, SetEditor(t, text) PROVE IInv'
  BY <1>7, SetEditorPreserves
<1>8. ASSUME NEW i, ApplyHistory(t, i) PROVE IInv'
  BY <1>7, <1>8 DEF ApplyHistory
<1>9. QED
  BY <1>1, <1>2, <1>3, <1>4, <1>5, <1>6, <1>7, <1>8 DEF Gestures

LEMMA ArrivalsPreserve ==
  ASSUME IInv, Arrivals
  PROVE IInv'
<1>1. ASSUME NEW r \in Runs, Overtaken(r) \/ Answered(r) \/ Aborted(r) PROVE IInv'
  BY <1>1, OvertakenPreserves, AnsweredPreserves, AbortedPreserves
<1>2. ASSUME NEW r \in Runs, Explained(r) \/ Analyzed(r) PROVE IInv'
  BY <1>2, PlanEndsPreserves DEF Explained, Analyzed
<1>3. ASSUME NEW r \in Runs, RunFetches(r) PROVE IInv'
  BY <1>3, RunFetchesPreserves
<1>4. ASSUME NEW i \in Reads, TransactionRead(i) PROVE IInv'
  BY <1>4, TransactionReadPreserves
<1>5. ASSUME NEW i \in Lists, ListArrives(i) PROVE IInv'
  BY <1>5, ListArrivesPreserves
<1>6. ASSUME NEW t \in Tabs, PanelFetches(t) PROVE IInv'
  BY <1>6, PanelFetchesPreserves
<1>7. QED
  BY <1>1, <1>2, <1>3, <1>4, <1>5, <1>6 DEF Arrivals

LEMMA ServerPreserves ==
  ASSUME IInv, Server
  PROVE IInv'
<1>1. ASSUME NEW t \in Tabs, ServeState(t) \/ ServeEnd(t) PROVE IInv'
  BY <1>1, ServeStatePreserves, ServeEndPreserves
<1>2. ASSUME NEW t \in Tabs, NEW tx \in TxStates, Serve(t, tx) \/ Refuse(t, tx) PROVE IInv'
  BY <1>2, ServePreserves, RefusePreserves
<1>3. ASSUME NEW r \in Runs, NEW failed \in BOOLEAN, ServePlan(r, failed) PROVE IInv'
  BY <1>3, ServePlanPreserves
<1>4. ASSUME NEW i \in Lists, ListServed(i) PROVE IInv'
  BY <1>4, ListServedPreserves
<1>5. QED
  BY <1>1, <1>2, <1>3, <1>4 DEF Server

LEMMA FaultsPreserve ==
  ASSUME IInv, Faults
  PROVE IInv'
<1>1. ASSUME NEW r \in Runs, RunLost(r) PROVE IInv'
  BY <1>1, RunLostPreserves
<1>2. ASSUME NEW i \in Reads, ReadLost(i) PROVE IInv'
  BY <1>2, ReadLostPreserves
<1>3. ASSUME NEW t \in Tabs, Expire(t) PROVE IInv'
  BY <1>3, ExpirePreserves
<1>4. CASE ForeignRun \/ Reload
  BY <1>4, ForeignRunPreserves, ReloadPreserves
<1>5. QED
  BY <1>1, <1>2, <1>3, <1>4 DEF Faults

LEMMA NextPreserves == IInv /\ [Next]_vars => IInv'
<1> SUFFICES ASSUME IInv, [Next]_vars PROVE IInv'
  OBVIOUS
<1>1. CASE UNCHANGED vars
  BY <1>1 DEF vars, clientVars, ghosts, IInv, TabShape, RunShape, ListShape, OrderInv, OwnerInv,
     StoppedInv, ShownInv, ListInv, Newest, RunsOf, Live
<1>2. CASE Next
  BY <1>2, GesturesPreserve, ArrivalsPreserve, ServerPreserves, FaultsPreserve DEF Next
<1>3. QED
  BY <1>1, <1>2

LEMMA Invariance == Spec => []IInv
BY InitInv, NextPreserves, PTL DEF Spec

(* The owner registered for a tab (sqlRunControllers) is the newest run of the
   tab and is not over: a run that lost its tab never gets it back. *)
THEOREM OwnerIsNewestHolds == Spec => []OwnerIsNewest
<1>1. IInv => OwnerIsNewest
  BY DEF IInv, OwnerInv, OwnerIsNewest
<1>2. QED
  BY <1>1, Invariance, PTL

(* A tab shows nothing of a run that was stopped or replaced by a newer one, and
   says "running" exactly while its newest run is neither answered nor stopped:
   in whatever order responses, aborts, history reads and reloads come. *)
THEOREM NewestRunOwnsTheTabHolds == Spec => []NewestRunOwnsTheTab
<1>1. IInv => NewestRunOwnsTheTab
  <2> SUFFICES ASSUME IInv, NEW t \in Tabs
               PROVE /\ tab[t].shown # None => Newest(t, tab[t].shown.run)
                     /\ tab[t].running <=> \E r \in Live(t) \ stopped : Newest(t, r)
    BY DEF NewestRunOwnsTheTab
  <2>1. controller[t] \in Live(t) => controller[t] # None
    BY ConsoleAssumption DEF Live
  <2>2. \A r \in Live(t) : Newest(t, r) <=> controller[t] = r
    BY <2>1 DEF IInv, OwnerInv
  <2>3. QED
    BY <2>2 DEF IInv, ShownInv
<1>2. QED
  BY <1>1, Invariance, PTL
-----------------------------------------------------------------------------
(* What the bar of the client says of a session. *)

(* The queue of a session: requests to run, to tell the transaction, to end.
   Only the first and the last kind change it. *)
Requests == [kind : {"run", "state", "end"}, id : Nat]

AllAsk(s) == \A n \in DOMAIN s : s[n].kind = "state"

(* Nothing that is served after q changes the session. *)
Final(s, q) == \E n \in DOMAIN s : s[n] = q /\ \A m \in DOMAIN s : n < m => s[m].kind = "state"

Once(s) == \A n, m \in DOMAIN s : s[n] = s[m] /\ s[n].kind # "end" => n = m

LEMMA Requested ==
  ASSUME NEW kind \in {"run", "state", "end"}, NEW i \in Nat
  PROVE  /\ Request(kind, i) \in Requests
         /\ Request(kind, i).kind = kind /\ Request(kind, i).id = i
BY DEF Request, Requests

LEMMA QueuedLast ==
  ASSUME NEW s \in Seq(Requests), NEW q \in Requests
  PROVE  /\ Append(s, q) \in Seq(Requests)
         /\ \A n \in DOMAIN Append(s, q) : (n \in DOMAIN s /\ Append(s, q)[n] = s[n]) \/ Append(s, q)[n] = q
         /\ Final(Append(s, q), q)
         /\ q.kind = "state" => /\ AllAsk(s) => AllAsk(Append(s, q))
                                /\ \A x : Final(s, x) => Final(Append(s, q), x)
         /\ Once(s) /\ (q.kind # "end" => \A n \in DOMAIN s : s[n] # q) => Once(Append(s, q))
<1>1. /\ Append(s, q) \in Seq(Requests) /\ Len(s) \in Nat /\ DOMAIN s = 1..Len(s)
      /\ DOMAIN Append(s, q) = 1..(Len(s) + 1) /\ Append(s, q)[Len(s) + 1] = q
      /\ \A n \in 1..Len(s) : Append(s, q)[n] = s[n]
  OBVIOUS
<1>2. PICK z : z = Append(s, q)
  OBVIOUS
<1>3. \A n \in DOMAIN z : n = Len(s) + 1 \/ (n \in DOMAIN s /\ z[n] = s[n] /\ n < Len(s) + 1)
  BY <1>1, <1>2
<1>4. Final(z, q)
  BY <1>1, <1>2 DEF Final
<1>5. q.kind = "state" /\ AllAsk(s) => AllAsk(z)
  BY <1>1, <1>2, <1>3 DEF AllAsk
<1>6. ASSUME q.kind = "state", NEW x, Final(s, x)
      PROVE  Final(z, x)
  <2>1. PICK n \in DOMAIN s : s[n] = x /\ \A m \in DOMAIN s : n < m => s[m].kind = "state"
    BY <1>6 DEF Final
  <2>2. n \in DOMAIN z /\ z[n] = x
    BY <1>1, <1>2, <2>1
  <2>3. \A m \in DOMAIN z : n < m => z[m].kind = "state"
    BY <1>1, <1>2, <1>3, <1>6, <2>1
  <2> QED
    BY <2>2, <2>3 DEF Final
<1>7. Once(s) /\ (q.kind # "end" => \A n \in DOMAIN s : s[n] # q) => Once(z)
  BY <1>1, <1>2, <1>3 DEF Once
<1> QED
  BY <1>1, <1>2, <1>3, <1>4, <1>5, <1>6, <1>7

LEMMA ServedFirst ==
  ASSUME NEW s \in Seq(Requests), s # <<>>
  PROVE  /\ Tail(s) \in Seq(Requests) /\ Head(s) \in Requests /\ \E n \in DOMAIN s : s[n] = Head(s)
         /\ \A n \in DOMAIN Tail(s) : \E m \in DOMAIN s : Tail(s)[n] = s[m]
         /\ AllAsk(s) => AllAsk(Tail(s)) /\ Head(s).kind = "state"
         /\ \A x : Final(s, x) => Final(Tail(s), x) \/ (x = Head(s) /\ AllAsk(Tail(s)))
         /\ Once(s) => Once(Tail(s))
         /\ Once(s) /\ Head(s).kind # "end" => \A n \in DOMAIN Tail(s) : Tail(s)[n] # Head(s)
<1>1. /\ Tail(s) \in Seq(Requests) /\ Len(s) \in Nat \ {0} /\ DOMAIN s = 1..Len(s) /\ Head(s) = s[1]
      /\ s[1] \in Requests /\ DOMAIN Tail(s) = 1..(Len(s) - 1)
      /\ \A n \in 1..(Len(s) - 1) : Tail(s)[n] = s[n + 1]
  OBVIOUS
<1>2. PICK z : z = Tail(s)
  OBVIOUS
<1>3. \A n \in DOMAIN z : n + 1 \in DOMAIN s /\ z[n] = s[n + 1]
  BY <1>1, <1>2
<1>4. AllAsk(s) => AllAsk(z) /\ Head(s).kind = "state"
  BY <1>1, <1>3 DEF AllAsk
<1>5. ASSUME NEW x, Final(s, x)
      PROVE  Final(z, x) \/ (x = Head(s) /\ AllAsk(z))
  <2>1. PICK n \in DOMAIN s : s[n] = x /\ \A m \in DOMAIN s : n < m => s[m].kind = "state"
    BY <1>5 DEF Final
  <2>2. CASE n = 1
    <3>1. \A m \in DOMAIN z : 1 < m + 1
      BY <1>1, <1>2
    <3> QED
      BY <1>1, <1>3, <2>1, <2>2, <3>1 DEF AllAsk
  <2>3. CASE n # 1
    <3>1. n - 1 \in DOMAIN z /\ z[n - 1] = x
      BY <1>1, <1>2, <2>1, <2>3
    <3>2. \A m \in DOMAIN z : n - 1 < m => z[m].kind = "state"
      BY <1>1, <1>2, <1>3, <2>1
    <3> QED
      BY <3>1, <3>2 DEF Final
  <2> QED
    BY <2>2, <2>3
<1>6. Once(s) => Once(z)
  <2> SUFFICES ASSUME Once(s), NEW n \in DOMAIN z, NEW m \in DOMAIN z, z[n] = z[m], z[n].kind # "end"
               PROVE  n = m
    BY DEF Once
  <2>1. n + 1 = m + 1
    BY <1>3 DEF Once
  <2> QED
    BY <1>1, <1>2, <2>1
<1>7. Once(s) /\ Head(s).kind # "end" => \A n \in DOMAIN z : z[n] # Head(s)
  BY <1>1, <1>2, <1>3 DEF Once
<1>8. (\E n \in DOMAIN s : s[n] = Head(s)) /\ \A n \in DOMAIN z : \E m \in DOMAIN s : z[n] = s[m]
  BY <1>1, <1>3
<1> QED
  BY <1>1, <1>2, <1>4, <1>5, <1>6, <1>7, <1>8

LEMMA Withdrawn ==
  ASSUME NEW s \in Seq(Requests), NEW W
  PROVE  /\ Without(s, W) \in Seq(Requests)
         /\ \A n \in DOMAIN Without(s, W) : Without(s, W)[n] \notin W /\ \E m \in DOMAIN s : Without(s, W)[n] = s[m]
         /\ AllAsk(s) => AllAsk(Without(s, W))
         /\ \A x : Final(s, x) /\ x \notin W => Final(Without(s, W), x)
         /\ Once(s) => Once(Without(s, W))
<1>1. PICK I : I = {n \in DOMAIN s : s[n] \notin W}
  OBVIOUS
<1>2. PICK z : z = Filtered(s, I)
  OBVIOUS
<1>3. z = Without(s, W)
  BY <1>1, <1>2 DEF Without
<1>4. PICK f : f = [k \in 1..Cardinality(I) |-> Nth(I, k)]
  OBVIOUS
<1>5. /\ z \in Seq(Requests) /\ DOMAIN z = 1..Cardinality(I) /\ Cardinality(I) \in Nat
      /\ \A k \in DOMAIN z : f[k] \in I /\ z[k] = s[f[k]]
      /\ \A i \in I : \E k \in DOMAIN z : f[k] = i
      /\ \A k, l \in DOMAIN z : k < l => f[k] < f[l]
  <2>1. I \in SUBSET DOMAIN s
    BY <1>1
  <2>2. PICK S : S = Requests
    OBVIOUS
  <2>3. s \in Seq(S)
    BY <2>2
  <2>4. Filtered(s, I) \in Seq(S) /\ Len(Filtered(s, I)) = Cardinality(I) /\ Cardinality(I) \in Nat
    BY <2>1, <2>3, FilteredOfSequence
  <2>5. \A k \in 1..Cardinality(I) : Nth(I, k) \in I /\ Filtered(s, I)[k] = s[Nth(I, k)]
    <3>1. IsFiniteSet(1..Len(s)) /\ DOMAIN s = 1..Len(s) /\ Len(s) \in Nat
      BY FS_Interval
    <3>2. IsFiniteSet(I) /\ I \in SUBSET Int
      BY <2>1, <3>1, FS_Subset
    <3>3. \A k \in 1..Cardinality(I) : Nth(I, k) \in I
      BY <3>2, NthIs
    <3> QED
      BY <3>3 DEF Filtered
  <2>6. \A i \in I : \E k \in 1..Cardinality(I) : Nth(I, k) = i
    BY <2>1, <2>3, FilteredOfSequence
  <2>7. \A k, l \in 1..Cardinality(I) : k < l => Nth(I, k) < Nth(I, l)
    BY <2>1, <2>3, FilteredOfSequence
  <2>8. z \in Seq(Requests) /\ DOMAIN z = 1..Cardinality(I)
    BY <1>2, <2>2, <2>4
  <2> QED
    BY <1>2, <1>4, <2>4, <2>5, <2>6, <2>7, <2>8
<1>6. \A k \in DOMAIN z : f[k] \in DOMAIN s /\ f[k] \in Nat /\ k \in Nat /\ z[k] = s[f[k]] /\ z[k] \notin W
  BY <1>1, <1>5
<1>7. ASSUME NEW x, Final(s, x), x \notin W
      PROVE  Final(z, x)
  <2>1. PICK n \in DOMAIN s : s[n] = x /\ \A m \in DOMAIN s : n < m => s[m].kind = "state"
    BY <1>7 DEF Final
  <2>2. PICK k \in DOMAIN z : f[k] = n
    BY <1>1, <1>5, <1>7, <2>1
  <2>3. \A l \in DOMAIN z : k < l => z[l].kind = "state"
    BY <1>5, <1>6, <2>1, <2>2
  <2> QED
    BY <1>6, <2>1, <2>2, <2>3 DEF Final
<1>8. Once(s) => Once(z)
  <2> SUFFICES ASSUME Once(s), NEW n \in DOMAIN z, NEW m \in DOMAIN z, z[n] = z[m], z[n].kind # "end"
               PROVE  n = m
    BY DEF Once
  <2>1. f[n] = f[m]
    BY <1>6 DEF Once
  <2>2. n \in Nat /\ m \in Nat /\ f[n] \in Nat /\ ~ (n < m) /\ ~ (m < n)
    BY <1>5, <1>6, <2>1
  <2> QED
    BY <2>2
<1>9. AllAsk(s) => AllAsk(z)
  BY <1>6 DEF AllAsk
<1> QED
  BY <1>3, <1>5, <1>6, <1>7, <1>8, <1>9

-----------------------------------------------------------------------------
(* What a request in the queue of a session names: a read that is under way, or
   a run of the tab, which may be over in the browser. *)
Names(t, q) ==
  /\ q.kind = "state" => q.id \in Reads /\ read[q.id].tab = t /\ read[q.id].phase = "sent"
  /\ q.kind = "run" => /\ q.id \in Runs /\ run[q.id].tab = t
                       /\ run[q.id].kind \in InSession /\ run[q.id].phase # "new"

QueueShape(t) ==
  queue[t] \in Seq(Requests) /\ Once(queue[t]) /\ \A n \in DOMAIN queue[t] : Names(t, queue[t][n])

ReadShape ==
  /\ DOMAIN read = Reads /\ starts \in [Tabs -> Nat]
  /\ DOMAIN session = Tabs /\ DOMAIN queue = Tabs
  /\ \A i \in Reads : /\ DOMAIN read[i] = {"tab", "starts", "phase", "tx"}
                      /\ read[i].phase \in {"sent", "answered"} =>
                           /\ read[i].tab \in Tabs /\ read[i].starts \in Nat
                           /\ read[i].starts <= starts[read[i].tab]

(* What may be said of the session: a refused run said "expired" once. *)
Says(tx, t) == tx = session[t] \/ (tx = "expired" /\ session[t] = "idle")

(* The reads that the bar will take, and the run whose answer it will take. *)
Current(t) == {i \in UnderWay(t) : read[i].starts = starts[t]}
Teller(t) == {r \in Live(t) : controller[t] = r /\ run[r].kind \in InSession}

(* What the bar will be told is true when it is told, for nothing that is
   served after it changes the session. *)
ReportInv(t) ==
  t \notin crossed =>
    /\ \A i \in Current(t) : \/ read[i].phase = "sent" /\ Final(queue[t], Request("state", i))
                             \/ read[i].phase = "answered" /\ AllAsk(queue[t]) /\ Says(read[i].tx, t)
    /\ \A r \in Teller(t) : \/ run[r].answer = None /\ Final(queue[t], Request("run", r))
                            \/ AllAsk(queue[t]) /\ Says(run[r].answer.tx, t)

(* The bar is right, or will be once the session has ended, or will be told. *)
BarInv(t) ==
  t \notin crossed \cup missed =>
    \/ AllAsk(queue[t]) /\ Says(tab[t].tx, t)
    \/ tab[t].tx = "idle" /\ Final(queue[t], Request("end", 0))
    \/ Current(t) \cup Teller(t) # {}

TellsTrue(t) == QueueShape(t) /\ ReportInv(t) /\ BarInv(t)

SettlesInv == IInv /\ ReadShape /\ \A t \in Tabs : TellsTrue(t)
-----------------------------------------------------------------------------
(* A run that was sent stays a run of its tab. *)
RunsStay ==
  \A r \in Runs : run[r].phase # "new" =>
    run'[r].tab = run[r].tab /\ run'[r].kind = run[r].kind /\ run'[r].phase # "new"

(* A tab that a step leaves alone, as far as its session goes. *)
LEMMA TabStays ==
  ASSUME NEW t \in Tabs, TellsTrue(t), RunsStay,
         queue'[t] = queue[t], session'[t] = session[t], starts'[t] = starts[t],
         UnderWay(t)' = UnderWay(t), \A i \in UnderWay(t) : read'[i] = read[i],
         Teller(t)' = Teller(t), \A r \in Teller(t) : run'[r].answer = run[r].answer,
         t \in crossed => t \in crossed', t \in missed => t \in missed',
         tab'[t].tx = tab[t].tx
  PROVE  TellsTrue(t)'
<1>1. Current(t)' = Current(t)
  BY DEF Current
<1>2. \A i \in Current(t) : i \in Reads /\ read'[i] = read[i]
  BY DEF Current, UnderWay
<1>3. \A tx : Says(tx, t)' <=> Says(tx, t)
  BY DEF Says
<1>4. QueueShape(t)'
  <2>1. \A q : Names(t, q) => Names(t, q)'
    BY DEF Names, RunsStay, UnderWay
  <2> QED
    BY <2>1 DEF TellsTrue, QueueShape
<1>5. ReportInv(t)'
  BY <1>1, <1>2, <1>3 DEF TellsTrue, ReportInv
<1>6. BarInv(t)'
  BY <1>1, <1>3 DEF TellsTrue, BarInv
<1> QED
  BY <1>4, <1>5, <1>6 DEF TellsTrue

(* A step of the panel, the list or the editor. *)
LEMMA SessionsStay ==
  ASSUME SettlesInv, IInv', RunsStay,
         queue' = queue, session' = session, starts' = starts, read' = read,
         \A t \in Tabs : /\ Teller(t)' = Teller(t) /\ \A r \in Teller(t) : run'[r].answer = run[r].answer
                         /\ tab'[t].tx = tab[t].tx,
         crossed' = crossed, missed \subseteq missed'
  PROVE  SettlesInv'
<1>1. ReadShape'
  BY DEF SettlesInv, ReadShape
<1>2. \A t \in Tabs : UnderWay(t)' = UnderWay(t) /\ \A i \in UnderWay(t) : read'[i] = read[i]
  BY DEF UnderWay
<1>3. \A t \in Tabs : TellsTrue(t)'
  BY <1>2, TabStays DEF SettlesInv
<1> QED
  BY <1>1, <1>3 DEF SettlesInv

LEMMA OwnersStay ==
  ASSUME run' = run, controller' = controller
  PROVE  RunsStay /\ \A t \in Tabs : Teller(t)' = Teller(t) /\ \A r \in Teller(t) : run'[r].answer = run[r].answer
BY DEF RunsStay, Teller, Live

LEMMA WalkedTellsNothing ==
  ASSUME NEW b, NEW direction, DOMAIN b = TabFields
  PROVE  /\ Walked(b, direction).tx = b.tx
         /\ \A before : Synced(Walked(b, direction), before).tx = b.tx
<1>1. DOMAIN Walked(b, direction) = TabFields /\ Walked(b, direction).tx = b.tx
  BY DEF Walked, TabFields
<1>2. QED
  BY <1>1 DEF Synced, TabFields

LEMMA EditorSettles ==
  ASSUME SettlesInv, IInv', NEW t \in Tabs,
         \/ TogglePanel(t) \/ (\E search : SetHistorySearch(t, search)) \/ PanelFetches(t) \/ ClearHistory(t)
         \/ (\E text : SetEditor(t, text)) \/ (\E direction : Navigate(t, direction))
         \/ (\E r \in Runs : RunFetches(r)) \/ (\E i \in Lists : ListServed(i)) \/ ForeignRun
  PROVE  SettlesInv'
<1> USE DEF clientVars, serverVars, ghosts
<1>1. DOMAIN tab = Tabs /\ \A x \in Tabs : DOMAIN tab[x] = TabFields
  BY DEF SettlesInv, IInv, TabShape
<1>2. \A x \in Tabs : \A y : Loading(y)[x].tx = tab[x].tx
  BY <1>1 DEF Loading, TabFields
<1>3. \A x \in Tabs : tab'[x].tx = tab[x].tx
  <2>1. CASE TogglePanel(t) \/ ClearHistory(t)
    BY <1>1, <2>1 DEF TogglePanel, ClearHistory, TabFields
  <2>2. CASE \E search : SetHistorySearch(t, search)
    BY <1>1, <2>2 DEF SetHistorySearch, TabFields
  <2>3. CASE \E text : SetEditor(t, text)
    <3>1. PICK text : tab' = [tab EXCEPT ![t].editor = text, ![t].cursor = -1, ![t].draft = text]
      BY <2>3 DEF SetEditor
    <3>2. \A x \in Tabs \ {t} : tab'[x] = tab[x]
      BY <1>1, <3>1
    <3>3. tab'[t] = [tab[t] EXCEPT !.editor = text, !.cursor = -1, !.draft = text]
      BY <1>1, <3>1
    <3>4. tab'[t].tx = tab[t].tx
      BY <1>1, <3>3 DEF TabFields
    <3> QED
      BY <3>2, <3>4
  <2>4. CASE PanelFetches(t) \/ \E r \in Runs : RunFetches(r)
    BY <1>2, <2>4 DEF PanelFetches, RunFetches, FetchHistory
  <2>5. CASE \E direction : Navigate(t, direction)
    <3>1. PICK direction : Navigate(t, direction)
      BY <2>5
    <3>2. CASE \E i \in Unused(list) : tab' = Loading(t)
      BY <1>2, <3>2
    <3>3. CASE tab' = [tab EXCEPT ![t] = Synced(Walked(@, direction), @)]
      BY <1>1, <3>3, WalkedTellsNothing
    <3> QED
      BY <3>1, <3>2, <3>3 DEF Navigate, FetchHistory
  <2>6. CASE ForeignRun \/ \E i \in Lists : ListServed(i)
    BY <2>6 DEF ForeignRun, ListServed
  <2> QED
    BY <2>1, <2>2, <2>3, <2>4, <2>5, <2>6
<1>4. /\ run' = run /\ controller' = controller /\ queue' = queue /\ session' = session
      /\ starts' = starts /\ read' = read /\ crossed' = crossed /\ missed' = missed
  BY DEF TogglePanel, ClearHistory, SetHistorySearch, SetEditor, PanelFetches, RunFetches, Navigate,
     ForeignRun, ListServed
<1> QED
  BY <1>3, <1>4, OwnersStay, SessionsStay

(* A run that is over, or that goes on to the history: its tab has no teller
   any more if it was the one; other tabs keep theirs. *)
LEMMA TellersOf ==
  ASSUME IInv, NEW r \in Runs, run[r].phase # "new",
         \A x \in Runs : run'[x].tab = run[x].tab /\ run'[x].kind = run[x].kind
                         /\ (x # r => run'[x].phase = run[x].phase),
         run'[r].phase \in {"done", "settling", "listing"},
         \/ controller' = controller
         \/ controller' = [controller EXCEPT ![run[r].tab] = IF @ = r THEN None ELSE @]
  PROVE  /\ RunsStay /\ run[r].tab \in Tabs
         /\ \A t \in Tabs : Teller(t)' = Teller(t) \ {r}
         /\ \A t \in Tabs \ {run[r].tab} : r \notin Teller(t)
<1>1. controller \in [Tabs -> Runs \cup {None}] /\ run[r].tab \in Tabs
  BY DEF IInv, RunShape, OrderInv
<1>2. RunsStay
  BY DEF RunsStay
<1>3. \A t \in Tabs : Live(t)' = Live(t) \ {r}
  BY DEF Live
<1>4. \A t \in Tabs : controller'[t] = controller[t] \/ (controller[t] = r /\ controller'[t] = None)
  BY <1>1
<1>5. \A t \in Tabs : \A x \in Live(t) \ {r} : controller'[t] = x <=> controller[t] = x
  BY <1>4, ConsoleAssumption DEF Live
<1>6. \A t \in Tabs : Teller(t)' = Teller(t) \ {r}
  <2> SUFFICES ASSUME NEW t \in Tabs
               PROVE  Teller(t)' = Teller(t) \ {r}
    OBVIOUS
  <2>1. \A x \in Live(t) : x \in Runs /\ run'[x].kind = run[x].kind
    BY DEF Live
  <2> QED
    BY <1>3, <1>5, <2>1 DEF Teller
<1> QED
  BY <1>1, <1>2, <1>6 DEF Teller, Live

LEMMA OvertakenSettles ==
  ASSUME SettlesInv, IInv', NEW r \in Runs, Overtaken(r)
  PROVE  SettlesInv'
<1> USE DEF clientVars, serverVars, ghosts
<1>1. /\ run[r].phase = "sent" /\ controller[run[r].tab] # r /\ run' = Finished(r) /\ DOMAIN run = Runs
      /\ \A x \in Runs : DOMAIN run[x] = {"tab", "kind", "command", "phase", "answer"}
  BY DEF Overtaken, IsCurrentRun, SettlesInv, IInv, RunShape
<1>2. /\ \A x \in Runs : run'[x].tab = run[x].tab /\ run'[x].kind = run[x].kind /\ run'[x].answer = run[x].answer
                         /\ (x # r => run'[x].phase = run[x].phase)
      /\ run'[r].phase = "done" /\ controller' = controller
  BY <1>1 DEF Finished, Overtaken
<1>3. RunsStay /\ \A t \in Tabs : Teller(t)' = Teller(t) \ {r}
  BY <1>1, <1>2, TellersOf DEF SettlesInv
<1>4. \A t \in Tabs : r \notin Teller(t)
  BY <1>1 DEF Teller, Live
<1>5. \A t \in Tabs : Teller(t)' = Teller(t) /\ \A x \in Teller(t) : run'[x].answer = run[x].answer
  BY <1>2, <1>3, <1>4 DEF Teller, Live
<1> QED
  BY <1>3, <1>5, SessionsStay DEF Overtaken

LEMMA StopSettles ==
  ASSUME SettlesInv, IInv', NEW t \in Tabs, Stop(t)
  PROVE  SettlesInv'
<1> USE DEF clientVars, serverVars, ghosts
<1>1. \A x \in Tabs : tab'[x].tx = tab[x].tx
  BY DEF Stop, SettlesInv, IInv, TabShape, TabFields
<1> QED
  BY <1>1, OwnersStay, SessionsStay DEF Stop

(* What a result makes of the bar: nothing. *)
LEMMA ShowKeepsBar ==
  ASSUME TabShape, NEW r \in Runs, run[r].tab \in Tabs, NEW failed, NEW canceled,
         NEW b, b = Show(r, failed, canceled)
  PROVE  /\ DOMAIN b = Tabs /\ \A t \in Tabs : DOMAIN b[t] = TabFields /\ b[t].tx = tab[t].tx
<1> DEFINE t == run[r].tab
<1>1. DOMAIN b = Tabs /\ \A x \in Tabs \ {t} : b[x] = tab[x]
  BY DEF Show, TabShape
<1>2. DOMAIN b[t] = TabFields /\ b[t].tx = tab[t].tx
  BY DEF Show, TabShape, TabFields
<1> QED
  BY <1>1, <1>2 DEF TabShape

LEMMA PlanEndsSettles ==
  ASSUME SettlesInv, IInv', NEW r \in Runs, NEW kind \in {"explain", "analyze"}, PlanEnds(r, kind)
  PROVE  SettlesInv'
<1> USE DEF clientVars, serverVars, ghosts
<1>1. /\ run[r].phase = "sent" /\ run[r].kind = kind /\ run' = Finished(r) /\ DOMAIN run = Runs
      /\ \A x \in Runs : DOMAIN run[x] = {"tab", "kind", "command", "phase", "answer"}
      /\ controller' = Released(r)
  BY DEF PlanEnds, Owns, SettlesInv, IInv, RunShape
<1>2. /\ \A x \in Runs : run'[x].tab = run[x].tab /\ run'[x].kind = run[x].kind /\ run'[x].answer = run[x].answer
                         /\ (x # r => run'[x].phase = run[x].phase)
      /\ run'[r].phase = "done"
  BY <1>1 DEF Finished
<1>3. RunsStay /\ run[r].tab \in Tabs /\ \A t \in Tabs : Teller(t)' = Teller(t) \ {r}
  BY <1>1, <1>2, TellersOf DEF SettlesInv, Released
<1>4. \A t \in Tabs : r \notin Teller(t)
  BY <1>1 DEF Teller, InSession
<1>5. \A t \in Tabs : Teller(t)' = Teller(t) /\ \A x \in Teller(t) : run'[x].answer = run[x].answer
  BY <1>2, <1>3, <1>4 DEF Teller, Live
<1>6. \A t \in Tabs : tab'[t].tx = tab[t].tx
  <2>1. PICK failed, canceled : tab' = Show(r, failed, canceled)
    BY DEF PlanEnds
  <2> QED
    BY <1>3, <2>1, ShowKeepsBar DEF SettlesInv, IInv
<1> QED
  BY <1>3, <1>5, <1>6, SessionsStay DEF PlanEnds

LEMMA ListArrivesSettles ==
  ASSUME SettlesInv, IInv', NEW i \in Lists, ListArrives(i)
  PROVE  SettlesInv'
<1> USE DEF clientVars, serverVars, ghosts
<1>1. DOMAIN tab = Tabs /\ \A x \in Tabs : DOMAIN tab[x] = TabFields
  BY DEF SettlesInv, IInv, TabShape
<1>2. list[i].phase \in {"sent", "answered"} /\ list[i].tab \in Tabs
  BY DEF ListArrives, SettlesInv, IInv, ListInv
<1>3. \A x \in Tabs : tab'[x].tx = tab[x].tx
  <2>1. PICK b : /\ WalkGoesOn(list[i].tab, b, list[i].walk)
                 /\ \/ b = [tab[list[i].tab] EXCEPT !.history = list[i].answer, !.loading = FALSE, !.refused = FALSE]
                    \/ b = [tab[list[i].tab] EXCEPT !.loading = FALSE, !.refused = TRUE]
    BY <1>1, <1>2 DEF ListArrives
  <2>2. DOMAIN b = TabFields /\ b.tx = tab[list[i].tab].tx
    BY <1>1, <1>2, <2>1 DEF TabFields
  <2> QED
    BY <1>1, <1>2, <2>1, <2>2, WalkedTellsNothing DEF WalkGoesOn
<1>4. /\ RunsStay /\ \A t \in Tabs : Teller(t)' = Teller(t) /\ \A x \in Teller(t) : run'[x].answer = run[x].answer
  <2>1. CASE run' = run /\ controller' = controller
    BY <2>1, OwnersStay
  <2>2. CASE list[i].for \in Runs /\ run' = Finished(list[i].for) /\ controller' = Released(list[i].for)
    <3>1. PICK r \in Runs : r = list[i].for
      BY <2>2
    <3>2. run[r].phase \in {"settling", "listing"}
      BY <3>1 DEF SettlesInv, IInv, ListInv
    <3>3. /\ DOMAIN run = Runs
          /\ \A x \in Runs : DOMAIN run[x] = {"tab", "kind", "command", "phase", "answer"}
      BY DEF SettlesInv, IInv, RunShape
    <3>4. /\ \A x \in Runs : run'[x].tab = run[x].tab /\ run'[x].kind = run[x].kind /\ run'[x].answer = run[x].answer
                             /\ (x # r => run'[x].phase = run[x].phase)
          /\ run'[r].phase = "done"
      BY <2>2, <3>1, <3>3 DEF Finished
    <3>5. RunsStay /\ \A t \in Tabs : Teller(t)' = Teller(t) \ {r}
      BY <2>2, <3>1, <3>2, <3>4, TellersOf DEF SettlesInv, Released
    <3>6. \A t \in Tabs : r \notin Teller(t)
      BY <3>2 DEF Teller, Live
    <3> QED
      BY <3>4, <3>5, <3>6 DEF Teller, Live
  <2> QED
    BY <2>1, <2>2 DEF ListArrives, ListSettles
<1> QED
  BY <1>3, <1>4, SessionsStay DEF ListArrives

LEMMA RunLostSettles ==
  ASSUME SettlesInv, IInv', NEW r \in Runs, RunLost(r)
  PROVE  SettlesInv'
<1> USE DEF clientVars, serverVars, ghosts
<1>1. /\ run[r].phase = "sent" /\ run' = Finished(r) /\ DOMAIN run = Runs
      /\ \A x \in Runs : DOMAIN run[x] = {"tab", "kind", "command", "phase", "answer"}
      /\ controller' = Released(r) /\ missed' = missed \cup {run[r].tab}
      /\ queue' = queue /\ session' = session /\ starts' = starts /\ read' = read /\ crossed' = crossed
  BY DEF RunLost, Owns, SettlesInv, IInv, RunShape
<1>2. /\ \A x \in Runs : run'[x].tab = run[x].tab /\ run'[x].kind = run[x].kind /\ run'[x].answer = run[x].answer
                         /\ (x # r => run'[x].phase = run[x].phase)
      /\ run'[r].phase = "done"
  BY <1>1 DEF Finished
<1>3. /\ RunsStay /\ run[r].tab \in Tabs /\ \A t \in Tabs : Teller(t)' = Teller(t) \ {r}
      /\ \A t \in Tabs \ {run[r].tab} : r \notin Teller(t)
  BY <1>1, <1>2, TellersOf DEF SettlesInv, Released
<1>4. \A t \in Tabs : tab'[t].tx = tab[t].tx
  <2>1. PICK failed, canceled : tab' = Show(r, failed, canceled)
    BY DEF RunLost
  <2> QED
    BY <1>3, <2>1, ShowKeepsBar DEF SettlesInv, IInv
<1>5. ReadShape'
  BY <1>1 DEF SettlesInv, ReadShape
<1>6. ASSUME NEW t \in Tabs, t # run[r].tab
      PROVE  TellsTrue(t)'
  <2>1. Teller(t)' = Teller(t) /\ \A x \in Teller(t) : run'[x].answer = run[x].answer
    BY <1>2, <1>3, <1>6 DEF Teller, Live
  <2>2. UnderWay(t)' = UnderWay(t) /\ \A i \in UnderWay(t) : read'[i] = read[i]
    BY <1>1 DEF UnderWay
  <2> QED
    BY <1>1, <1>3, <1>4, <1>6, <2>1, <2>2, TabStays DEF SettlesInv
<1>7. ASSUME NEW t \in Tabs, t = run[r].tab
      PROVE  TellsTrue(t)'
  <2>1. QueueShape(t) /\ ReportInv(t)
    BY DEF SettlesInv, TellsTrue
  <2>2. QueueShape(t)'
    BY <1>1, <1>3, <2>1 DEF QueueShape, Names, RunsStay
  <2>3. Current(t)' = Current(t) /\ (\A x \in Teller(t)' : x \in Teller(t) /\ x \in Runs) /\ \A tx : Says(tx, t)' <=> Says(tx, t)
    BY <1>1, <1>3 DEF Current, UnderWay, Says, Teller, Live
  <2>4. ReportInv(t)'
    BY <1>1, <1>2, <2>1, <2>3 DEF ReportInv
  <2> QED
    BY <1>1, <1>7, <2>2, <2>4 DEF TellsTrue, BarInv
<1> QED
  BY <1>5, <1>6, <1>7 DEF SettlesInv

LEMMA AnsweredSettles ==
  ASSUME SettlesInv, IInv', NEW r \in Runs, Answered(r)
  PROVE  SettlesInv'
<1> USE DEF clientVars, serverVars, ghosts
<1>1. /\ run[r].phase = "sent" /\ controller[run[r].tab] = r /\ run[r].kind \in InSession
      /\ run[r].answer # None /\ DOMAIN run = Runs
      /\ \A x \in Runs : DOMAIN run[x] = {"tab", "kind", "command", "phase", "answer"}
      /\ \/ run' = [run EXCEPT ![r].phase = "listing"] /\ controller' = controller
         \/ run' = Finished(r) /\ controller' = Released(r)
      /\ missed' = missed \ {run[r].tab}
      /\ queue' = queue /\ session' = session /\ starts' = starts /\ read' = read /\ crossed' = crossed
  BY DEF Answered, Owns, IsCurrentRun, SettlesInv, IInv, RunShape
<1>2. /\ \A x \in Runs : run'[x].tab = run[x].tab /\ run'[x].kind = run[x].kind /\ run'[x].answer = run[x].answer
                         /\ (x # r => run'[x].phase = run[x].phase)
      /\ run'[r].phase \in {"done", "settling", "listing"}
  BY <1>1 DEF Finished
<1>3. /\ RunsStay /\ run[r].tab \in Tabs /\ \A t \in Tabs : Teller(t)' = Teller(t) \ {r}
      /\ \A t \in Tabs \ {run[r].tab} : r \notin Teller(t)
  BY <1>1, <1>2, TellersOf DEF SettlesInv, Released
<1>4. (\A t \in Tabs \ {run[r].tab} : tab'[t].tx = tab[t].tx) /\ tab'[run[r].tab].tx = run[r].answer.tx
  <2>1. PICK failed, canceled, b : b = Show(r, failed, canceled) /\ tab' = [b EXCEPT ![run[r].tab].tx = run[r].answer.tx]
    BY DEF Answered
  <2>2. DOMAIN b = Tabs /\ \A t \in Tabs : DOMAIN b[t] = TabFields /\ b[t].tx = tab[t].tx
    BY <1>3, <2>1, ShowKeepsBar DEF SettlesInv, IInv
  <2> QED
    BY <1>3, <2>1, <2>2 DEF TabFields
<1>5. ReadShape'
  BY <1>1 DEF SettlesInv, ReadShape
<1>6. ASSUME NEW t \in Tabs, t # run[r].tab
      PROVE  TellsTrue(t)'
  <2>1. Teller(t)' = Teller(t) /\ \A x \in Teller(t) : run'[x].answer = run[x].answer
    BY <1>2, <1>3, <1>6 DEF Teller, Live
  <2>2. UnderWay(t)' = UnderWay(t) /\ \A i \in UnderWay(t) : read'[i] = read[i]
    BY <1>1 DEF UnderWay
  <2> QED
    BY <1>1, <1>3, <1>4, <1>6, <2>1, <2>2, TabStays DEF SettlesInv
<1>7. ASSUME NEW t \in Tabs, t = run[r].tab
      PROVE  TellsTrue(t)'
  <2>1. QueueShape(t) /\ ReportInv(t)
    BY DEF SettlesInv, TellsTrue
  <2>2. QueueShape(t)'
    BY <1>1, <1>3, <2>1 DEF QueueShape, Names, RunsStay
  <2>3. Current(t)' = Current(t) /\ (\A x \in Teller(t)' : x \in Teller(t) /\ x \in Runs) /\ \A tx : Says(tx, t)' <=> Says(tx, t)
    BY <1>1, <1>3 DEF Current, UnderWay, Says, Teller, Live
  <2>4. ReportInv(t)'
    BY <1>1, <1>2, <2>1, <2>3 DEF ReportInv
  <2>5. r \in Teller(t)
    BY <1>1, <1>7 DEF Teller, Live
  <2>6. t \notin crossed => AllAsk(queue[t]) /\ Says(run[r].answer.tx, t)
    BY <1>1, <2>1, <2>5 DEF ReportInv
  <2>7. BarInv(t)'
    BY <1>1, <1>4, <1>7, <2>3, <2>6 DEF BarInv
  <2> QED
    BY <2>2, <2>4, <2>7 DEF TellsTrue
<1> QED
  BY <1>5, <1>6, <1>7 DEF SettlesInv

(* A tab asks for its transaction: the read is the last in the queue, and the
   bar will take its answer. *)
LEMMA AskingSettles ==
  ASSUME SettlesInv, NEW t \in Tabs, NEW i \in Unused(read), RunsStay,
         read' = [read EXCEPT ![i] = Reading(i, t)],
         queue' = [queue EXCEPT ![t] = Append(@, Request("state", i))],
         session' = session, starts' = starts, crossed' = crossed, missed' = missed,
         Teller(t)' \subseteq Teller(t), \A x \in Tabs \ {t} : Teller(x)' = Teller(x),
         \A x \in Tabs : \A r \in Teller(x) : run'[r].answer = run[r].answer,
         \A x \in Tabs : tab'[x].tx = tab[x].tx
  PROVE  ReadShape' /\ \A x \in Tabs : TellsTrue(x)'
<1>1. /\ DOMAIN read = Reads /\ i \in Reads /\ read[i].phase = "new" /\ i \in Nat
      /\ DOMAIN queue = Tabs /\ starts[t] \in Nat
  BY ConsoleAssumption DEF Unused, SettlesInv, ReadShape, Reads
<1>2. /\ \A j \in Reads \ {i} : read'[j] = read[j]
      /\ DOMAIN read' = Reads /\ DOMAIN read'[i] = {"tab", "starts", "phase", "tx"}
      /\ read'[i].tab = t /\ read'[i].starts = starts[t] /\ read'[i].phase = "sent"
  BY <1>1 DEF Reading, NoRead
<1>3. PICK q : q = Request("state", i)
  OBVIOUS
<1>4. q \in Requests /\ q.kind = "state" /\ q.id = i
  BY <1>1, <1>3, Requested
<1>5. queue'[t] = Append(queue[t], q) /\ DOMAIN queue' = Tabs /\ \A x \in Tabs \ {t} : queue'[x] = queue[x]
  BY <1>1, <1>3
<1>6. ReadShape'
  BY <1>1, <1>2, <1>5 DEF SettlesInv, ReadShape
<1>7. ASSUME NEW x \in Tabs, x # t
      PROVE  TellsTrue(x)'
  <2>1. UnderWay(x)' = UnderWay(x) /\ \A j \in UnderWay(x) : read'[j] = read[j]
    BY <1>1, <1>2, <1>7 DEF UnderWay
  <2> QED
    BY <1>5, <1>7, <2>1, TabStays DEF SettlesInv
<1>8. QueueShape(t) /\ ReportInv(t)
  BY DEF SettlesInv, TellsTrue
<1>9. \A n \in DOMAIN queue[t] : Names(t, queue[t][n]) /\ queue[t][n] # q
  BY <1>1, <1>4, <1>8 DEF QueueShape, Names
<1>10. QueueShape(t)'
  <2>1. Names(t, q)'
    BY <1>1, <1>2, <1>4 DEF Names
  <2>2. \A n \in DOMAIN queue[t] : Names(t, queue[t][n])'
    BY <1>2, <1>4, <1>9 DEF Names, RunsStay
  <2>3. queue'[t] \in Seq(Requests) /\ Once(queue'[t])
    BY <1>4, <1>5, <1>8, <1>9, QueuedLast DEF QueueShape
  <2>4. \A n \in DOMAIN queue'[t] : queue'[t][n] = q \/ \E m \in DOMAIN queue[t] : queue'[t][n] = queue[t][m]
    BY <1>4, <1>5, <1>8, QueuedLast DEF QueueShape
  <2>5. \A x : (x = q \/ \E m \in DOMAIN queue[t] : x = queue[t][m]) => Names(t, x)'
    BY <2>1, <2>2
  <2>6. PICK z : z = queue'[t]
    OBVIOUS
  <2>7. \A n \in DOMAIN z : Names(t, z[n])'
    BY <2>4, <2>5, <2>6
  <2> QED
    BY <2>3, <2>6, <2>7 DEF QueueShape
<1>11. /\ AllAsk(queue[t]) => AllAsk(queue'[t])
       /\ \A x : Final(queue[t], x) => Final(queue'[t], x)
       /\ Final(queue'[t], q)
  BY <1>4, <1>5, <1>8, QueuedLast DEF QueueShape
<1>12. /\ Current(t)' = Current(t) \cup {i} /\ (\A j \in Current(t) : j # i /\ read'[j] = read[j])
       /\ \A tx : Says(tx, t)' <=> Says(tx, t)
  <2>1. UnderWay(t)' = UnderWay(t) \cup {i} /\ i \notin UnderWay(t) /\ \A j \in UnderWay(t) : j \in Reads
    BY <1>1, <1>2 DEF UnderWay
  <2> QED
    BY <1>2, <2>1 DEF Current, Says
<1>13. ReportInv(t)'
  <2> SUFFICES ASSUME t \notin crossed
               PROVE  /\ \A j \in Current(t)' :
                           \/ read'[j].phase = "sent" /\ Final(queue'[t], Request("state", j))
                           \/ read'[j].phase = "answered" /\ AllAsk(queue'[t]) /\ Says(read[j].tx, t)'
                      /\ \A r \in Teller(t)' :
                           \/ run'[r].answer = None /\ Final(queue'[t], Request("run", r))
                           \/ AllAsk(queue'[t]) /\ Says(run[r].answer.tx, t)'
    BY DEF ReportInv
  <2>1. read'[i].phase = "sent" /\ Final(queue'[t], Request("state", i))
    BY <1>2, <1>3, <1>11
  <2>2. ASSUME NEW j \in Current(t)
        PROVE  \/ read'[j].phase = "sent" /\ Final(queue'[t], Request("state", j))
               \/ read'[j].phase = "answered" /\ AllAsk(queue'[t]) /\ Says(read[j].tx, t)'
    <3>1. Says(read[j].tx, t) => Says(read[j].tx, t)'
      BY <1>12 DEF Says
    <3> QED
      BY <1>8, <1>11, <1>12, <3>1 DEF ReportInv
  <2>3. ASSUME NEW r \in Teller(t)
        PROVE  \/ run'[r].answer = None /\ Final(queue'[t], Request("run", r))
               \/ AllAsk(queue'[t]) /\ Says(run[r].answer.tx, t)'
    <3>1. run'[r].answer = run[r].answer
      OBVIOUS
    <3>2. Says(run[r].answer.tx, t) => Says(run[r].answer.tx, t)'
      BY <3>1 DEF Says
    <3> QED
      BY <1>8, <1>11, <3>1, <3>2 DEF ReportInv
  <2> QED
    BY <1>12, <2>1, <2>2, <2>3
<1>14. BarInv(t)'
  BY <1>12 DEF BarInv
<1> QED
  BY <1>6, <1>7, <1>10, <1>13, <1>14 DEF TellsTrue

LEMMA RefreshTransactionSettles ==
  ASSUME SettlesInv, IInv', NEW t \in Tabs, RefreshTransaction(t)
  PROVE  SettlesInv'
<1> USE DEF clientVars, serverVars, ghosts
<1>1. PICK i \in Unused(read) : /\ read' = [read EXCEPT ![i] = Reading(i, t)]
                                /\ queue' = [queue EXCEPT ![t] = Append(@, Request("state", i))]
  BY DEF RefreshTransaction
<1>2. /\ session' = session /\ starts' = starts /\ crossed' = crossed /\ missed' = missed /\ tab' = tab
      /\ run' = run /\ controller' = controller
  BY DEF RefreshTransaction
<1>3. RunsStay /\ \A x \in Tabs : Teller(x)' = Teller(x) /\ \A r \in Teller(x) : run'[r].answer = run[r].answer
  BY <1>2, OwnersStay
<1>4. ReadShape' /\ \A x \in Tabs : TellsTrue(x)'
  BY <1>1, <1>2, <1>3, AskingSettles
<1> QED
  BY <1>4 DEF SettlesInv

LEMMA AbortedSettles ==
  ASSUME SettlesInv, IInv', NEW r \in Runs, Aborted(r)
  PROVE  SettlesInv'
<1> USE DEF clientVars, serverVars, ghosts
<1>1. /\ run[r].phase = "sent" /\ controller[run[r].tab] = r /\ DOMAIN run = Runs
      /\ \A x \in Runs : DOMAIN run[x] = {"tab", "kind", "command", "phase", "answer"}
      /\ \/ run' = [run EXCEPT ![r].phase = "settling"] /\ controller' = controller
         \/ run' = Finished(r) /\ controller' = Released(r)
      /\ session' = session /\ starts' = starts /\ crossed' = crossed /\ missed' = missed
  BY DEF Aborted, Owns, IsCurrentRun, SettlesInv, IInv, RunShape
<1>2. /\ \A x \in Runs : run'[x].tab = run[x].tab /\ run'[x].kind = run[x].kind /\ run'[x].answer = run[x].answer
                         /\ (x # r => run'[x].phase = run[x].phase)
      /\ run'[r].phase \in {"done", "settling", "listing"}
  BY <1>1 DEF Finished
<1>3. /\ RunsStay /\ run[r].tab \in Tabs /\ \A t \in Tabs : Teller(t)' = Teller(t) \ {r}
      /\ \A t \in Tabs \ {run[r].tab} : r \notin Teller(t)
  BY <1>1, <1>2, TellersOf DEF SettlesInv, Released
<1>4. PICK t \in Tabs : t = run[r].tab
  BY <1>3
<1>5. PICK i \in Unused(read) : /\ read' = [read EXCEPT ![i] = Reading(i, t)]
                                /\ queue' = [queue EXCEPT ![t] = Append(@, Request("state", i))]
  BY <1>4 DEF Aborted
<1>6. \A x \in Tabs : tab'[x].tx = tab[x].tx
  <2>1. PICK failed, canceled : tab' = Show(r, failed, canceled)
    BY DEF Aborted
  <2> QED
    BY <1>3, <2>1, ShowKeepsBar DEF SettlesInv, IInv
<1>7. /\ Teller(t)' \subseteq Teller(t) /\ (\A x \in Tabs \ {t} : Teller(x)' = Teller(x))
      /\ \A x \in Tabs : \A y \in Teller(x) : run'[y].answer = run[y].answer
  BY <1>2, <1>3, <1>4 DEF Teller, Live
<1>8. ReadShape' /\ \A x \in Tabs : TellsTrue(x)'
  BY <1>1, <1>3, <1>5, <1>6, <1>7, AskingSettles
<1> QED
  BY <1>8 DEF SettlesInv

(* A run that begins supersedes every read and run of its tab.  It will tell
   the bar itself, unless it is outside of the session. *)
LEMMA StartRunSettles ==
  ASSUME SettlesInv, IInv', NEW t \in Tabs, NEW kind, NEW command, StartRun(t, kind, command)
  PROVE  SettlesInv'
<1> USE DEF clientVars, serverVars, ghosts
<1>1. PICK r \in Unused(run) :
        /\ run' = [run EXCEPT ![r] = [NoRun EXCEPT !.tab = t, !.kind = kind, !.command = command,
                                                   !.phase = "sent"]]
        /\ controller' = [controller EXCEPT ![t] = r]
        /\ starts' = [starts EXCEPT ![t] = @ + 1]
        /\ tab' = [tab EXCEPT ![t].running = TRUE, ![t].failed = FALSE, ![t].shown = None]
        /\ queue' = IF kind \in InSession THEN [queue EXCEPT ![t] = Append(@, Request("run", r))] ELSE queue
        /\ missed' = IF kind \notin InSession /\ (UnderWay(t) # {} \/ controller[t] \in Live(t))
                     THEN missed \cup {t} ELSE missed
        /\ read' = read /\ session' = session /\ crossed' = crossed
  BY DEF StartRun
<1>2. /\ DOMAIN run = Runs /\ r \in Runs /\ r \in Nat /\ run[r].phase = "new"
      /\ controller \in [Tabs -> Runs \cup {None}] /\ starts \in [Tabs -> Nat] /\ DOMAIN queue = Tabs
      /\ DOMAIN tab = Tabs /\ \A x \in Tabs : DOMAIN tab[x] = TabFields
  BY <1>1, ConsoleAssumption DEF Unused, SettlesInv, IInv, RunShape, TabShape, ReadShape, Runs
<1>3. /\ \A x \in Runs \ {r} : run'[x] = run[x]
      /\ run'[r].tab = t /\ run'[r].kind = kind /\ run'[r].phase = "sent" /\ run'[r].answer = None
  BY <1>1, <1>2 DEF NoRun
<1>4. RunsStay
  BY <1>2, <1>3 DEF RunsStay
<1>5. /\ \A x \in Tabs \ {t} : controller'[x] = controller[x] /\ starts'[x] = starts[x] /\ queue'[x] = queue[x]
      /\ controller'[t] = r /\ starts'[t] = starts[t] + 1 /\ starts' \in [Tabs -> Nat] /\ DOMAIN queue' = Tabs
  BY <1>1, <1>2
<1>6. \A x \in Tabs : tab'[x].tx = tab[x].tx
  BY <1>1, <1>2 DEF TabFields
<1>7. \A x \in Tabs : UnderWay(x)' = UnderWay(x) /\ \A i \in UnderWay(x) : read'[i] = read[i]
  BY <1>1 DEF UnderWay
<1>8. ReadShape'
  <2>1. ReadShape
    BY DEF SettlesInv
  <2> SUFFICES ASSUME NEW i \in Reads, read[i].phase \in {"sent", "answered"}
               PROVE  read[i].tab \in Tabs /\ read[i].starts \in Nat /\ read[i].starts <= starts'[read[i].tab]
    BY <1>1, <1>5, <2>1 DEF ReadShape
  <2>2. read[i].tab \in Tabs /\ read[i].starts \in Nat /\ read[i].starts <= starts[read[i].tab]
    BY <2>1 DEF ReadShape
  <2>3. starts[read[i].tab] \in Nat /\ starts[read[i].tab] <= starts'[read[i].tab] /\ starts'[read[i].tab] \in Nat
    BY <1>2, <1>5, <2>2
  <2> QED
    BY <2>2, <2>3
<1>9. ASSUME NEW x \in Tabs, x # t
      PROVE  TellsTrue(x)'
  <2>1. r \notin Live(x) /\ r \notin Live(x)'
    BY <1>2, <1>3, <1>9 DEF Live
  <2>2. Live(x)' = Live(x) /\ \A y \in Live(x) : y \in Runs /\ run'[y] = run[y]
    BY <1>3, <2>1 DEF Live
  <2>3. Teller(x)' = Teller(x) /\ \A y \in Teller(x) : run'[y].answer = run[y].answer
    BY <1>5, <1>9, <2>2 DEF Teller
  <2> QED
    BY <1>1, <1>4, <1>5, <1>6, <1>7, <1>9, <2>3, TabStays DEF SettlesInv
<1>10. QueueShape(t) /\ ReportInv(t) /\ BarInv(t)
  BY DEF SettlesInv, TellsTrue
<1>11. \A n \in DOMAIN queue[t] : Names(t, queue[t][n])' /\ queue[t][n] # Request("run", r)
  <2>1. \A n \in DOMAIN queue[t] : Names(t, queue[t][n])
    BY <1>10 DEF QueueShape
  <2>2. Request("run", r).kind = "run" /\ Request("run", r).id = r
    BY <1>2, Requested
  <2> QED
    BY <1>1, <1>2, <1>4, <2>1, <2>2 DEF Names, RunsStay
<1>12. Current(t)' = {}
  <2> SUFFICES ASSUME NEW i \in Current(t)'
               PROVE  FALSE
    OBVIOUS
  <2>1. i \in Reads /\ read[i].tab = t /\ read[i].phase \in {"sent", "answered"} /\ read[i].starts = starts[t] + 1
    BY <1>1, <1>5 DEF Current, UnderWay
  <2>2. read[i].starts \in Nat /\ read[i].starts <= starts[t] /\ starts[t] \in Nat
    BY <1>2, <2>1 DEF SettlesInv, ReadShape
  <2> QED
    BY <2>1, <2>2
<1>13. CASE kind \in InSession
  <2>1. PICK q : q = Request("run", r)
    OBVIOUS
  <2>2. q \in Requests /\ q.kind = "run" /\ q.id = r
    BY <1>2, <2>1, Requested
  <2>3. queue'[t] = Append(queue[t], q)
    BY <1>1, <1>2, <1>13, <2>1
  <2>4. Names(t, q)'
    BY <1>2, <1>3, <1>13, <2>2 DEF Names
  <2>5. queue'[t] \in Seq(Requests) /\ Once(queue'[t]) /\ Final(queue'[t], q)
    BY <1>10, <1>11, <2>1, <2>2, <2>3, QueuedLast DEF QueueShape
  <2>6. \A n \in DOMAIN queue'[t] : queue'[t][n] = q \/ n \in DOMAIN queue[t]
    BY <1>10, <2>2, <2>3, QueuedLast DEF QueueShape
  <2>7. QueueShape(t)'
    <3>1. \A n \in DOMAIN queue'[t] : Names(t, queue[t][n])'
      BY <1>11, <2>4, <2>6
    <3> QED
      BY <2>5, <3>1 DEF QueueShape
  <2>8. Teller(t)' = {r}
    BY <1>2, <1>3, <1>5, <1>13 DEF Teller, Live
  <2>9. ReportInv(t)' /\ BarInv(t)'
    BY <1>3, <1>12, <2>1, <2>5, <2>8 DEF ReportInv, BarInv
  <2> QED
    BY <1>8, <1>9, <2>7, <2>9 DEF SettlesInv, TellsTrue
<1>14. CASE kind \notin InSession
  <2>1. queue' = queue
    BY <1>1, <1>14
  <2>2. QueueShape(t)'
    BY <1>10, <1>11, <2>1 DEF QueueShape
  <2>3. Teller(t)' = {}
    BY <1>3, <1>5, <1>14 DEF Teller
  <2>4. ReportInv(t)'
    BY <1>12, <2>3 DEF ReportInv
  <2>5. BarInv(t)'
    <3>1. ASSUME t \notin missed'
          PROVE  Current(t) = {} /\ Teller(t) = {} /\ t \notin missed
      BY <1>1, <1>14, <3>1 DEF Current, Teller
    <3>2. \A tx : Says(tx, t)' <=> Says(tx, t)
      BY <1>1 DEF Says
    <3> QED
      BY <1>1, <1>6, <1>10, <2>1, <3>1, <3>2 DEF BarInv
  <2> QED
    BY <1>8, <1>9, <2>2, <2>4, <2>5 DEF SettlesInv, TellsTrue
<1> QED
  BY <1>13, <1>14

(* A read that is over, answered or lost. *)
ReadOver(i) == read' = [read EXCEPT ![i] = [NoRead EXCEPT !.phase = "done"]]

LEMMA ReadEnds ==
  ASSUME SettlesInv, NEW i \in Reads, read[i].phase \in {"sent", "answered"}, ReadOver(i)
  PROVE  /\ DOMAIN read' = Reads /\ DOMAIN read'[i] = {"tab", "starts", "phase", "tx"}
         /\ read[i].tab \in Tabs /\ read'[i].phase = "done" /\ \A j \in Reads \ {i} : read'[j] = read[j]
         /\ \A t \in Tabs : UnderWay(t)' = UnderWay(t) \ {i} /\ \A j \in UnderWay(t)' : j \in Reads /\ j # i
         /\ \A t \in Tabs \ {read[i].tab} : UnderWay(t)' = UnderWay(t) /\ \A j \in UnderWay(t) : read'[j] = read[j]
<1>1. DOMAIN read = Reads /\ read[i].tab \in Tabs
  BY DEF SettlesInv, ReadShape
<1>2. /\ DOMAIN read' = Reads /\ DOMAIN read'[i] = {"tab", "starts", "phase", "tx"}
      /\ read'[i].phase = "done" /\ \A j \in Reads \ {i} : read'[j] = read[j]
  BY <1>1 DEF ReadOver, NoRead
<1>3. \A t \in Tabs : UnderWay(t)' = UnderWay(t) \ {i}
  BY <1>2 DEF UnderWay
<1>4. \A t \in Tabs \ {read[i].tab} : i \notin UnderWay(t)
  BY DEF UnderWay
<1>5. \A t \in Tabs : \A j \in UnderWay(t) : j \in Reads
  BY DEF UnderWay
<1>6. \A t \in Tabs : \A j \in UnderWay(t)' : j \in Reads /\ j # i
  BY <1>3, <1>5
<1>7. \A t \in Tabs \ {read[i].tab} : UnderWay(t)' = UnderWay(t) /\ \A j \in UnderWay(t) : read'[j] = read[j]
  BY <1>2, <1>3, <1>4, <1>5
<1> QED
  BY <1>1, <1>2, <1>3, <1>6, <1>7

LEMMA TransactionReadSettles ==
  ASSUME SettlesInv, IInv', NEW i \in Reads, TransactionRead(i)
  PROVE  SettlesInv'
<1> USE DEF clientVars, serverVars, ghosts
<1>1. /\ read[i].phase = "answered" /\ ReadOver(i)
      /\ run' = run /\ controller' = controller /\ queue' = queue /\ session' = session /\ starts' = starts
      /\ crossed' = crossed
      /\ \/ /\ read[i].starts = starts[read[i].tab] /\ missed' = missed \ {read[i].tab}
            /\ tab' = [tab EXCEPT ![read[i].tab].tx = read[i].tx]
         \/ read[i].starts # starts[read[i].tab] /\ missed' = missed /\ tab' = tab
  BY DEF TransactionRead, ReadOver, StillAsked
<1>2. PICK t \in Tabs : t = read[i].tab
  BY <1>1, ReadEnds
<1>3. /\ DOMAIN read' = Reads /\ DOMAIN read'[i] = {"tab", "starts", "phase", "tx"}
      /\ read'[i].phase = "done" /\ \A j \in Reads \ {i} : read'[j] = read[j]
  BY <1>1, ReadEnds
<1>4. ReadShape'
  BY <1>1, <1>3 DEF SettlesInv, ReadShape
<1>5. RunsStay /\ \A x \in Tabs : Teller(x)' = Teller(x) /\ \A r \in Teller(x) : run'[r].answer = run[r].answer
  BY <1>1, OwnersStay
<1>6. DOMAIN tab = Tabs /\ \A x \in Tabs : DOMAIN tab[x] = TabFields
  BY DEF SettlesInv, IInv, TabShape
<1>7. \A x \in Tabs \ {t} : tab'[x].tx = tab[x].tx
  BY <1>1, <1>2, <1>6
<1>8. ASSUME NEW x \in Tabs, x # t
      PROVE  TellsTrue(x)'
  <2>1. UnderWay(x)' = UnderWay(x) /\ \A j \in UnderWay(x) : read'[j] = read[j]
    BY <1>1, <1>2, <1>8, ReadEnds
  <2> QED
    BY <1>1, <1>2, <1>5, <1>7, <1>8, <2>1, TabStays DEF SettlesInv
<1>9. QueueShape(t) /\ ReportInv(t) /\ BarInv(t)
  BY DEF SettlesInv, TellsTrue
<1>10. QueueShape(t)'
  <2>1. \A q : Names(t, q) => Names(t, q)'
    BY <1>1, <1>3 DEF Names
  <2> QED
    BY <1>1, <1>9, <2>1 DEF QueueShape
<1>11. /\ Current(t)' = Current(t) \ {i} /\ (\A j \in Current(t)' : read'[j] = read[j])
       /\ \A tx : Says(tx, t)' <=> Says(tx, t)
  <2>1. UnderWay(t)' = UnderWay(t) \ {i} /\ \A j \in UnderWay(t)' : j \in Reads /\ j # i
    BY <1>1, ReadEnds
  <2> QED
    BY <1>1, <1>3, <2>1 DEF Current, Says
<1>12. ReportInv(t)'
  BY <1>1, <1>5, <1>9, <1>11 DEF ReportInv
<1>13. BarInv(t)'
  <2>1. CASE read[i].starts = starts[t]
    <3>1. i \in Current(t)
      BY <1>1, <1>2, <2>1 DEF Current, UnderWay
    <3>2. t \notin crossed => AllAsk(queue[t]) /\ Says(read[i].tx, t)
      BY <1>1, <1>9, <3>1 DEF ReportInv
    <3>3. tab'[t].tx = read[i].tx
      BY <1>1, <1>2, <1>6, <2>1 DEF TabFields
    <3> QED
      BY <1>1, <1>11, <3>2, <3>3 DEF BarInv
  <2>2. CASE read[i].starts # starts[t]
    <3>1. i \notin Current(t)
      BY <2>2 DEF Current
    <3> QED
      BY <1>1, <1>2, <1>5, <1>9, <1>11, <2>2, <3>1 DEF BarInv
  <2> QED
    BY <2>1, <2>2
<1> QED
  BY <1>4, <1>8, <1>10, <1>12, <1>13 DEF SettlesInv, TellsTrue

LEMMA ReadLostSettles ==
  ASSUME SettlesInv, IInv', NEW i \in Reads, ReadLost(i)
  PROVE  SettlesInv'
<1> USE DEF clientVars, serverVars, ghosts
<1>1. /\ read[i].phase \in {"sent", "answered"} /\ ReadOver(i)
      /\ run' = run /\ controller' = controller /\ session' = session /\ starts' = starts /\ tab' = tab
      /\ queue' = [queue EXCEPT ![read[i].tab] = Without(@, {Request("state", i)})]
      /\ crossed' = crossed /\ missed' = missed \cup {read[i].tab}
  BY DEF ReadLost, ReadOver
<1>2. PICK t \in Tabs : t = read[i].tab
  BY <1>1, ReadEnds
<1>3. /\ DOMAIN read' = Reads /\ DOMAIN read'[i] = {"tab", "starts", "phase", "tx"}
      /\ read'[i].phase = "done" /\ \A j \in Reads \ {i} : read'[j] = read[j]
  BY <1>1, ReadEnds
<1>4. PICK W : W = {Request("state", i)}
  OBVIOUS
<1>5. /\ queue'[t] = Without(queue[t], W) /\ DOMAIN queue' = Tabs
      /\ \A x \in Tabs \ {t} : queue'[x] = queue[x]
  BY <1>1, <1>2, <1>4 DEF SettlesInv, ReadShape
<1>6. ReadShape'
  BY <1>1, <1>3, <1>5 DEF SettlesInv, ReadShape
<1>7. RunsStay /\ \A x \in Tabs : Teller(x)' = Teller(x) /\ \A r \in Teller(x) : run'[r].answer = run[r].answer
  BY <1>1, OwnersStay
<1>8. ASSUME NEW x \in Tabs, x # t
      PROVE  TellsTrue(x)'
  <2>1. UnderWay(x)' = UnderWay(x) /\ \A j \in UnderWay(x) : read'[j] = read[j]
    BY <1>1, <1>2, <1>8, ReadEnds
  <2> QED
    BY <1>1, <1>5, <1>7, <1>8, <2>1, TabStays DEF SettlesInv
<1>9. QueueShape(t) /\ ReportInv(t)
  BY DEF SettlesInv, TellsTrue
<1>10. PICK s \in Seq(Requests) : s = queue[t]
  BY <1>9 DEF QueueShape
<1>11. /\ queue'[t] \in Seq(Requests)
       /\ \A n \in DOMAIN queue'[t] : queue'[t][n] \notin W /\ \E m \in DOMAIN s : queue'[t][n] = s[m]
       /\ AllAsk(s) => AllAsk(queue'[t])
       /\ \A x : Final(s, x) /\ x \notin W => Final(queue'[t], x)
       /\ Once(s) => Once(queue'[t])
  BY <1>5, <1>10, Withdrawn
<1>12. QueueShape(t)'
  <2>1. \A m \in DOMAIN s : s[m] \notin W => Names(t, s[m])'
    <3>1. ASSUME NEW m \in DOMAIN s, s[m] \notin W
          PROVE  Names(t, s[m])'
      <4>1. Names(t, s[m]) /\ s[m] \in Requests
        BY <1>9, <1>10 DEF QueueShape
      <4>2. s[m].kind = "state" => s[m].id # i
        BY <1>4, <3>1, <4>1 DEF Request, Requests
      <4> QED
        BY <1>1, <1>3, <4>1, <4>2 DEF Names
    <3> QED
      BY <3>1
  <2> QED
    BY <1>9, <1>10, <1>11, <2>1 DEF QueueShape
<1>13. ReportInv(t)'
  <2>1. UnderWay(t)' = UnderWay(t) \ {i} /\ \A j \in UnderWay(t)' : j \in Reads /\ j # i
    BY <1>1, ReadEnds
  <2>2. /\ Current(t)' = Current(t) \ {i} /\ (\A j \in Current(t)' : read'[j] = read[j])
        /\ \A tx : Says(tx, t)' <=> Says(tx, t)
    BY <1>1, <1>3, <2>1 DEF Current, Says
  <2>3. /\ \A j \in Current(t)' : Request("state", j) \notin W
        /\ \A r : Request("run", r) \notin W
    BY <1>4, <2>2 DEF Request
  <2> QED
    BY <1>1, <1>7, <1>9, <1>10, <1>11, <2>2, <2>3 DEF ReportInv
<1> QED
  BY <1>1, <1>2, <1>6, <1>8, <1>12, <1>13 DEF SettlesInv, TellsTrue, BarInv

(* Serving a request takes it out of the queue. *)
LEMMA Serving ==
  ASSUME SettlesInv, NEW t \in Tabs, queue[t] # <<>>, queue' = [queue EXCEPT ![t] = Tail(@)]
  PROVE  /\ DOMAIN queue' = Tabs /\ \A x \in Tabs \ {t} : queue'[x] = queue[x]
         /\ Names(t, Head(queue[t])) /\ Head(queue[t]) \in Requests
         /\ queue'[t] \in Seq(Requests) /\ Once(queue'[t])
         /\ \A n \in DOMAIN queue'[t] : \E m \in DOMAIN queue[t] : queue'[t][n] = queue[t][m]
         /\ AllAsk(queue[t]) => AllAsk(queue'[t]) /\ Head(queue[t]).kind = "state"
         /\ \A x : Final(queue[t], x) => Final(queue'[t], x) \/ (x = Head(queue[t]) /\ AllAsk(queue'[t]))
         /\ Head(queue[t]).kind # "end" => \A n \in DOMAIN queue'[t] : queue'[t][n] # Head(queue[t])
<1>1. DOMAIN queue = Tabs /\ QueueShape(t)
  BY DEF SettlesInv, ReadShape, TellsTrue
<1>2. PICK s \in Seq(Requests) : s = queue[t] /\ Once(s) /\ s # <<>>
  BY <1>1 DEF QueueShape
<1>3. queue'[t] = Tail(s) /\ DOMAIN queue' = Tabs /\ \A x \in Tabs \ {t} : queue'[x] = queue[x]
  BY <1>1, <1>2
<1>4. \E n \in DOMAIN s : s[n] = Head(s)
  BY <1>2, ServedFirst
<1>5. Names(t, Head(s))
  BY <1>1, <1>2, <1>4 DEF QueueShape
<1>6. /\ Tail(s) \in Seq(Requests) /\ Head(s) \in Requests
      /\ \A n \in DOMAIN Tail(s) : \E m \in DOMAIN s : Tail(s)[n] = s[m]
      /\ AllAsk(s) => AllAsk(Tail(s)) /\ Head(s).kind = "state"
      /\ \A x : Final(s, x) => Final(Tail(s), x) \/ (x = Head(s) /\ AllAsk(Tail(s)))
      /\ Once(Tail(s))
      /\ Head(s).kind # "end" => \A n \in DOMAIN Tail(s) : Tail(s)[n] # Head(s)
  BY <1>2, ServedFirst
<1> QED
  BY <1>2, <1>3, <1>5, <1>6

LEMMA ServingARun ==
  ASSUME SettlesInv, IInv', NEW t \in Tabs, queue[t] # <<>>, Head(queue[t]).kind = "run", NEW a,
         queue' = [queue EXCEPT ![t] = Tail(@)],
         run' = [run EXCEPT ![Head(queue[t]).id].answer = a],
         DOMAIN session' = Tabs, \A x \in Tabs \ {t} : session'[x] = session[x],
         a.tx = session'[t] \/ (a.tx = "expired" /\ session'[t] = "idle"),
         controller' = controller, starts' = starts, read' = read, tab' = tab,
         crossed' = crossed, missed' = missed
  PROVE  SettlesInv'
<1>1. /\ DOMAIN queue' = Tabs /\ \A x \in Tabs \ {t} : queue'[x] = queue[x]
      /\ queue'[t] \in Seq(Requests) /\ Once(queue'[t])
      /\ \A n \in DOMAIN queue'[t] : \E m \in DOMAIN queue[t] : queue'[t][n] = queue[t][m]
      /\ ~AllAsk(queue[t])
      /\ \A x : Final(queue[t], x) => Final(queue'[t], x) \/ (x = Head(queue[t]) /\ AllAsk(queue'[t]))
  BY Serving
<1>2. PICK r \in Runs : /\ r = Head(queue[t]).id /\ run[r].tab = t /\ run[r].phase # "new"
                        /\ Head(queue[t]) = Request("run", r)
  <2>1. Names(t, Head(queue[t])) /\ Head(queue[t]) \in Requests
    BY Serving
  <2>2. Head(queue[t]).id \in Runs /\ run[Head(queue[t]).id].tab = t /\ run[Head(queue[t]).id].phase # "new"
    BY <2>1 DEF Names
  <2>3. Head(queue[t]) = Request("run", Head(queue[t]).id)
    BY <2>1 DEF Request, Requests
  <2> QED
    BY <2>2, <2>3
<1>3. /\ DOMAIN run = Runs
      /\ \A x \in Runs : DOMAIN run[x] = {"tab", "kind", "command", "phase", "answer"}
  BY DEF SettlesInv, IInv, RunShape
<1>4. /\ \A x \in Runs : run'[x].tab = run[x].tab /\ run'[x].kind = run[x].kind /\ run'[x].phase = run[x].phase
                         /\ (x # r => run'[x].answer = run[x].answer)
      /\ run'[r].answer = a
  BY <1>2, <1>3
<1>5. RunsStay /\ \A x \in Tabs : Teller(x)' = Teller(x)
  BY <1>4 DEF RunsStay, Teller, Live
<1>6. \A x \in Tabs : UnderWay(x)' = UnderWay(x) /\ \A j \in UnderWay(x) : read'[j] = read[j]
  BY DEF UnderWay
<1>7. ReadShape'
  BY <1>1 DEF SettlesInv, ReadShape
<1>8. ASSUME NEW x \in Tabs, x # t
      PROVE  TellsTrue(x)'
  <2>1. \A y \in Teller(x) : run'[y].answer = run[y].answer
    BY <1>2, <1>4, <1>8 DEF Teller, Live
  <2> QED
    BY <1>1, <1>5, <1>6, <1>8, <2>1, TabStays DEF SettlesInv
<1>9. QueueShape(t) /\ ReportInv(t) /\ BarInv(t)
  BY DEF SettlesInv, TellsTrue
<1>10. QueueShape(t)'
  <2>1. \A q : Names(t, q) => Names(t, q)'
    BY <1>4 DEF Names
  <2> QED
    BY <1>1, <1>9, <2>1 DEF QueueShape
<1>11. Current(t)' = Current(t) /\ \A j \in Current(t) : read'[j] = read[j]
  BY <1>6 DEF Current
<1>12. ReportInv(t)'
  <2> SUFFICES ASSUME t \notin crossed
               PROVE  /\ \A j \in Current(t) :
                           \/ read[j].phase = "sent" /\ Final(queue'[t], Request("state", j))
                           \/ read[j].phase = "answered" /\ AllAsk(queue'[t]) /\ Says(read[j].tx, t)'
                      /\ \A x \in Teller(t) :
                           \/ run'[x].answer = None /\ Final(queue'[t], Request("run", x))
                           \/ AllAsk(queue'[t]) /\ Says(run[x].answer.tx, t)'
    BY <1>5, <1>11 DEF ReportInv
  <2>1. ASSUME NEW j \in Current(t)
        PROVE  read[j].phase = "sent" /\ Final(queue'[t], Request("state", j))
    <3>1. read[j].phase = "sent" /\ Final(queue[t], Request("state", j))
      BY <1>1, <1>9, <2>1 DEF ReportInv
    <3>2. Request("state", j) # Head(queue[t])
      BY <1>2 DEF Request
    <3> QED
      BY <1>1, <3>1, <3>2
  <2>2. ASSUME NEW x \in Teller(t)
        PROVE  \/ run'[x].answer = None /\ Final(queue'[t], Request("run", x))
               \/ AllAsk(queue'[t]) /\ Says(run[x].answer.tx, t)'
    <3>1. x \in Runs /\ run[x].answer = None /\ Final(queue[t], Request("run", x))
      BY <1>1, <1>9, <2>2 DEF ReportInv, Teller, Live
    <3>2. CASE Request("run", x) = Head(queue[t])
      <4>1. x = r
        BY <1>2, <3>2 DEF Request
      <4>2. AllAsk(queue'[t])
        <5>1. \A n \in DOMAIN queue'[t] : queue'[t][n] # Head(queue[t])
          BY Serving
        <5>2. ~Final(queue'[t], Head(queue[t]))
          BY <5>1 DEF Final
        <5> QED
          BY <1>1, <3>1, <3>2, <5>2
      <4> QED
        BY <1>4, <4>1, <4>2 DEF Says
    <3>3. CASE Request("run", x) # Head(queue[t])
      <4>1. x # r
        BY <1>2, <3>3
      <4> QED
        BY <1>1, <1>4, <3>1, <3>3, <4>1
    <3> QED
      BY <3>2, <3>3
  <2> QED
    BY <2>1, <2>2
<1>13. BarInv(t)'
  <2>1. Request("end", 0) # Head(queue[t])
    BY <1>2 DEF Request
  <2> QED
    BY <1>1, <1>5, <1>9, <1>11, <2>1 DEF BarInv
<1> QED
  BY <1>7, <1>8, <1>10, <1>12, <1>13 DEF SettlesInv, TellsTrue

LEMMA ServeSettles ==
  ASSUME SettlesInv, IInv', NEW t \in Tabs, NEW tx, Serve(t, tx) \/ Refuse(t, tx)
  PROVE  SettlesInv'
<1> USE DEF clientVars, serverVars, ghosts
<1>1. DOMAIN session = Tabs
  BY DEF SettlesInv, ReadShape
<1>2. CASE Serve(t, tx)
  <2>1. PICK a : a = [failed |-> FALSE, tx |-> tx]
    OBVIOUS
  <2>2. /\ queue[t] # <<>> /\ Head(queue[t]).kind = "run" /\ queue' = [queue EXCEPT ![t] = Tail(@)]
        /\ run' = [run EXCEPT ![Head(queue[t]).id].answer = a]
        /\ controller' = controller /\ starts' = starts /\ read' = read /\ tab' = tab
        /\ crossed' = crossed /\ missed' = missed
    BY <1>2, <2>1 DEF Serve
  <2>3. session' = [session EXCEPT ![t] = tx] \/ (session' = session /\ tx = session[t])
    BY <1>2 DEF Serve
  <2>4. DOMAIN session' = Tabs /\ (\A x \in Tabs \ {t} : session'[x] = session[x]) /\ a.tx = session'[t]
    BY <1>1, <2>1, <2>3
  <2> QED
    BY <2>2, <2>4, ServingARun
<1>3. CASE Refuse(t, tx)
  <2>1. PICK a : a = [failed |-> TRUE, tx |-> tx]
    OBVIOUS
  <2>2. /\ queue[t] # <<>> /\ Head(queue[t]).kind = "run" /\ queue' = [queue EXCEPT ![t] = Tail(@)]
        /\ run' = [run EXCEPT ![Head(queue[t]).id].answer = a]
        /\ controller' = controller /\ starts' = starts /\ read' = read /\ tab' = tab
        /\ crossed' = crossed /\ missed' = missed
    BY <1>3, <2>1 DEF Refuse
  <2>3. session' = [session EXCEPT ![t] = IF tx = "expired" THEN "idle" ELSE tx]
    BY <1>3 DEF Refuse
  <2>4. /\ DOMAIN session' = Tabs /\ \A x \in Tabs \ {t} : session'[x] = session[x]
        /\ a.tx = session'[t] \/ (a.tx = "expired" /\ session'[t] = "idle")
    BY <1>1, <2>1, <2>3
  <2> QED
    BY <2>2, <2>4, ServingARun
<1> QED
  BY <1>2, <1>3

LEMMA ServePlanSettles ==
  ASSUME SettlesInv, IInv', NEW r \in Runs, NEW failed, ServePlan(r, failed)
  PROVE  SettlesInv'
<1> USE DEF clientVars, serverVars, ghosts
<1>1. /\ run[r].kind \notin InSession /\ DOMAIN run = Runs
      /\ \A x \in Runs : DOMAIN run[x] = {"tab", "kind", "command", "phase", "answer"}
  BY DEF ServePlan, SettlesInv, IInv, RunShape
<1>2. \A x \in Runs : run'[x].tab = run[x].tab /\ run'[x].kind = run[x].kind /\ run'[x].phase = run[x].phase
                      /\ (x # r => run'[x].answer = run[x].answer)
  BY <1>1 DEF ServePlan
<1>3. RunsStay /\ \A t \in Tabs : Teller(t)' = Teller(t)
  BY <1>2 DEF ServePlan, RunsStay, Teller, Live
<1>4. \A t \in Tabs : \A x \in Teller(t) : run'[x].answer = run[x].answer
  BY <1>1, <1>2 DEF Teller, Live
<1> QED
  BY <1>3, <1>4, SessionsStay DEF ServePlan

(* A read is told how the transaction stands, when nothing before it is left. *)
LEMMA ServeStateSettles ==
  ASSUME SettlesInv, IInv', NEW t \in Tabs, ServeState(t)
  PROVE  SettlesInv'
<1> USE DEF clientVars, serverVars, ghosts
<1>1. /\ queue[t] # <<>> /\ Head(queue[t]).kind = "state" /\ queue' = [queue EXCEPT ![t] = Tail(@)]
      /\ read' = [read EXCEPT ![Head(queue[t]).id].phase = "answered", ![Head(queue[t]).id].tx = session[t]]
      /\ run' = run /\ controller' = controller /\ starts' = starts /\ tab' = tab /\ session' = session
      /\ crossed' = crossed /\ missed' = missed
  BY DEF ServeState
<1>2. /\ DOMAIN queue' = Tabs /\ \A x \in Tabs \ {t} : queue'[x] = queue[x]
      /\ Names(t, Head(queue[t])) /\ Head(queue[t]) \in Requests
      /\ queue'[t] \in Seq(Requests) /\ Once(queue'[t])
      /\ \A n \in DOMAIN queue'[t] : \E m \in DOMAIN queue[t] : queue'[t][n] = queue[t][m]
      /\ AllAsk(queue[t]) => AllAsk(queue'[t])
      /\ \A x : Final(queue[t], x) => Final(queue'[t], x) \/ (x = Head(queue[t]) /\ AllAsk(queue'[t]))
      /\ \A n \in DOMAIN queue'[t] : queue'[t][n] # Head(queue[t])
  BY <1>1, Serving
<1>3. PICK i \in Reads : i = Head(queue[t]).id /\ Head(queue[t]) = Request("state", i)
                         /\ read[i].tab = t /\ read[i].phase = "sent"
  <2>1. Head(queue[t]) = Request("state", Head(queue[t]).id)
    BY <1>1, <1>2 DEF Request, Requests
  <2> QED
    BY <1>1, <1>2, <2>1 DEF Names
<1>4. /\ DOMAIN read' = Reads /\ DOMAIN read'[i] = {"tab", "starts", "phase", "tx"}
      /\ read'[i].tab = t /\ read'[i].starts = read[i].starts /\ read'[i].phase = "answered" /\ read'[i].tx = session[t]
      /\ \A j \in Reads \ {i} : read'[j] = read[j]
  <2>1. DOMAIN read = Reads /\ DOMAIN read[i] = {"tab", "starts", "phase", "tx"}
    BY DEF SettlesInv, ReadShape
  <2> QED
    BY <1>1, <1>3, <2>1
<1>5. ReadShape'
  BY <1>1, <1>2, <1>3, <1>4 DEF SettlesInv, ReadShape
<1>6. RunsStay /\ \A x \in Tabs : Teller(x)' = Teller(x) /\ \A r \in Teller(x) : run'[r].answer = run[r].answer
  BY <1>1, OwnersStay
<1>7. /\ \A x \in Tabs : UnderWay(x)' = UnderWay(x) /\ \A j \in UnderWay(x) : j \in Reads
      /\ \A x \in Tabs \ {t} : i \notin UnderWay(x)
  BY <1>3, <1>4 DEF UnderWay
<1>8. ASSUME NEW x \in Tabs, x # t
      PROVE  TellsTrue(x)'
  <2>1. \A j \in UnderWay(x) : read'[j] = read[j]
    BY <1>4, <1>7, <1>8
  <2> QED
    BY <1>1, <1>2, <1>6, <1>7, <1>8, <2>1, TabStays DEF SettlesInv
<1>9. QueueShape(t) /\ ReportInv(t) /\ BarInv(t)
  BY DEF SettlesInv, TellsTrue
<1>10. QueueShape(t)'
  <2>1. \A n \in DOMAIN queue'[t] : queue'[t][n] \in Requests /\ Names(t, queue[t][n])'
    <3>1. ASSUME NEW n \in DOMAIN queue'[t]
          PROVE  queue'[t][n] \in Requests /\ Names(t, queue[t][n])'
      <4>1. PICK q : q = queue'[t][n]
        OBVIOUS
      <4>2. Names(t, q) /\ q \in Requests /\ q # Request("state", i)
        BY <1>2, <1>3, <1>9, <4>1 DEF QueueShape
      <4>3. q.kind = "state" => q.id # i
        BY <4>2 DEF Request, Requests
      <4>4. Names(t, q)'
        BY <1>1, <1>4, <4>2, <4>3 DEF Names
      <4> QED
        BY <4>1, <4>2, <4>4
    <3> QED
      BY <3>1
  <2> QED
    BY <1>2, <2>1 DEF QueueShape
<1>11. Current(t)' = Current(t) /\ \A tx : Says(tx, t)' <=> Says(tx, t)
  <2>1. \A j \in UnderWay(t) : read'[j].starts = read[j].starts
    BY <1>4, <1>7
  <2> QED
    BY <1>1, <1>7, <2>1 DEF Current, Says
<1>12. ReportInv(t)'
  <2> SUFFICES ASSUME t \notin crossed
               PROVE  /\ \A j \in Current(t) :
                           \/ read'[j].phase = "sent" /\ Final(queue'[t], Request("state", j))
                           \/ read'[j].phase = "answered" /\ AllAsk(queue'[t]) /\ Says(read[j].tx, t)'
                      /\ \A x \in Teller(t) :
                           \/ run[x].answer = None /\ Final(queue'[t], Request("run", x))
                           \/ AllAsk(queue'[t]) /\ Says(run[x].answer.tx, t)
    BY <1>1, <1>6, <1>11 DEF ReportInv
  <2>1. ASSUME NEW j \in Current(t), j # i
        PROVE  \/ read'[j].phase = "sent" /\ Final(queue'[t], Request("state", j))
               \/ read'[j].phase = "answered" /\ AllAsk(queue'[t]) /\ Says(read[j].tx, t)'
    <3>1. read'[j] = read[j] /\ Request("state", j) # Head(queue[t])
      BY <1>3, <1>4, <1>7, <2>1 DEF Current, Request
    <3>2. Says(read[j].tx, t) => Says(read[j].tx, t)'
      BY <1>1, <3>1 DEF Says
    <3> QED
      BY <1>2, <1>9, <2>1, <3>1, <3>2 DEF ReportInv
  <2>2. ASSUME i \in Current(t)
        PROVE  read'[i].phase = "answered" /\ AllAsk(queue'[t]) /\ Says(read[i].tx, t)'
    <3>1. Final(queue[t], Request("state", i))
      BY <1>3, <1>9, <2>2 DEF ReportInv
    <3>2. ~Final(queue'[t], Request("state", i))
      BY <1>2, <1>3 DEF Final
    <3>3. AllAsk(queue'[t])
      BY <1>2, <3>1, <3>2
    <3> QED
      BY <1>1, <1>4, <3>3 DEF Says
  <2>3. ASSUME NEW x \in Teller(t)
        PROVE  \/ run[x].answer = None /\ Final(queue'[t], Request("run", x))
               \/ AllAsk(queue'[t]) /\ Says(run[x].answer.tx, t)
    <3>1. Request("run", x) # Head(queue[t])
      BY <1>3 DEF Request
    <3> QED
      BY <1>2, <1>9, <2>3, <3>1 DEF ReportInv
  <2> QED
    BY <2>1, <2>2, <2>3
<1>13. BarInv(t)'
  <2>1. Request("end", 0) # Head(queue[t])
    BY <1>3 DEF Request
  <2> QED
    BY <1>1, <1>2, <1>6, <1>9, <1>11, <2>1 DEF BarInv
<1> QED
  BY <1>5, <1>8, <1>10, <1>12, <1>13 DEF SettlesInv, TellsTrue

LEMMA ServeEndSettles ==
  ASSUME SettlesInv, IInv', NEW t \in Tabs, ServeEnd(t)
  PROVE  SettlesInv'
<1> USE DEF clientVars, serverVars, ghosts
<1>1. /\ queue[t] # <<>> /\ Head(queue[t]).kind = "end" /\ queue' = [queue EXCEPT ![t] = Tail(@)]
      /\ session' = [session EXCEPT ![t] = "idle"] /\ DOMAIN session = Tabs
      /\ run' = run /\ controller' = controller /\ starts' = starts /\ tab' = tab /\ read' = read
      /\ crossed' = crossed /\ missed' = missed
  BY DEF ServeEnd, SettlesInv, ReadShape
<1>2. /\ DOMAIN queue' = Tabs /\ \A x \in Tabs \ {t} : queue'[x] = queue[x]
      /\ queue'[t] \in Seq(Requests) /\ Once(queue'[t])
      /\ \A n \in DOMAIN queue'[t] : \E m \in DOMAIN queue[t] : queue'[t][n] = queue[t][m]
      /\ ~AllAsk(queue[t])
      /\ \A x : Final(queue[t], x) => Final(queue'[t], x) \/ (x = Head(queue[t]) /\ AllAsk(queue'[t]))
  BY <1>1, Serving
<1>3. DOMAIN session' = Tabs /\ session'[t] = "idle" /\ \A x \in Tabs \ {t} : session'[x] = session[x]
  BY <1>1
<1>4. ReadShape'
  BY <1>1, <1>2, <1>3 DEF SettlesInv, ReadShape
<1>5. RunsStay /\ \A x \in Tabs : Teller(x)' = Teller(x) /\ \A r \in Teller(x) : run'[r].answer = run[r].answer
  BY <1>1, OwnersStay
<1>6. \A x \in Tabs : UnderWay(x)' = UnderWay(x) /\ Current(x)' = Current(x) /\ \A j \in UnderWay(x) : read'[j] = read[j]
  BY <1>1 DEF UnderWay, Current
<1>7. ASSUME NEW x \in Tabs, x # t
      PROVE  TellsTrue(x)'
  BY <1>1, <1>2, <1>3, <1>5, <1>6, <1>7, TabStays DEF SettlesInv
<1>8. QueueShape(t) /\ ReportInv(t) /\ BarInv(t)
  BY DEF SettlesInv, TellsTrue
<1>9. QueueShape(t)'
  <2>1. \A q : Names(t, q) => Names(t, q)'
    BY <1>1 DEF Names
  <2> QED
    BY <1>2, <1>8, <2>1 DEF QueueShape
<1>10. \A j, kind : kind # "end" => Request(kind, j) # Head(queue[t])
  BY <1>1 DEF Request
<1>11. ReportInv(t)'
  BY <1>1, <1>2, <1>5, <1>6, <1>8, <1>10 DEF ReportInv
<1>12. BarInv(t)'
  BY <1>1, <1>2, <1>3, <1>5, <1>6, <1>8 DEF BarInv, Says
<1> QED
  BY <1>4, <1>7, <1>9, <1>11, <1>12 DEF SettlesInv, TellsTrue

(* A notice is dismissed: the bar is idle, and the session will be.  What is
   under way then crosses the end of the session. *)
LEMMA DismissSettles ==
  ASSUME SettlesInv, IInv', NEW t \in Tabs, Dismiss(t)
  PROVE  SettlesInv'
<1> USE DEF clientVars, serverVars, ghosts
<1>1. /\ tab' = [tab EXCEPT ![t].tx = "idle"]
      /\ \/ queue' = [queue EXCEPT ![t] = Append(@, Request("end", 0))] /\ missed' = missed
         \/ missed' = missed \cup {t} /\ queue' = queue
      /\ crossed' = IF UnderWay(t) \cup Live(t) # {} THEN crossed \cup {t} ELSE crossed
      /\ run' = run /\ controller' = controller /\ starts' = starts /\ read' = read /\ session' = session
  BY DEF Dismiss
<1>2. DOMAIN queue = Tabs /\ DOMAIN tab = Tabs /\ \A x \in Tabs : DOMAIN tab[x] = TabFields
  BY DEF SettlesInv, IInv, TabShape, ReadShape
<1>3. tab'[t].tx = "idle" /\ \A x \in Tabs \ {t} : tab'[x] = tab[x] /\ queue'[x] = queue[x]
  BY <1>1, <1>2 DEF TabFields
<1>4. DOMAIN queue' = Tabs
  BY <1>1, <1>2
<1>5. ReadShape'
  BY <1>1, <1>4 DEF SettlesInv, ReadShape
<1>6. RunsStay /\ \A x \in Tabs : Teller(x)' = Teller(x) /\ \A r \in Teller(x) : run'[r].answer = run[r].answer
  BY <1>1, OwnersStay
<1>7. \A x \in Tabs : UnderWay(x)' = UnderWay(x) /\ Current(x)' = Current(x) /\ \A j \in UnderWay(x) : read'[j] = read[j]
  BY <1>1 DEF UnderWay, Current
<1>8. ASSUME NEW x \in Tabs, x # t
      PROVE  TellsTrue(x)'
  BY <1>1, <1>3, <1>6, <1>7, <1>8, TabStays DEF SettlesInv
<1>9. QueueShape(t)
  BY DEF SettlesInv, TellsTrue
<1>10. PICK q : q = Request("end", 0)
  OBVIOUS
<1>11. q \in Requests /\ q.kind = "end"
  BY <1>10, Requested
<1>12. \A x : Names(t, x) => Names(t, x)'
  BY <1>1 DEF Names
<1>13. /\ QueueShape(t)'
       /\ Final(queue'[t], q) \/ (queue' = queue /\ t \in missed')
  <2>1. CASE queue'[t] = Append(queue[t], q)
    <3>1. queue'[t] \in Seq(Requests) /\ Once(queue'[t]) /\ Final(queue'[t], q)
      BY <1>9, <1>11, <2>1, QueuedLast DEF QueueShape
    <3>2. \A n \in DOMAIN queue'[t] : queue'[t][n] = q \/ \E m \in DOMAIN queue[t] : queue'[t][n] = queue[t][m]
      BY <1>9, <1>11, <2>1, QueuedLast DEF QueueShape
    <3>3. Names(t, q)'
      BY <1>11 DEF Names
    <3> QED
      BY <1>9, <1>12, <3>1, <3>2, <3>3 DEF QueueShape
  <2>2. CASE queue' = queue /\ missed' = missed \cup {t}
    BY <1>9, <1>12, <2>2 DEF QueueShape
  <2> QED
    BY <1>1, <1>2, <1>10, <2>1, <2>2
<1>14. t \notin crossed' => Current(t)' = {} /\ Teller(t)' = {}
  BY <1>1, <1>6, <1>7 DEF Current, Teller
<1>15. ReportInv(t)' /\ BarInv(t)'
  BY <1>3, <1>10, <1>13, <1>14 DEF ReportInv, BarInv
<1> QED
  BY <1>5, <1>8, <1>13, <1>15 DEF SettlesInv, TellsTrue

LEMMA ExpireSettles ==
  ASSUME SettlesInv, IInv', NEW t \in Tabs, Expire(t)
  PROVE  SettlesInv'
<1> USE DEF clientVars, serverVars, ghosts
<1>1. /\ UnderWay(t) \cup Live(t) = {} /\ session' = [session EXCEPT ![t] = "expired"] /\ DOMAIN session = Tabs
      /\ run' = run /\ controller' = controller /\ starts' = starts /\ tab' = tab /\ read' = read
      /\ queue' = queue /\ crossed' = crossed /\ missed' = missed \cup {t}
  BY DEF Expire, SettlesInv, ReadShape
<1>2. DOMAIN session' = Tabs /\ \A x \in Tabs \ {t} : session'[x] = session[x]
  BY <1>1
<1>3. ReadShape'
  BY <1>1, <1>2 DEF SettlesInv, ReadShape
<1>4. RunsStay /\ \A x \in Tabs : Teller(x)' = Teller(x) /\ \A r \in Teller(x) : run'[r].answer = run[r].answer
  BY <1>1, OwnersStay
<1>5. \A x \in Tabs : UnderWay(x)' = UnderWay(x) /\ Current(x)' = Current(x) /\ \A j \in UnderWay(x) : read'[j] = read[j]
  BY <1>1 DEF UnderWay, Current
<1>6. ASSUME NEW x \in Tabs, x # t
      PROVE  TellsTrue(x)'
  BY <1>1, <1>2, <1>4, <1>5, <1>6, TabStays DEF SettlesInv
<1>7. Current(t)' = {} /\ Teller(t)' = {}
  BY <1>1, <1>4, <1>5 DEF Current, Teller
<1>8. QueueShape(t)'
  <2>1. \A x : Names(t, x) => Names(t, x)'
    BY <1>1 DEF Names
  <2>2. QueueShape(t)
    BY DEF SettlesInv, TellsTrue
  <2> QED
    BY <1>1, <2>1, <2>2 DEF QueueShape
<1> QED
  BY <1>1, <1>3, <1>6, <1>7, <1>8 DEF SettlesInv, TellsTrue, ReportInv, BarInv

LEMMA ReloadSettles ==
  ASSUME SettlesInv, IInv', Reload
  PROVE  SettlesInv'
<1> USE DEF clientVars, serverVars, ghosts
<1>1. PICK W : W = {Request("state", i) : i \in Reads}
  OBVIOUS
<1>2. /\ starts' = [t \in Tabs |-> 0] /\ session' = session
      /\ run' = [r \in Runs |-> IF run[r].phase = "new" THEN run[r] ELSE [run[r] EXCEPT !.phase = "done"]]
      /\ read' = [i \in Reads |-> IF read[i].phase = "new" THEN NoRead ELSE [NoRead EXCEPT !.phase = "done"]]
      /\ queue' = [t \in Tabs |-> Without(queue[t], W)]
      /\ missed' = Tabs
  BY <1>1 DEF Reload
<1>3. \A i \in Reads : read'[i].phase \in {"new", "done"} /\ DOMAIN read'[i] = {"tab", "starts", "phase", "tx"}
  BY <1>2 DEF NoRead
<1>4. \A r \in Runs : DOMAIN run[r] = {"tab", "kind", "command", "phase", "answer"}
  BY DEF SettlesInv, IInv, RunShape
<1>5. \A r \in Runs : run'[r].tab = run[r].tab /\ run'[r].kind = run[r].kind /\ run'[r].phase \in {"new", "done"}
                      /\ (run[r].phase # "new" => run'[r].phase = "done")
  BY <1>2, <1>4
<1>6. ReadShape'
  <2>1. DOMAIN session = Tabs
    BY DEF SettlesInv, ReadShape
  <2> QED
    BY <1>2, <1>3, <2>1 DEF ReadShape
<1>7. \A t \in Tabs : Current(t)' = {} /\ Teller(t)' = {}
  BY <1>3, <1>5 DEF Current, UnderWay, Teller, Live
<1>8. ASSUME NEW t \in Tabs
      PROVE  QueueShape(t)'
  <2>1. QueueShape(t)
    BY DEF SettlesInv, TellsTrue
  <2>2. PICK s \in Seq(Requests) : s = queue[t] /\ Once(s) /\ \A n \in DOMAIN s : Names(t, s[n])
    BY <2>1 DEF QueueShape
  <2>3. queue'[t] = Without(s, W)
    BY <1>2, <2>2
  <2>4. /\ queue'[t] \in Seq(Requests) /\ Once(queue'[t])
        /\ \A n \in DOMAIN queue'[t] : queue'[t][n] \notin W /\ \E m \in DOMAIN s : queue'[t][n] = s[m]
    BY <2>2, <2>3, Withdrawn
  <2>5. ASSUME NEW n \in DOMAIN queue'[t]
        PROVE  Names(t, queue[t][n])'
    <3>1. PICK q \in Requests : q = queue'[t][n] /\ q \notin W /\ Names(t, q)
      BY <2>2, <2>4
    <3>2. q.kind # "state"
      BY <1>1, <3>1 DEF Names, Request, Requests
    <3>3. Names(t, q)'
      BY <1>5, <3>1, <3>2 DEF Names
    <3> QED
      BY <3>1, <3>3
  <2> QED
    BY <2>4, <2>5 DEF QueueShape
<1> QED
  BY <1>2, <1>6, <1>7, <1>8 DEF SettlesInv, TellsTrue, ReportInv, BarInv
-----------------------------------------------------------------------------
LEMMA InitSettles == Init => SettlesInv
<1> SUFFICES ASSUME Init PROVE SettlesInv
  OBVIOUS
<1>1. /\ read = [i \in Reads |-> NoRead] /\ run = [r \in Runs |-> NoRun]
      /\ starts = [t \in Tabs |-> 0] /\ session = [t \in Tabs |-> "idle"] /\ queue = [t \in Tabs |-> <<>>]
  BY DEF Init
<1>2. \A t \in Tabs : tab[t].tx = "idle"
  BY DEF Init, NewTab
<1>3. ReadShape
  BY <1>1 DEF ReadShape, NoRead
<1>4. \A t \in Tabs : Current(t) = {} /\ Teller(t) = {}
  BY <1>1 DEF Current, UnderWay, Teller, Live, NoRead, NoRun
<1>5. \A t \in Tabs : QueueShape(t) /\ AllAsk(queue[t])
  BY <1>1 DEF QueueShape, Once, AllAsk
<1>6. \A t \in Tabs : ReportInv(t) /\ BarInv(t)
  BY <1>1, <1>2, <1>4, <1>5 DEF ReportInv, BarInv, Says
<1> QED
  BY <1>3, <1>5, <1>6, InitInv DEF SettlesInv, TellsTrue

LEMMA GesturesSettle ==
  ASSUME SettlesInv, IInv', NEW t \in Tabs, Gestures(t)
  PROVE  SettlesInv'
<1>1. CASE (\E kind \in Kinds : RunText(t, kind)) \/ EndTransaction(t)
  BY <1>1, StartRunSettles DEF RunText, EndTransaction
<1>2. CASE Stop(t) \/ RefreshTransaction(t) \/ Dismiss(t)
  BY <1>2, StopSettles, RefreshTransactionSettles, DismissSettles
<1>3. CASE TogglePanel(t) \/ ClearHistory(t)
  BY <1>3, EditorSettles
<1>4. CASE \E direction \in {"previous", "next"} : Navigate(t, direction)
  BY <1>4, EditorSettles
<1>5. CASE \E search \in (Texts \ {Empty}) \cup {None} : SetHistorySearch(t, search)
  BY <1>5, EditorSettles
<1>6. CASE (\E text \in Texts : SetEditor(t, text)) \/ \E i \in 1..Len(tab[t].history) : ApplyHistory(t, i)
  BY <1>6, EditorSettles DEF ApplyHistory
<1> QED
  BY <1>1, <1>2, <1>3, <1>4, <1>5, <1>6 DEF Gestures

LEMMA ArrivalsSettle ==
  ASSUME SettlesInv, IInv', Arrivals
  PROVE  SettlesInv'
<1>1. ASSUME NEW r \in Runs, Overtaken(r) \/ Answered(r) \/ Aborted(r)
      PROVE  SettlesInv'
  BY <1>1, OvertakenSettles, AnsweredSettles, AbortedSettles
<1>2. ASSUME NEW r \in Runs, Explained(r) \/ Analyzed(r)
      PROVE  SettlesInv'
  BY <1>2, PlanEndsSettles DEF Explained, Analyzed
<1>3. ASSUME NEW r \in Runs, RunFetches(r)
      PROVE  SettlesInv'
  <2>1. PICK t \in Tabs : t = run[r].tab
    BY <1>3 DEF RunFetches, SettlesInv, IInv, OrderInv
  <2> QED
    BY <1>3, EditorSettles
<1>4. ASSUME NEW i \in Reads, TransactionRead(i)
      PROVE  SettlesInv'
  BY <1>4, TransactionReadSettles
<1>5. ASSUME NEW i \in Lists, ListArrives(i)
      PROVE  SettlesInv'
  BY <1>5, ListArrivesSettles
<1>6. ASSUME NEW t \in Tabs, PanelFetches(t)
      PROVE  SettlesInv'
  BY <1>6, EditorSettles
<1> QED
  BY <1>1, <1>2, <1>3, <1>4, <1>5, <1>6 DEF Arrivals

LEMMA ServerSettles ==
  ASSUME SettlesInv, IInv', Server
  PROVE  SettlesInv'
<1>1. ASSUME NEW t \in Tabs, ServeState(t) \/ ServeEnd(t)
      PROVE  SettlesInv'
  BY <1>1, ServeStateSettles, ServeEndSettles
<1>2. ASSUME NEW t \in Tabs, NEW tx \in TxStates, Serve(t, tx) \/ Refuse(t, tx)
      PROVE  SettlesInv'
  BY <1>2, ServeSettles
<1>3. ASSUME NEW r \in Runs, NEW failed \in BOOLEAN, ServePlan(r, failed)
      PROVE  SettlesInv'
  BY <1>3, ServePlanSettles
<1>4. ASSUME NEW i \in Lists, ListServed(i)
      PROVE  SettlesInv'
  <2>1. PICK t \in Tabs : t = list[i].tab
    BY <1>4 DEF ListServed, SettlesInv, IInv, ListInv
  <2> QED
    BY <1>4, EditorSettles
<1> QED
  BY <1>1, <1>2, <1>3, <1>4 DEF Server

LEMMA FaultsSettle ==
  ASSUME SettlesInv, IInv', Faults
  PROVE  SettlesInv'
<1>1. ASSUME NEW r \in Runs, RunLost(r)
      PROVE  SettlesInv'
  BY <1>1, RunLostSettles
<1>2. ASSUME NEW i \in Reads, ReadLost(i)
      PROVE  SettlesInv'
  BY <1>2, ReadLostSettles
<1>3. ASSUME NEW t \in Tabs, Expire(t)
      PROVE  SettlesInv'
  BY <1>3, ExpireSettles
<1>4. CASE ForeignRun
  BY <1>4, SessionsStay, OwnersStay DEF ForeignRun, clientVars, ghosts
<1>5. CASE Reload
  BY <1>5, ReloadSettles
<1> QED
  BY <1>1, <1>2, <1>3, <1>4, <1>5 DEF Faults

LEMMA NextSettles == SettlesInv /\ IInv' /\ [Next]_vars => SettlesInv'
<1> SUFFICES ASSUME SettlesInv, IInv', [Next]_vars PROVE SettlesInv'
  OBVIOUS
<1>1. CASE UNCHANGED vars
  BY <1>1, SessionsStay, OwnersStay DEF vars, clientVars, serverVars, ghosts
<1>2. CASE Next
  BY <1>2, GesturesSettle, ArrivalsSettle, ServerSettles, FaultsSettle DEF Next
<1> QED
  BY <1>1, <1>2

(* Once nothing is under way, the transaction bar says what the session says,
   or that it expired when that was said once (stores/sqlConsole.ts: the bar takes
   the answer of the tab's run, and of a read that no run has overtaken). *)
THEOREM BarSettlesHolds == Spec => []BarSettles
<1>1. SettlesInv => BarSettles
  <2> SUFFICES ASSUME SettlesInv, NEW t \in Tabs, Quiet(t), t \notin missed \cup crossed
               PROVE  Says(tab[t].tx, t)
    BY DEF BarSettles, Says
  <2>1. BarInv(t) /\ Current(t) = {} /\ Teller(t) = {} /\ queue[t] = <<>>
    BY DEF SettlesInv, TellsTrue, Quiet, Current, Teller
  <2>2. ~Final(queue[t], Request("end", 0))
    BY <2>1 DEF Final
  <2> QED
    BY <2>1, <2>2 DEF BarInv
<1>2. IInv /\ SettlesInv /\ [Next]_vars => SettlesInv'
  BY NextPreserves, NextSettles
<1> QED
  BY <1>1, <1>2, InitSettles, Invariance, PTL DEF Spec
=============================================================================

-------------------------- MODULE ConnectionManager --------------------------
(***************************************************************************)
(* The lazy connector cache of internal/connector/manager.go, driven by    *)
(* the HTTP handlers that read it (getConnector, SQLHandler), check it     *)
(* (ConnectionsHandler.Test), invalidate it (Update, Delete), store an     *)
(* older copy of the settings beside it (UpdateVisibleSchemas) and by the  *)
(* deferred CloseAll of main.  Settings are what a connector is opened     *)
(* with; the visible schemas themselves are not told apart.                *)
(*                                                                         *)
(* A request is one goroutine and runs once.  It opens at most one         *)
(* connector, so a request also names the connectorCall it owns, the       *)
(* connector that call opened, and the version of the settings it wrote.   *)
(* m.mu is a variable because Close runs under it: a postgres pool's Close *)
(* waits for the connections in use, and meanwhile no key can be looked up.*)
(***************************************************************************)
EXTENDS Naturals, FiniteSets

CONSTANTS
  Req,          \* the requests: goroutines of the server
  Conns,        \* ids of stored connections
  Databases,    \* ids of runtime database connections, "<parent>~<database>"
  Parent,       \* the stored connection a runtime database id belongs to
  Draining,     \* stored connections whose connector's Close waits for the
                \* operations in progress (postgres); the others cut them off
  Ops,          \* what the requests of this instance may ask for
  None

AllOps == {"get", "check", "update", "schemas", "delete", "closeAll"}
Edits == {"update", "schemas", "delete"}
Initial == "initial"    \* the settings loaded at startup
Absent  == "absent"     \* no stored connection has this id

ASSUME ManagerAssumption ==
  /\ Ops \subseteq AllOps
  /\ Conns \cap Databases = {}
  /\ Parent \in [Databases -> Conns]
  /\ Draining \subseteq Conns
  /\ None \notin Req \cup Conns \cup Databases \cup AllOps
  /\ Initial \notin Req /\ Absent \notin Req /\ None \notin {Initial, Absent}

Keys == Conns \cup Databases
Root(k) == IF k \in Databases THEN Parent[k] ELSE k
KeysOf(c) == {k \in Keys : Root(k) = c}        \* key == id || IsDatabaseOf(key, id)
Versions == Req \cup {Initial}

VARIABLES
  config,     \* stored settings of each connection, named by who wrote them
  cached,     \* m.connectors
  inFlight,   \* m.inFlight: the call that is opening a key's connector
  failures,   \* m.failures: the failed connector, how it failed, still cooling?
  mu,         \* who holds m.mu across a Close, or None
  removed,    \* calls whose .removed flag is set
  version,    \* settings a call read in ResolveConnection, or None
  status,     \* life of the connector a call opened
  outcome,    \* how a call ended ("pending" until its done channel closes)
  pc, op, key,
  joined,     \* the call a request waits for
  got,        \* the connector a request was given
  carried,    \* the settings UpdateVisibleSchemas read and will store again
  \* only for the properties:
  written,    \* settings a connection has had
  displaced,  \* settings a write-back replaced since the last invalidation
  retired,    \* settings that were replaced when an edit or delete was answered
  before      \* its connection's retired settings when a request began, but for
              \* those a write-back has restored since

managerVars == <<cached, inFlight, failures, mu>>
callVars == <<version, status, outcome, removed>>
askVars == <<op, key, carried>>
storeVars == <<config, written, displaced, retired, before>>
vars == <<managerVars, callVars, askVars, storeVars, pc, joined, got>>

Opening == {"resolve", "dial", "redial", "finish"}
Calls(k) == {r \in Req : pc[r] \in Opening /\ key[r] = k}

Init ==
  /\ config = [c \in Conns |-> Initial]
  /\ cached = [k \in Keys |-> None]
  /\ inFlight = [k \in Keys |-> None]
  /\ failures = [k \in Keys |-> None]
  /\ mu = None
  /\ removed = {}
  /\ version = [r \in Req |-> None]
  /\ status = [r \in Req |-> "none"]
  /\ outcome = [r \in Req |-> "pending"]
  /\ pc = [r \in Req |-> "idle"]
  /\ op = [r \in Req |-> None]
  /\ key = [r \in Req |-> None]
  /\ joined = [r \in Req |-> None]
  /\ got = [r \in Req |-> None]
  /\ carried = [r \in Req |-> None]
  /\ written = [c \in Conns |-> {Initial}]
  /\ displaced = [c \in Conns |-> {}]
  /\ retired = [c \in Conns |-> {}]
  /\ before = [r \in Req |-> {}]

Goto(r, label) == pc' = [pc EXCEPT ![r] = label]

(* A step that changes nothing but where the request stands. *)
Move(r, label) ==
  Goto(r, label) /\ UNCHANGED <<managerVars, callVars, askVars, storeVars, joined, got>>

(* What a request does with the connector it was given. *)
Given(r) == IF op[r] = "check" THEN "ping" ELSE "use"

-----------------------------------------------------------------------------
(* A handler is entered: what it asks for decides its first step. *)
FirstStep(o) ==
  CASE o = "get" -> "lookup"
    [] o = "check" -> "begin"
    [] o \in {"update", "schemas"} -> "load"
    [] o = "delete" -> "write"
    [] OTHER -> "remove"

Begin(r, o, k) ==
  /\ pc[r] = "idle"
  /\ o \in Edits => k \in Conns
  /\ op' = [op EXCEPT ![r] = o]
  /\ key' = [key EXCEPT ![r] = k]
  /\ before' = [before EXCEPT ![r] = retired[Root(k)]]
  /\ Goto(r, FirstStep(o))
  /\ UNCHANGED <<managerVars, callVars, carried, config, written, displaced, retired, joined, got>>

(* Get: a cached connector is returned under the read lock. *)
GetCached(r) ==
  /\ pc[r] = "lookup" /\ mu = None
  /\ got' = [got EXCEPT ![r] = cached[key[r]]]
  /\ Goto(r, IF cached[key[r]] # None THEN "use" ELSE "cooldown")
  /\ UNCHANGED <<managerVars, callVars, askVars, storeVars, joined>>

(* cooldownError: a recent failure answers at once, an elapsed one is dropped. *)
CooldownError(r) ==
  /\ pc[r] = "cooldown" /\ mu = None
  /\ LET f == failures[key[r]] IN
     IF f # None /\ f.cooling
     THEN Goto(r, "done") /\ UNCHANGED failures
     ELSE Goto(r, "begin") /\ failures' = [failures EXCEPT ![key[r]] = None]
  /\ UNCHANGED <<cached, inFlight, mu, callVars, askVars, storeVars, joined, got>>

(* Two seconds pass: connectionFailure.expiresAt. *)
CooldownElapses(k) ==
  /\ failures[k] # None
  /\ failures[k].cooling
  /\ failures' = [failures EXCEPT ![k].cooling = FALSE]
  /\ UNCHANGED <<cached, inFlight, mu, callVars, askVars, storeVars, pc, joined, got>>

(* beginConnectorCall: the cached connector, the call in flight to join, or a
   new call of one's own. *)
BeginConnectorCall(r) ==
  /\ pc[r] = "begin" /\ mu = None
  /\ LET k == key[r] IN
     \/ /\ cached[k] # None
        /\ got' = [got EXCEPT ![r] = cached[k]]
        /\ Goto(r, Given(r))
        /\ UNCHANGED <<inFlight, joined>>
     \/ /\ cached[k] = None /\ inFlight[k] # None
        /\ joined' = [joined EXCEPT ![r] = inFlight[k]]
        /\ Goto(r, "wait")
        /\ UNCHANGED <<inFlight, got>>
     \/ /\ cached[k] = None /\ inFlight[k] = None
        /\ inFlight' = [inFlight EXCEPT ![k] = r]
        /\ Goto(r, "resolve")
        /\ UNCHANGED <<joined, got>>
  /\ UNCHANGED <<cached, failures, mu, callVars, askVars, storeVars>>

(* Mutant: a connection that is gone is opened like any other. *)
ResolveUnchecked(r) ==
  /\ pc[r] = "resolve"
  /\ version' = [version EXCEPT ![r] = config[Root(key[r])]]
  /\ Goto(r, "dial")
  /\ UNCHANGED <<managerVars, status, outcome, removed, askVars, storeVars, joined, got>>

(* openConnector: the settings are read under the config's own lock. *)
ResolveConnection(r) ==
  /\ pc[r] = "resolve"
  /\ LET v == config[Root(key[r])] IN
     IF v = Absent
     THEN /\ outcome' = [outcome EXCEPT ![r] = "error"]
          /\ Goto(r, "finish")
          /\ UNCHANGED version
     ELSE /\ version' = [version EXCEPT ![r] = v]
          /\ Goto(r, "dial")
          /\ UNCHANGED outcome
  /\ UNCHANGED <<managerVars, status, removed, askVars, storeVars, joined, got>>

(* The factory dials and pings with the settings read before.  ErrUnavailable
   and ErrTimeout are retried once; any other error, the caller's own
   cancellation included, ends the call. *)
Dial(r, result) ==
  /\ \/ pc[r] = "dial" /\ mu = None       \* the factory is looked up under m.mu
     \/ pc[r] = "redial"
  /\ IF result = "unavailable" /\ pc[r] = "dial"
     THEN Goto(r, "redial") /\ UNCHANGED <<status, outcome>>
     ELSE /\ outcome' = [outcome EXCEPT ![r] = result]
          /\ status' = [status EXCEPT ![r] = IF result = "ok" THEN "open" ELSE "none"]
          /\ Goto(r, "finish")
  /\ UNCHANGED <<managerVars, version, removed, askVars, storeVars, joined, got>>

(* What a finished call may do: reach the cache, start a cooldown, take itself
   out of m.inFlight, tell its waiters.  A call that was removed meanwhile
   carries replaced settings. *)
PublishesRemoved(r) == outcome[r] = "ok"                               \* mutant
Publishes(r) == outcome[r] = "ok" /\ r \notin removed

RecordsFailure(r) == outcome[r] = "unavailable" /\ r \notin removed

DeregisterAny(r) == [inFlight EXCEPT ![key[r]] = None]                 \* mutant
Deregister(r) == [inFlight EXCEPT ![key[r]] = IF @ = r THEN None ELSE @]

EndedUnlessRemoved(r) ==                                               \* mutant
  IF r \in removed THEN outcome[r] ELSE IF Publishes(r) THEN "ready" ELSE "failed"
Ended(r) == IF Publishes(r) THEN "ready" ELSE "failed"

(* finishConnectorCall: publish, discard or record the failure, and let the
   waiters go; what a removed call opened is closed at once. *)
FinishConnectorCall(r) ==
  /\ pc[r] = "finish" /\ mu = None
  /\ inFlight' = Deregister(r)
  /\ cached' = [cached EXCEPT ![key[r]] = IF Publishes(r) THEN r ELSE @]
  /\ failures' = [failures EXCEPT ![key[r]] =
                    IF Publishes(r) THEN None
                    ELSE IF RecordsFailure(r) THEN [by |-> r, via |-> "open", cooling |-> TRUE]
                    ELSE @]
  /\ status' = [status EXCEPT ![r] = IF @ = "open" /\ ~Publishes(r) THEN "closed" ELSE @]
  /\ outcome' = [outcome EXCEPT ![r] = Ended(r)]
  /\ got' = [got EXCEPT ![r] = IF Publishes(r) THEN r ELSE @]
  /\ Goto(r, IF Publishes(r) THEN Given(r) ELSE "done")
  /\ UNCHANGED <<mu, version, removed, askVars, storeVars, joined>>

(* waitConnectorCall: the call's result, or this request's own context. *)
WaitConnectorCall(r) ==
  /\ pc[r] = "wait"
  /\ \/ /\ outcome[joined[r]] = "ready"
        /\ got' = [got EXCEPT ![r] = joined[r]]
        /\ Goto(r, Given(r))
     \/ /\ outcome[joined[r]] = "failed"
        /\ Goto(r, "done")
        /\ UNCHANGED got
  /\ UNCHANGED <<managerVars, callVars, askVars, storeVars, joined>>

WaitCancelled(r) == pc[r] = "wait" /\ Move(r, "done")

-----------------------------------------------------------------------------
(* An operation, or a Ping, borrows from the connector's pool; a connector
   whose Close has begun refuses. *)
StartOperation(r) ==
  /\ pc[r] \in {"use", "ping"}
  /\ Move(r, IF status[got[r]] = "open"
             THEN IF pc[r] = "use" THEN "operating" ELSE "pinging"
             ELSE IF pc[r] = "use" THEN "done" ELSE "remove")

EndOperation(r) == pc[r] = "operating" /\ Move(r, "done")

(* Check after the ping: markValidated, or Remove and markFailure. *)
EndPing(r, alive) ==
  /\ pc[r] = "pinging"
  /\ alive => status[got[r]] # "closed"
  /\ Move(r, IF alive THEN "validate" ELSE "remove")

(* lastValidatedAt is written and never read. *)
MarkValidated(r) == pc[r] = "validate" /\ mu = None /\ Move(r, "done")

MarkFailure(r) ==
  /\ pc[r] = "markFailure" /\ mu = None
  /\ failures' = [failures EXCEPT ![key[r]] = [by |-> got[r], via |-> "ping", cooling |-> TRUE]]
  /\ Goto(r, "done")
  /\ UNCHANGED <<cached, inFlight, mu, callVars, askVars, storeVars, joined, got>>

-----------------------------------------------------------------------------
(* Update and UpdateVisibleSchemas first load the connection, and answer 404
   when there is none. *)
LoadForUpdate(r) ==
  /\ pc[r] = "load"
  /\ LET v == config[key[r]] IN
     /\ Goto(r, IF v = Absent THEN "done" ELSE "write")
     /\ carried' = [carried EXCEPT ![r] = IF op[r] = "schemas" /\ v # Absent THEN v ELSE @]
  /\ UNCHANGED <<managerVars, callVars, op, key, storeVars, joined, got>>

(* Update and Delete change the stored settings before they invalidate.  A
   connection that is gone is not brought back: UpdateConnection misses and
   Update goes on, Delete answers 404. *)
WriteConfig(r) ==
  /\ pc[r] = "write" /\ op[r] # "schemas"
  /\ LET c == key[r] IN
     IF config[c] = Absent
     THEN /\ Goto(r, IF op[r] = "update" THEN "remove" ELSE "done")
          /\ UNCHANGED <<config, written>>
     ELSE /\ config' = [config EXCEPT ![c] = IF op[r] = "update" THEN r ELSE Absent]
          /\ written' = [written EXCEPT ![c] = IF op[r] = "update" THEN @ \cup {r} ELSE @]
          /\ Goto(r, "remove")
  /\ UNCHANGED <<managerVars, callVars, askVars, displaced, retired, before, joined, got>>

(* Of the requests about connection c. *)
About(r, c) == key[r] # None /\ Root(key[r]) = c

(* UpdateVisibleSchemas stores the whole connection as it was when it was read,
   and removes nothing: an edit in between is undone, and a connector opened
   with it stays. *)
WriteBack(r) ==
  /\ pc[r] = "write" /\ op[r] = "schemas"
  /\ LET c == key[r]  v == carried[r] IN
     IF config[c] \in {Absent, v}
     THEN UNCHANGED storeVars
     ELSE /\ config' = [config EXCEPT ![c] = v]
          /\ displaced' = [displaced EXCEPT ![c] = @ \cup {config[c]}]
          /\ retired' = [retired EXCEPT ![c] = @ \ {v}]
          /\ before' = [q \in Req |-> IF About(q, c) THEN before[q] \ {v} ELSE before[q]]
          /\ UNCHANGED written
  /\ Goto(r, "done")
  /\ UNCHANGED <<managerVars, callVars, askVars, joined, got>>

(* Mutants: an edit that forgets the runtime databases, a failed check that
   takes them along, a removal that leaves the calls in flight alone. *)
RemovedOne(r) == IF op[r] = "closeAll" THEN Keys ELSE {key[r]}
RemovedAlways(r) == IF op[r] = "closeAll" THEN Keys ELSE KeysOf(key[r])
DroppedNone(r) == {}

(* The keys a removal touches: Remove one, RemoveWithDatabases the connection
   and its runtime databases, CloseAll every one. *)
RemovedKeys(r) ==
  CASE op[r] = "closeAll" -> Keys
    [] op[r] = "check" -> {key[r]}
    [] OTHER -> KeysOf(key[r])

(* The calls it detaches (dropInFlight); CloseAll leaves them alone. *)
Dropped(r) ==
  IF op[r] = "closeAll" THEN {} ELSE {inFlight[k] : k \in RemovedKeys(r)} \ {None}

RemoveStart(r) ==
  /\ pc[r] = "remove" /\ mu = None
  /\ mu' = r
  /\ Goto(r, "closing")
  /\ UNCHANGED <<cached, inFlight, failures, callVars, askVars, storeVars, joined, got>>

(* The cached connectors are closed one after the other. *)
CloseStart(r, k) ==
  /\ pc[r] = "closing" /\ k \in RemovedKeys(r)
  /\ cached[k] # None /\ status[cached[k]] = "open"
  /\ \A h \in Req : status[h] # "closing"
  /\ status' = [status EXCEPT ![cached[k]] = "closing"]
  /\ UNCHANGED <<managerVars, version, outcome, removed, askVars, storeVars, pc, joined, got>>

(* pgxpool.Close returns once nothing borrowed from the pool is out. *)
InUse(h) == \E r \in Req : pc[r] \in {"operating", "pinging"} /\ got[r] = h

CloseReturns(r, k) ==
  /\ pc[r] = "closing" /\ k \in RemovedKeys(r)
  /\ cached[k] # None /\ status[cached[k]] = "closing"
  /\ Root(k) \in Draining => ~InUse(cached[k])
  /\ status' = [status EXCEPT ![cached[k]] = "closed"]
  /\ cached' = [cached EXCEPT ![k] = None]
  /\ UNCHANGED <<inFlight, failures, mu, version, outcome, removed, askVars, storeVars, pc, joined,
                 got>>

(* The failures go and the calls in flight are detached, then the lock is
   released. *)
RemoveFinish(r) ==
  /\ pc[r] = "closing"
  /\ \A k \in RemovedKeys(r) : cached[k] = None
  /\ failures' = [k \in Keys |-> IF k \in RemovedKeys(r) THEN None ELSE failures[k]]
  /\ removed' = removed \cup Dropped(r)
  /\ inFlight' = [k \in Keys |-> IF inFlight[k] \in Dropped(r) THEN None ELSE inFlight[k]]
  /\ mu' = None
  /\ IF op[r] \in Edits
     THEN /\ retired' = [retired EXCEPT ![key[r]] = written[key[r]] \ {config[key[r]]}]
          /\ displaced' = [displaced EXCEPT ![key[r]] = {}]
     ELSE UNCHANGED <<retired, displaced>>
  /\ Goto(r, IF op[r] = "check" THEN "markFailure" ELSE "done")
  /\ UNCHANGED <<cached, version, status, outcome, config, written, before, askVars, joined, got>>

-----------------------------------------------------------------------------
Step(r) ==
  \/ GetCached(r) \/ CooldownError(r) \/ BeginConnectorCall(r)
  \/ ResolveConnection(r)
  \/ \E result \in {"ok", "unavailable", "error"} : Dial(r, result)
  \/ FinishConnectorCall(r) \/ WaitConnectorCall(r)
  \/ StartOperation(r) \/ EndOperation(r)
  \/ \E alive \in BOOLEAN : EndPing(r, alive)
  \/ MarkValidated(r) \/ MarkFailure(r)
  \/ LoadForUpdate(r) \/ WriteConfig(r) \/ WriteBack(r)
  \/ RemoveStart(r) \/ RemoveFinish(r)
  \/ \E k \in Keys : CloseStart(r, k) \/ CloseReturns(r, k)

Next ==
  \/ \E r \in Req : \/ \E o \in Ops, k \in Keys : Begin(r, o, k)
                    \/ WaitCancelled(r)
                    \/ Step(r)
  \/ \E k \in Keys : CooldownElapses(k)

Spec == Init /\ [][Next]_vars

(* Every goroutine is scheduled, m.mu is starvation-free, dials are bounded by
   their 5 s timeout and the statements that borrow a connection return.  No
   client is assumed to give up: WaitCancelled is not fair. *)
FairSpec == Spec /\ \A r \in Req : WF_vars(Step(r))
-----------------------------------------------------------------------------
Labels == Opening \cup {"idle", "lookup", "cooldown", "begin", "wait", "use", "ping", "operating",
                        "pinging", "validate", "markFailure", "load", "write", "remove",
                        "closing", "done"}
Failure == [by : Req, via : {"open", "ping"}, cooling : BOOLEAN]

(* Type invariant: every variable ranges over what the code can hold. *)
TypeOK ==
  /\ config \in [Conns -> Versions \cup {Absent}]
  /\ cached \in [Keys -> Req \cup {None}]
  /\ inFlight \in [Keys -> Req \cup {None}]
  /\ failures \in [Keys -> Failure \cup {None}]
  /\ mu \in Req \cup {None}
  /\ removed \subseteq Req
  /\ version \in [Req -> Versions \cup {None}]
  /\ status \in [Req -> {"none", "open", "closing", "closed"}]
  /\ outcome \in [Req -> {"pending", "ok", "unavailable", "error", "ready", "failed"}]
  /\ pc \in [Req -> Labels]
  /\ op \in [Req -> AllOps \cup {None}]
  /\ key \in [Req -> Keys \cup {None}]
  /\ joined \in [Req -> Req \cup {None}]
  /\ got \in [Req -> Req \cup {None}]
  /\ carried \in [Req -> Versions \cup {None}]
  /\ written \in [Conns -> SUBSET Versions]
  /\ displaced \in [Conns -> SUBSET Versions]
  /\ retired \in [Conns -> SUBSET Versions]
  /\ before \in [Req -> SUBSET Versions]

(* inFlight names exactly the call that is opening a key's connector and has
   not been detached, and never beside a cached connector: two requests that
   miss the cache share one dial, and a detached call's end does not deregister
   the call that took its place. *)
SingleFlight ==
  \A k \in Keys : /\ Calls(k) \ removed = {inFlight[k]} \ {None}
                  /\ inFlight[k] # None => cached[k] = None

(* No connector is leaked: one that is open is in the cache under its own key,
   or in the hands of the call that just opened it; one in the cache is open,
   or being closed by the holder of m.mu. *)
NoLeak ==
  /\ \A h \in Req : status[h] = "open" =>
       cached[key[h]] = h \/ (pc[h] = "finish" /\ outcome[h] = "ok")
  /\ \A k \in Keys : cached[k] # None =>
       /\ key[cached[k]] = k
       /\ status[cached[k]] = "open" \/ (status[cached[k]] = "closing" /\ mu # None)

(* An edit or delete of the connection has been stored and has not finished
   invalidating. *)
Invalidating(c) ==
  \E w \in Req : op[w] \in {"update", "delete"} /\ key[w] = c /\ pc[w] \in {"remove", "closing"}

(* A cached connector, and a call that will be cached, carries the settings now
   stored, a runtime database those of its parent; the exceptions are an edit or
   delete on its way to remove it, and settings that UpdateVisibleSchemas undid
   after the last removal: nothing drops those connectors. *)
CacheFollowsConfig ==
  \A k \in Keys : \A h \in {cached[k], inFlight[k]} \ {None} :
    version[h] \in {None, config[Root(k)]} \cup displaced[Root(k)] \/ Invalidating(Root(k))

(* A failure to open that keeps requests waiting for two seconds is one of the
   settings now stored, with the same exceptions. *)
FailureFollowsConfig ==
  \A k \in Keys : failures[k] # None /\ failures[k].via = "open" =>
    version[failures[k].by] \in {config[Root(k)]} \cup displaced[Root(k)] \/ Invalidating(Root(k))

(* Once an edit or delete has been answered, no request that starts later is
   given a connector opened with other settings than those stored then or
   later, those a write-back restored included. *)
NoStaleAnswer ==
  \A r \in Req : got[r] # None => version[got[r]] \notin before[r]

(* A failed health check closes only the connector it checked: a statement
   running against another database of the same server goes on. *)
CheckSparesOthers ==
  [][\A h \in Req : status[h] = "open" /\ status'[h] # "open" /\ mu # None /\ op[mu] = "check"
                     => key[h] = key[mu]]_vars

(* Every request is answered: a removal that waits for statements, and the
   requests queued behind its lock or behind a detached call, all get on. *)
EveryRequestFinishes == \A r \in Req : pc[r] # "idle" ~> pc[r] = "done"
=============================================================================

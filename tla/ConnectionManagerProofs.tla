----------------------- MODULE ConnectionManagerProofs -----------------------
(* Theorems of ConnectionManager, for any number of requests, connections and
   runtime databases; at the end, that every step of it is a step of
   ConnectorCache or changes nothing there. *)
EXTENDS ConnectionManagerRefinement, TLAPS

Starting == {"idle", "lookup", "cooldown", "begin", "load", "write", "resolve"}

(* What a request has done by the time it stands somewhere. *)
RequestInv ==
  \A r \in Req :
    /\ pc[r] = "idle" => /\ key[r] = None /\ op[r] = None /\ got[r] = None
                         /\ joined[r] = None /\ carried[r] = None /\ before[r] = {}
    /\ pc[r] # "idle" => key[r] \in Keys /\ op[r] \in AllOps
    /\ op[r] \in Edits => key[r] \in Conns
    /\ pc[r] \in {"load", "write"} => op[r] \in Edits
    /\ pc[r] = "write" /\ op[r] = "schemas" => carried[r] # None
    /\ pc[r] \in Opening \cup {"lookup", "cooldown", "begin", "wait"} => got[r] = None
    /\ pc[r] \in {"use", "ping", "operating", "pinging", "markFailure"} => got[r] # None
    /\ pc[r] \in {"remove", "closing"} /\ op[r] = "check" => got[r] # None
    /\ pc[r] = "wait" => joined[r] # None
    /\ carried[r] # None => op[r] = "schemas"

(* m.mu is held exactly by the request that is closing connectors. *)
LockInv == \A r \in Req : pc[r] = "closing" <=> mu = r

(* A call, from its start to its end. *)
CallInv ==
  \A h \in Req :
    /\ pc[h] \in Starting => version[h] = None
    /\ pc[h] \in Starting \ {"resolve"} => h \notin removed
    /\ pc[h] \in Starting \cup {"dial", "redial"} => outcome[h] = "pending" /\ status[h] = "none"
    /\ pc[h] \in {"dial", "redial"} => version[h] # None
    /\ pc[h] = "finish" => /\ outcome[h] \in {"ok", "unavailable", "error"}
                           /\ status[h] = IF outcome[h] = "ok" THEN "open" ELSE "none"
    /\ outcome[h] = "ok" => pc[h] = "finish"
    /\ outcome[h] \in {"ok", "unavailable", "ready"} => version[h] # None

(* A connector in the cache, and every connector that is open. *)
CachedInv ==
  \A k \in Keys : cached[k] # None =>
    /\ key[cached[k]] = k
    /\ outcome[cached[k]] = "ready"
    /\ status[cached[k]] \in {"open", "closing"}
    /\ status[cached[k]] = "closing" => mu # None /\ k \in RemovedKeys(mu)

OpenInv ==
  \A h \in Req : status[h] = "open" => cached[key[h]] = h \/ (pc[h] = "finish" /\ outcome[h] = "ok")

FailureInv ==
  \A k \in Keys : failures[k] # None /\ failures[k].via = "open" => version[failures[k].by] # None

(* Every version is stored first by the update it is named after. *)
FreshInv ==
  \A r \in Req : pc[r] \in {"idle", "load", "write"} => \A c \in Conns : r \notin written[c]

(* What is stored, carried, displaced or retired was written. *)
StoredInv ==
  /\ \A c \in Conns : config[c] \in written[c] \cup {Absent} /\ retired[c] \subseteq written[c]
  /\ \A r \in Req : carried[r] # None => carried[r] \in written[key[r]]

RetiredInv == \A c \in Conns : config[c] \notin retired[c]

(* No connector or call that can still be given out has retired settings, and
   none that was given out or is waited for had them when its request began. *)
CurrentInv ==
  \A k \in Keys : \A h \in {cached[k], inFlight[k]} \ {None} : version[h] \notin retired[Root(k)]

BeforeInv ==
  \A r \in Req :
    /\ key[r] # None => before[r] \subseteq retired[Root(key[r])]
    /\ joined[r] # None => key[joined[r]] = key[r] /\ version[joined[r]] \notin before[r]
    /\ got[r] # None => version[got[r]] # None /\ version[got[r]] \notin before[r]

StructureInv ==
  TypeOK /\ RequestInv /\ LockInv /\ CallInv /\ SingleFlight /\ CachedInv /\ OpenInv /\ FailureInv
FollowsInv == CacheFollowsConfig /\ FailureFollowsConfig
HistoryInv == FreshInv /\ StoredInv /\ RetiredInv /\ CurrentInv /\ BeforeInv
IInv == StructureInv /\ FollowsInv /\ HistoryInv
LEMMA RootType == \A k \in Keys : Root(k) \in Conns
BY ManagerAssumption DEF Keys, Root

(* An edit that is still invalidating goes on unless it finishes. *)
LEMMA InvalidatingStays ==
  ASSUME \A w \in Req : pc[w] \in {"remove", "closing"} =>
           op'[w] = op[w] /\ key'[w] = key[w] /\ pc'[w] \in {"remove", "closing"}
  PROVE \A c \in Conns : Invalidating(c) => Invalidating(c)'
BY DEF Invalidating

LEMMA BeginPreserves ==
  ASSUME IInv, NEW r \in Req, NEW o \in Ops, NEW k \in Keys, Begin(r, o, k)
  PROVE IInv'
<1> USE DEF IInv, StructureInv, FollowsInv, HistoryInv, vars, managerVars, callVars, askVars, storeVars, TypeOK, Begin, FirstStep, Goto
<1>0. \A c \in Conns : Invalidating(c) => Invalidating(c)'
  BY InvalidatingStays
<1>1. TypeOK'
  BY ManagerAssumption, RootType DEF Labels
<1>2. RequestInv'
  BY ManagerAssumption DEF RequestInv, Edits
<1>3. LockInv'
  BY DEF LockInv
<1>4. CallInv'
  BY DEF CallInv, Starting
<1>5. SingleFlight'
  BY DEF SingleFlight, Calls, Opening
<1>6. CachedInv'
  BY DEF LockInv, CallInv, CachedInv, Starting, RemovedKeys
<1>7. OpenInv'
  BY DEF CallInv, OpenInv, Starting
<1>8. FailureInv'
  BY DEF FailureInv
<1>9. CacheFollowsConfig'
  BY RootType, <1>0 DEF CacheFollowsConfig
<1>10. FailureFollowsConfig'
  BY RootType, <1>0 DEF FailureFollowsConfig
<1>11. FreshInv'
  BY DEF FreshInv
<1>12. StoredInv'
  BY DEF RequestInv, StoredInv
<1>13. RetiredInv'
  BY DEF RetiredInv
<1>14. CurrentInv'
  BY DEF CurrentInv
<1>15. BeforeInv'
  BY ManagerAssumption DEF RequestInv, BeforeInv, Keys
<1> QED BY <1>1, <1>2, <1>3, <1>4, <1>5, <1>6, <1>7, <1>8, <1>9, <1>10, <1>11, <1>12, <1>13, <1>14, <1>15

LEMMA GetCachedPreserves ==
  ASSUME IInv, NEW r \in Req, GetCached(r)
  PROVE IInv'
<1> USE DEF IInv, StructureInv, FollowsInv, HistoryInv, vars, managerVars, callVars, askVars, storeVars, TypeOK, GetCached, Goto
<1>0. \A c \in Conns : Invalidating(c) => Invalidating(c)'
  BY InvalidatingStays
<1>1. TypeOK'
  BY DEF RequestInv, Labels
<1>2. RequestInv'
  BY DEF RequestInv, Opening
<1>3. LockInv'
  BY DEF LockInv
<1>4. CallInv'
  BY DEF CallInv, Starting
<1>5. SingleFlight'
  BY DEF SingleFlight, Calls, Opening
<1>6. CachedInv'
  BY DEF CachedInv
<1>7. OpenInv'
  BY DEF OpenInv
<1>8. FailureInv'
  BY DEF FailureInv
<1>9. CacheFollowsConfig'
  BY RootType, <1>0 DEF CacheFollowsConfig
<1>10. FailureFollowsConfig'
  BY RootType, <1>0 DEF FailureFollowsConfig
<1>11. FreshInv'
  BY DEF FreshInv
<1>12. StoredInv'
  BY DEF StoredInv
<1>13. RetiredInv'
  BY DEF RetiredInv
<1>14. CurrentInv'
  BY DEF CurrentInv
<1>15. BeforeInv'
  BY ManagerAssumption DEF RequestInv, CallInv, CachedInv, CurrentInv, BeforeInv, Keys
<1> QED BY <1>1, <1>2, <1>3, <1>4, <1>5, <1>6, <1>7, <1>8, <1>9, <1>10, <1>11, <1>12, <1>13, <1>14, <1>15

LEMMA CooldownErrorPreserves ==
  ASSUME IInv, NEW r \in Req, CooldownError(r)
  PROVE IInv'
<1> USE DEF IInv, StructureInv, FollowsInv, HistoryInv, vars, managerVars, callVars, askVars, storeVars, TypeOK, CooldownError, Goto
<1>0. \A c \in Conns : Invalidating(c) => Invalidating(c)'
  BY InvalidatingStays
<1>1. TypeOK'
  BY DEF Labels
<1>2. RequestInv'
  BY DEF RequestInv
<1>3. LockInv'
  BY DEF LockInv
<1>4. CallInv'
  BY DEF CallInv, Starting
<1>5. SingleFlight'
  BY DEF SingleFlight, Calls, Opening
<1>6. CachedInv'
  BY DEF CachedInv
<1>7. OpenInv'
  BY DEF OpenInv
<1>8. FailureInv'
  BY DEF FailureInv
<1>9. CacheFollowsConfig'
  BY RootType, <1>0 DEF CacheFollowsConfig
<1>10. FailureFollowsConfig'
  BY RootType, <1>0 DEF FailureFollowsConfig
<1>11. FreshInv'
  BY DEF FreshInv
<1>12. StoredInv'
  BY DEF StoredInv
<1>13. RetiredInv'
  BY DEF RetiredInv
<1>14. CurrentInv'
  BY DEF CurrentInv
<1>15. BeforeInv'
  BY DEF BeforeInv
<1> QED BY <1>1, <1>2, <1>3, <1>4, <1>5, <1>6, <1>7, <1>8, <1>9, <1>10, <1>11, <1>12, <1>13, <1>14, <1>15

LEMMA CooldownElapsesPreserves ==
  ASSUME IInv, NEW k \in Keys, CooldownElapses(k)
  PROVE IInv'
<1> USE DEF IInv, StructureInv, FollowsInv, HistoryInv, vars, managerVars, callVars, askVars, storeVars, TypeOK, CooldownElapses
<1>0. \A c \in Conns : Invalidating(c) => Invalidating(c)'
  BY InvalidatingStays
<1>1. TypeOK'
  <2>1. failures[k] \in Failure
    OBVIOUS
  <2>2. [failures[k] EXCEPT !.cooling = FALSE] \in Failure
    BY <2>1 DEF Failure
  <2> QED BY <2>2, Zenon
<1>2. RequestInv'
  BY DEF RequestInv
<1>3. LockInv'
  BY DEF LockInv
<1>4. CallInv'
  BY DEF CallInv
<1>5. SingleFlight'
  BY DEF SingleFlight, Calls
<1>6. CachedInv'
  BY DEF CachedInv, RemovedKeys
<1>7. OpenInv'
  BY DEF OpenInv
<1>8. FailureInv'
  BY DEF FailureInv
<1>9. CacheFollowsConfig'
  BY RootType, <1>0 DEF CacheFollowsConfig
<1>10. FailureFollowsConfig'
  BY RootType, <1>0 DEF FailureFollowsConfig
<1>11. FreshInv'
  BY DEF FreshInv
<1>12. StoredInv'
  BY DEF StoredInv
<1>13. RetiredInv'
  BY DEF RetiredInv
<1>14. CurrentInv'
  BY DEF CurrentInv
<1>15. BeforeInv'
  BY DEF BeforeInv
<1> QED BY <1>1, <1>2, <1>3, <1>4, <1>5, <1>6, <1>7, <1>8, <1>9, <1>10, <1>11, <1>12, <1>13, <1>14, <1>15

LEMMA BeginConnectorCallPreserves ==
  ASSUME IInv, NEW r \in Req, BeginConnectorCall(r)
  PROVE IInv'
<1> USE DEF IInv, StructureInv, FollowsInv, HistoryInv, vars, managerVars, callVars, askVars, storeVars, TypeOK, BeginConnectorCall, Goto, Given
<1>0. \A c \in Conns : Invalidating(c) => Invalidating(c)'
  BY InvalidatingStays
<1>1. TypeOK'
  <2>1. key[r] \in Keys
    BY DEF RequestInv
  <2>2. /\ inFlight' \in [Keys -> Req \cup {None}] /\ joined' \in [Req -> Req \cup {None}]
        /\ got' \in [Req -> Req \cup {None}]
    BY <2>1
  <2>3. pc' \in [Req -> Labels]
    BY DEF Labels, Opening
  <2> QED BY <2>2, <2>3
<1>2. RequestInv'
  BY DEF RequestInv, Opening
<1>3. LockInv'
  BY DEF LockInv
<1>4. CallInv'
  BY DEF CallInv, Starting
<1>5. SingleFlight'
  BY ManagerAssumption DEF CallInv, SingleFlight, Calls, Opening, Starting
<1>6. CachedInv'
  BY DEF CachedInv
<1>7. OpenInv'
  BY DEF OpenInv
<1>8. FailureInv'
  BY DEF FailureInv
<1>9. CacheFollowsConfig'
  BY RootType, <1>0 DEF CallInv, Starting, CacheFollowsConfig
<1>10. FailureFollowsConfig'
  BY RootType, <1>0 DEF FailureFollowsConfig
<1>11. FreshInv'
  BY DEF FreshInv
<1>12. StoredInv'
  BY DEF StoredInv
<1>13. RetiredInv'
  BY DEF RetiredInv
<1>14. CurrentInv'
  BY ManagerAssumption, RootType DEF CallInv, SingleFlight, Calls, Starting, CurrentInv, Versions
<1>15. BeforeInv'
  BY ManagerAssumption DEF RequestInv, CallInv, CachedInv, SingleFlight, Calls, CurrentInv, BeforeInv, Versions, Keys
<1> QED BY <1>1, <1>2, <1>3, <1>4, <1>5, <1>6, <1>7, <1>8, <1>9, <1>10, <1>11, <1>12, <1>13, <1>14, <1>15

LEMMA ResolveConnectionPreserves ==
  ASSUME IInv, NEW r \in Req, ResolveConnection(r)
  PROVE IInv'
<1> USE DEF IInv, StructureInv, FollowsInv, HistoryInv, vars, managerVars, callVars, askVars, storeVars, TypeOK, ResolveConnection, Goto
<1>0. \A c \in Conns : Invalidating(c) => Invalidating(c)'
  BY InvalidatingStays
<1>1. TypeOK'
  <2>1. key[r] \in Keys /\ config[Root(key[r])] \in Versions \cup {Absent}
    BY RootType DEF RequestInv
  <2> QED BY <2>1 DEF Labels, Opening
<1>2. RequestInv'
  BY DEF RequestInv, Opening
<1>3. LockInv'
  BY DEF LockInv
<1>4. CallInv'
  BY ManagerAssumption, RootType DEF RequestInv, CallInv, Starting, Versions
<1>5. SingleFlight'
  BY DEF SingleFlight, Calls, Opening
<1>6. CachedInv'
  BY DEF CallInv, CachedInv, Starting, RemovedKeys
<1>7. OpenInv'
  BY DEF OpenInv
<1>8. FailureInv'
  BY DEF CallInv, FailureInv, Starting, Failure
<1>9. CacheFollowsConfig'
  <2> SUFFICES ASSUME NEW k \in Keys, NEW h \in {cached[k], inFlight[k]} \ {None}
               PROVE version'[h] \in {None, config[Root(k)]} \cup displaced[Root(k)]
                     \/ Invalidating(Root(k))'
    BY DEF CacheFollowsConfig
  <2>1. h = r => key[r] = k
    BY DEF SingleFlight, Calls, CachedInv
  <2>2. CASE h = r
    BY <2>1, <2>2 DEF CallInv, Starting
  <2>3. CASE h # r
    <3>1. version'[h] = version[h]
      BY <2>3
    <3>2. version[h] \in {None, config[Root(k)]} \cup displaced[Root(k)] \/ Invalidating(Root(k))
      BY DEF CacheFollowsConfig
    <3> QED BY <1>0, <3>1, <3>2, RootType
  <2> QED BY <2>2, <2>3
<1>10. FailureFollowsConfig'
  BY RootType, <1>0 DEF CallInv, Starting, FailureInv, Failure, FailureFollowsConfig
<1>11. FreshInv'
  BY DEF FreshInv
<1>12. StoredInv'
  BY DEF StoredInv
<1>13. RetiredInv'
  BY DEF RetiredInv
<1>14. CurrentInv'
  <2> SUFFICES ASSUME NEW k \in Keys, NEW h \in {cached[k], inFlight[k]} \ {None}
               PROVE version'[h] \notin retired[Root(k)]
    BY DEF CurrentInv
  <2>1. h = r => key[r] = k
    BY DEF SingleFlight, Calls, CachedInv
  <2>2. h # r => version'[h] = version[h]
    OBVIOUS
  <2> QED BY <2>1, <2>2, RootType DEF CurrentInv, RetiredInv
<1>15. BeforeInv'
  <2> SUFFICES ASSUME NEW q \in Req
               PROVE /\ joined[q] # None => version'[joined[q]] \notin before[q]
                     /\ got[q] # None => version'[got[q]] # None /\ version'[got[q]] \notin before[q]
    BY DEF BeforeInv
  <2>1. key[r] \in Keys /\ Root(key[r]) \in Conns
    BY RootType DEF RequestInv
  <2>2. config[Root(key[r])] \notin retired[Root(key[r])]
    BY <2>1 DEF RetiredInv
  <2>3. joined[q] = r => before[q] \subseteq retired[Root(key[r])]
    BY <2>1, ManagerAssumption DEF BeforeInv, Keys
  <2>4. got[q] # r
    BY ManagerAssumption DEF BeforeInv, CallInv, Starting
  <2> QED BY <2>2, <2>3, <2>4 DEF BeforeInv
<1> QED BY <1>1, <1>2, <1>3, <1>4, <1>5, <1>6, <1>7, <1>8, <1>9, <1>10, <1>11, <1>12, <1>13, <1>14, <1>15

LEMMA DialPreserves ==
  ASSUME IInv, NEW r \in Req, NEW result \in {"ok", "unavailable", "error"}, Dial(r, result)
  PROVE IInv'
<1> USE DEF IInv, StructureInv, FollowsInv, HistoryInv, vars, managerVars, callVars, askVars, storeVars, TypeOK, Dial, Goto
<1>0. \A c \in Conns : Invalidating(c) => Invalidating(c)'
  BY InvalidatingStays
<1>1. TypeOK'
  BY DEF Labels, Opening
<1>2. RequestInv'
  BY DEF RequestInv, Opening
<1>3. LockInv'
  BY DEF LockInv
<1>4. CallInv'
  BY DEF CallInv, Starting
<1>5. SingleFlight'
  BY DEF SingleFlight, Calls, Opening
<1>6. CachedInv'
  BY DEF CallInv, CachedInv, RemovedKeys
<1>7. OpenInv'
  BY DEF OpenInv
<1>8. FailureInv'
  BY DEF FailureInv
<1>9. CacheFollowsConfig'
  BY RootType, <1>0 DEF CacheFollowsConfig
<1>10. FailureFollowsConfig'
  BY RootType, <1>0 DEF FailureFollowsConfig
<1>11. FreshInv'
  BY DEF FreshInv
<1>12. StoredInv'
  BY DEF StoredInv
<1>13. RetiredInv'
  BY DEF RetiredInv
<1>14. CurrentInv'
  BY DEF CurrentInv
<1>15. BeforeInv'
  BY DEF BeforeInv
<1> QED BY <1>1, <1>2, <1>3, <1>4, <1>5, <1>6, <1>7, <1>8, <1>9, <1>10, <1>11, <1>12, <1>13, <1>14, <1>15

LEMMA FinishConnectorCallPreserves ==
  ASSUME IInv, NEW r \in Req, FinishConnectorCall(r)
  PROVE IInv'
<1> USE DEF IInv, StructureInv, FollowsInv, HistoryInv, vars, managerVars, callVars, askVars, storeVars, TypeOK, FinishConnectorCall, Goto, Given, Publishes, RecordsFailure, Deregister, Ended
<1>0. \A c \in Conns : Invalidating(c) => Invalidating(c)'
  BY InvalidatingStays
<1>1. TypeOK'
  BY ZenonT(60) DEF Labels, Opening, Failure
<1>2. RequestInv'
  BY ManagerAssumption DEF RequestInv, Opening
<1>3. LockInv'
  BY DEF LockInv
<1>4. CallInv'
  BY DEF CallInv, Starting
<1>5. SingleFlight'
  BY DEF SingleFlight, Calls, Opening
<1>6. CachedInv'
  BY DEF CallInv, CachedInv
<1>7. OpenInv'
  BY ManagerAssumption DEF RequestInv, OpenInv, SingleFlight, Calls, Opening
<1>8. FailureInv'
  BY DEF CallInv, FailureInv
<1>9. CacheFollowsConfig'
  BY RootType, <1>0 DEF SingleFlight, Calls, Opening, CacheFollowsConfig
<1>10. FailureFollowsConfig'
  BY RootType, <1>0 DEF CallInv, SingleFlight, Calls, Opening, CacheFollowsConfig, FailureFollowsConfig
<1>11. FreshInv'
  BY DEF FreshInv
<1>12. StoredInv'
  BY DEF StoredInv
<1>13. RetiredInv'
  BY DEF RetiredInv
<1>14. CurrentInv'
  BY DEF SingleFlight, Calls, Opening, CurrentInv
<1>15. BeforeInv'
  BY ManagerAssumption DEF RequestInv, CallInv, SingleFlight, Calls, Opening, CurrentInv, BeforeInv, Keys
<1> QED BY <1>1, <1>2, <1>3, <1>4, <1>5, <1>6, <1>7, <1>8, <1>9, <1>10, <1>11, <1>12, <1>13, <1>14, <1>15

LEMMA WaitConnectorCallPreserves ==
  ASSUME IInv, NEW r \in Req, WaitConnectorCall(r)
  PROVE IInv'
<1> USE DEF IInv, StructureInv, FollowsInv, HistoryInv, vars, managerVars, callVars, askVars, storeVars, TypeOK, WaitConnectorCall, Goto, Given
<1>0. \A c \in Conns : Invalidating(c) => Invalidating(c)'
  BY InvalidatingStays
<1>1. TypeOK'
  BY DEF Labels
<1>2. RequestInv'
  BY DEF RequestInv, Opening
<1>3. LockInv'
  BY DEF LockInv
<1>4. CallInv'
  BY DEF CallInv, Starting
<1>5. SingleFlight'
  BY DEF SingleFlight, Calls, Opening
<1>6. CachedInv'
  BY DEF CachedInv, RemovedKeys
<1>7. OpenInv'
  BY DEF OpenInv
<1>8. FailureInv'
  BY DEF FailureInv
<1>9. CacheFollowsConfig'
  BY RootType, <1>0 DEF CacheFollowsConfig
<1>10. FailureFollowsConfig'
  BY RootType, <1>0 DEF FailureFollowsConfig
<1>11. FreshInv'
  BY DEF FreshInv
<1>12. StoredInv'
  BY DEF StoredInv
<1>13. RetiredInv'
  BY DEF RetiredInv
<1>14. CurrentInv'
  BY DEF CurrentInv
<1>15. BeforeInv'
  <2>1. got'[r] # None => /\ joined[r] \in Req /\ outcome[joined[r]] = "ready"
                          /\ got'[r] = joined[r]
    BY DEF RequestInv
  <2>2. got'[r] # None => version[got'[r]] # None /\ version[got'[r]] \notin before[r]
    BY <2>1 DEF BeforeInv, CallInv
  <2>3. \A q \in Req : q # r => got'[q] = got[q]
    OBVIOUS
  <2> QED BY <2>2, <2>3 DEF BeforeInv
<1> QED BY <1>1, <1>2, <1>3, <1>4, <1>5, <1>6, <1>7, <1>8, <1>9, <1>10, <1>11, <1>12, <1>13, <1>14, <1>15

LEMMA MovesPreserves ==
  ASSUME IInv, NEW r \in Req, WaitCancelled(r) \/ StartOperation(r) \/ EndOperation(r) \/ (\E alive \in BOOLEAN : EndPing(r, alive)) \/ MarkValidated(r)
  PROVE IInv'
<1> USE DEF IInv, StructureInv, FollowsInv, HistoryInv, vars, managerVars, callVars, askVars, storeVars, TypeOK, WaitCancelled, StartOperation, EndOperation, EndPing, MarkValidated, Move, Goto
<1>0. \A c \in Conns : Invalidating(c) => Invalidating(c)'
  BY InvalidatingStays
<1>1. TypeOK'
  BY DEF Labels
<1>2. RequestInv'
  BY DEF RequestInv, Opening
<1>3. LockInv'
  BY DEF LockInv
<1>4. CallInv'
  BY DEF CallInv, Starting
<1>5. SingleFlight'
  BY DEF SingleFlight, Calls, Opening
<1>6. CachedInv'
  BY DEF CachedInv, RemovedKeys
<1>7. OpenInv'
  BY DEF OpenInv
<1>8. FailureInv'
  BY DEF FailureInv
<1>9. CacheFollowsConfig'
  BY RootType, <1>0 DEF CacheFollowsConfig
<1>10. FailureFollowsConfig'
  BY RootType, <1>0 DEF FailureFollowsConfig
<1>11. FreshInv'
  BY DEF FreshInv
<1>12. StoredInv'
  BY DEF StoredInv
<1>13. RetiredInv'
  BY DEF RetiredInv
<1>14. CurrentInv'
  BY DEF CurrentInv
<1>15. BeforeInv'
  BY DEF BeforeInv
<1> QED BY <1>1, <1>2, <1>3, <1>4, <1>5, <1>6, <1>7, <1>8, <1>9, <1>10, <1>11, <1>12, <1>13, <1>14, <1>15

LEMMA LoadForUpdatePreserves ==
  ASSUME IInv, NEW r \in Req, LoadForUpdate(r)
  PROVE IInv'
<1> USE DEF IInv, StructureInv, FollowsInv, HistoryInv, vars, managerVars, callVars, askVars, storeVars, TypeOK, LoadForUpdate, Goto
<1>0. \A c \in Conns : Invalidating(c) => Invalidating(c)'
  BY InvalidatingStays
<1>1. TypeOK'
  BY DEF Labels, RequestInv, Edits
<1>2. RequestInv'
  BY ManagerAssumption DEF RequestInv, Opening, Edits, Versions, Initial, Absent
<1>3. LockInv'
  BY DEF LockInv
<1>4. CallInv'
  BY DEF CallInv, Starting
<1>5. SingleFlight'
  BY DEF SingleFlight, Calls, Opening
<1>6. CachedInv'
  BY DEF CachedInv, RemovedKeys
<1>7. OpenInv'
  BY DEF OpenInv
<1>8. FailureInv'
  BY DEF FailureInv
<1>9. CacheFollowsConfig'
  BY RootType, <1>0 DEF CacheFollowsConfig
<1>10. FailureFollowsConfig'
  BY RootType, <1>0 DEF FailureFollowsConfig
<1>11. FreshInv'
  BY DEF FreshInv
<1>12. StoredInv'
  BY DEF StoredInv, RequestInv, Edits
<1>13. RetiredInv'
  BY DEF RetiredInv
<1>14. CurrentInv'
  BY DEF CurrentInv
<1>15. BeforeInv'
  BY DEF BeforeInv
<1> QED BY <1>1, <1>2, <1>3, <1>4, <1>5, <1>6, <1>7, <1>8, <1>9, <1>10, <1>11, <1>12, <1>13, <1>14, <1>15

LEMMA MarkFailurePreserves ==
  ASSUME IInv, NEW r \in Req, MarkFailure(r)
  PROVE IInv'
<1> USE DEF IInv, StructureInv, FollowsInv, HistoryInv, vars, managerVars, callVars, askVars, storeVars, TypeOK, MarkFailure, Goto
<1>0. \A c \in Conns : Invalidating(c) => Invalidating(c)'
  BY InvalidatingStays
<1>1. TypeOK'
  BY DEF RequestInv, Labels, Failure
<1>2. RequestInv'
  BY DEF RequestInv, Opening
<1>3. LockInv'
  BY DEF LockInv
<1>4. CallInv'
  BY DEF CallInv, Starting
<1>5. SingleFlight'
  BY DEF SingleFlight, Calls, Opening
<1>6. CachedInv'
  BY DEF CachedInv
<1>7. OpenInv'
  BY DEF OpenInv
<1>8. FailureInv'
  BY DEF FailureInv
<1>9. CacheFollowsConfig'
  BY RootType, <1>0 DEF CacheFollowsConfig
<1>10. FailureFollowsConfig'
  BY RootType, <1>0 DEF FailureFollowsConfig
<1>11. FreshInv'
  BY DEF FreshInv
<1>12. StoredInv'
  BY DEF StoredInv
<1>13. RetiredInv'
  BY DEF RetiredInv
<1>14. CurrentInv'
  BY DEF CurrentInv
<1>15. BeforeInv'
  BY DEF BeforeInv
<1> QED BY <1>1, <1>2, <1>3, <1>4, <1>5, <1>6, <1>7, <1>8, <1>9, <1>10, <1>11, <1>12, <1>13, <1>14, <1>15

LEMMA WriteConfigPreserves ==
  ASSUME IInv, NEW r \in Req, WriteConfig(r)
  PROVE IInv'
<1> USE DEF IInv, StructureInv, FollowsInv, HistoryInv, vars, managerVars, callVars, askVars, storeVars, TypeOK, WriteConfig, Goto
<1>a. \A c \in Conns : config'[c] # config[c] => Invalidating(c)'
  BY DEF RequestInv, Edits, Invalidating
<1>0. \A c \in Conns : Invalidating(c) => Invalidating(c)'
  BY InvalidatingStays
<1>1. TypeOK'
  BY SMTT(60), RootType DEF RequestInv, Labels, Failure, Versions
<1>2. RequestInv'
  BY ManagerAssumption DEF RequestInv, Opening, Edits
<1>3. LockInv'
  BY DEF LockInv
<1>4. CallInv'
  BY DEF CallInv, Starting
<1>5. SingleFlight'
  BY DEF SingleFlight, Calls, Opening
<1>6. CachedInv'
  BY DEF CachedInv, RemovedKeys
<1>7. OpenInv'
  BY DEF OpenInv
<1>8. FailureInv'
  BY DEF FailureInv
<1>9. CacheFollowsConfig'
  <2> SUFFICES ASSUME NEW k \in Keys, NEW h \in {cached[k], inFlight[k]} \ {None}
               PROVE version[h] \in {None, config'[Root(k)]} \cup displaced[Root(k)]
                     \/ Invalidating(Root(k))'
    BY DEF CacheFollowsConfig
  <2>1. CASE config'[Root(k)] = config[Root(k)]
    <3>1. version[h] \in {None, config[Root(k)]} \cup displaced[Root(k)] \/ Invalidating(Root(k))
      BY DEF CacheFollowsConfig
    <3> QED BY <1>0, <2>1, <3>1, RootType
  <2>2. CASE config'[Root(k)] # config[Root(k)]
    BY <2>2, <1>a, RootType
  <2> QED BY <2>1, <2>2
<1>10. FailureFollowsConfig'
  <2> SUFFICES ASSUME NEW k \in Keys, failures[k] # None, failures[k].via = "open"
               PROVE version[failures[k].by] \in {config'[Root(k)]} \cup displaced[Root(k)]
                     \/ Invalidating(Root(k))'
    BY DEF FailureFollowsConfig
  <2>1. CASE config'[Root(k)] = config[Root(k)]
    <3>1. version[failures[k].by] \in {config[Root(k)]} \cup displaced[Root(k)] \/ Invalidating(Root(k))
      BY DEF FailureFollowsConfig
    <3> QED BY <1>0, <2>1, <3>1, RootType
  <2>2. CASE config'[Root(k)] # config[Root(k)]
    BY <2>2, <1>a, RootType
  <2> QED BY <2>1, <2>2
<1>11. FreshInv'
  BY ManagerAssumption DEF RequestInv, FreshInv
<1>12. StoredInv'
  BY DEF RequestInv, StoredInv, Edits
<1>13. RetiredInv'
  <2>1. \A c \in Conns : r \notin retired[c] /\ Absent \notin retired[c]
    BY ManagerAssumption DEF FreshInv, StoredInv, Versions, Initial, Absent
  <2>2. \A c \in Conns : config'[c] \in {config[c], r, Absent}
    BY DEF RequestInv
  <2> QED BY <2>1, <2>2 DEF RetiredInv
<1>14. CurrentInv'
  BY DEF CurrentInv
<1>15. BeforeInv'
  BY DEF BeforeInv
<1> QED BY <1>1, <1>2, <1>3, <1>4, <1>5, <1>6, <1>7, <1>8, <1>9, <1>10, <1>11, <1>12, <1>13, <1>14, <1>15

LEMMA WriteBackPreserves ==
  ASSUME IInv, NEW r \in Req, WriteBack(r)
  PROVE IInv'
<1> USE DEF IInv, StructureInv, FollowsInv, HistoryInv, vars, managerVars, callVars, askVars, storeVars, TypeOK, WriteBack, Goto
<1>a. key[r] \in Conns /\ carried[r] \in Versions
  BY DEF RequestInv, Edits
<1>b. \A c \in Conns : config[c] # Absent =>
        displaced[c] \cup {config[c]} \subseteq displaced'[c] \cup {config'[c]}
  BY <1>a
<1>c. \A c \in Conns : retired'[c] \subseteq retired[c]
  BY <1>a
<1>d. \A q \in Req : before'[q] \subseteq before[q]
  BY <1>a
<1>0. \A c \in Conns : Invalidating(c) => Invalidating(c)'
  BY InvalidatingStays
<1>1. TypeOK'
  BY SMTT(60), RootType DEF RequestInv, Labels, Failure, Versions
<1>2. RequestInv'
  BY DEF RequestInv, Opening
<1>3. LockInv'
  BY DEF LockInv
<1>4. CallInv'
  BY DEF CallInv, Starting
<1>5. SingleFlight'
  BY DEF SingleFlight, Calls, Opening
<1>6. CachedInv'
  BY DEF CachedInv, RemovedKeys
<1>7. OpenInv'
  BY DEF OpenInv
<1>8. FailureInv'
  BY DEF FailureInv
<1>9. CacheFollowsConfig'
  <2> SUFFICES ASSUME NEW k \in Keys, NEW h \in {cached[k], inFlight[k]} \ {None}
               PROVE version[h] \in {None, config'[Root(k)]} \cup displaced'[Root(k)]
                     \/ Invalidating(Root(k))'
    BY DEF CacheFollowsConfig
  <2>1. version[h] \in {None, config[Root(k)]} \cup displaced[Root(k)] \/ Invalidating(Root(k))
    BY DEF CacheFollowsConfig
  <2>2. h \in Req /\ version[h] # Absent
    BY ManagerAssumption DEF Versions, Initial, Absent
  <2> QED BY <1>0, <1>b, <2>1, <2>2, RootType
<1>10. FailureFollowsConfig'
  <2> SUFFICES ASSUME NEW k \in Keys, failures[k] # None, failures[k].via = "open"
               PROVE version[failures[k].by] \in {config'[Root(k)]} \cup displaced'[Root(k)]
                     \/ Invalidating(Root(k))'
    BY DEF FailureFollowsConfig
  <2>1. version[failures[k].by] \in {config[Root(k)]} \cup displaced[Root(k)] \/ Invalidating(Root(k))
    BY DEF FailureFollowsConfig
  <2>2. failures[k].by \in Req /\ version[failures[k].by] # Absent
    BY ManagerAssumption DEF Failure, Versions, Initial, Absent
  <2> QED BY <1>0, <1>b, <2>1, <2>2, RootType
<1>11. FreshInv'
  BY ManagerAssumption DEF RequestInv, FreshInv
<1>12. StoredInv'
  BY <1>a DEF RequestInv, StoredInv, Edits
<1>13. RetiredInv'
  BY <1>a DEF RetiredInv
<1>14. CurrentInv'
  BY <1>c, RootType DEF CurrentInv
<1>15. BeforeInv'
  <2>1. \A q \in Req : key[q] # None => before'[q] \subseteq retired'[Root(key[q])]
    <3> SUFFICES ASSUME NEW q \in Req, key[q] # None PROVE before'[q] \subseteq retired'[Root(key[q])]
      OBVIOUS
    <3>1. before[q] \subseteq retired[Root(key[q])] /\ Root(key[q]) \in Conns
      BY RootType DEF BeforeInv
    <3> QED BY <1>a, <3>1 DEF About
  <2> QED BY <1>d, <2>1 DEF BeforeInv
<1> QED BY <1>1, <1>2, <1>3, <1>4, <1>5, <1>6, <1>7, <1>8, <1>9, <1>10, <1>11, <1>12, <1>13, <1>14, <1>15

LEMMA RemoveStartPreserves ==
  ASSUME IInv, NEW r \in Req, RemoveStart(r)
  PROVE IInv'
<1> USE DEF IInv, StructureInv, FollowsInv, HistoryInv, vars, managerVars, callVars, askVars, storeVars, TypeOK, RemoveStart, Goto
<1>0. \A c \in Conns : Invalidating(c) => Invalidating(c)'
  BY InvalidatingStays
<1>1. TypeOK'
  BY DEF Labels
<1>2. RequestInv'
  BY DEF RequestInv, Opening
<1>3. LockInv'
  BY ManagerAssumption DEF LockInv
<1>4. CallInv'
  BY DEF CallInv, Starting
<1>5. SingleFlight'
  BY DEF SingleFlight, Calls, Opening
<1>6. CachedInv'
  BY DEF CachedInv
<1>7. OpenInv'
  BY DEF OpenInv
<1>8. FailureInv'
  BY DEF FailureInv
<1>9. CacheFollowsConfig'
  BY RootType, <1>0 DEF CacheFollowsConfig
<1>10. FailureFollowsConfig'
  BY RootType, <1>0 DEF FailureFollowsConfig
<1>11. FreshInv'
  BY DEF FreshInv
<1>12. StoredInv'
  BY DEF StoredInv
<1>13. RetiredInv'
  BY DEF RetiredInv
<1>14. CurrentInv'
  BY DEF CurrentInv
<1>15. BeforeInv'
  BY DEF BeforeInv
<1> QED BY <1>1, <1>2, <1>3, <1>4, <1>5, <1>6, <1>7, <1>8, <1>9, <1>10, <1>11, <1>12, <1>13, <1>14, <1>15

LEMMA CloseStartPreserves ==
  ASSUME IInv, NEW r \in Req, NEW k \in Keys, CloseStart(r, k)
  PROVE IInv'
<1> USE DEF IInv, StructureInv, FollowsInv, HistoryInv, vars, managerVars, callVars, askVars, storeVars, TypeOK, CloseStart
<1>0. \A c \in Conns : Invalidating(c) => Invalidating(c)'
  BY InvalidatingStays
<1>1. TypeOK'
  BY DEF AllOps
<1>2. RequestInv'
  BY DEF RequestInv
<1>3. LockInv'
  BY DEF LockInv
<1>4. CallInv'
  BY DEF CallInv, CachedInv
<1>5. SingleFlight'
  BY DEF SingleFlight, Calls
<1>6. CachedInv'
  BY ManagerAssumption DEF LockInv, CachedInv, RemovedKeys
<1>7. OpenInv'
  BY DEF OpenInv
<1>8. FailureInv'
  BY DEF FailureInv
<1>9. CacheFollowsConfig'
  BY RootType, <1>0 DEF CacheFollowsConfig
<1>10. FailureFollowsConfig'
  BY RootType, <1>0 DEF FailureFollowsConfig
<1>11. FreshInv'
  BY DEF FreshInv
<1>12. StoredInv'
  BY DEF StoredInv
<1>13. RetiredInv'
  BY DEF RetiredInv
<1>14. CurrentInv'
  BY DEF CurrentInv
<1>15. BeforeInv'
  BY DEF BeforeInv
<1> QED BY <1>1, <1>2, <1>3, <1>4, <1>5, <1>6, <1>7, <1>8, <1>9, <1>10, <1>11, <1>12, <1>13, <1>14, <1>15

LEMMA CloseReturnsPreserves ==
  ASSUME IInv, NEW r \in Req, NEW k \in Keys, CloseReturns(r, k)
  PROVE IInv'
<1> USE DEF IInv, StructureInv, FollowsInv, HistoryInv, vars, managerVars, callVars, askVars, storeVars, TypeOK, CloseReturns
<1>0. \A c \in Conns : Invalidating(c) => Invalidating(c)'
  BY InvalidatingStays
<1>1. TypeOK'
  BY DEF AllOps
<1>2. RequestInv'
  BY DEF RequestInv
<1>3. LockInv'
  BY DEF LockInv
<1>4. CallInv'
  BY DEF CallInv
<1>5. SingleFlight'
  BY DEF SingleFlight, Calls
<1>6. CachedInv'
  BY DEF CachedInv, RemovedKeys
<1>7. OpenInv'
  BY DEF OpenInv
<1>8. FailureInv'
  BY DEF FailureInv
<1>9. CacheFollowsConfig'
  BY RootType, <1>0 DEF CacheFollowsConfig
<1>10. FailureFollowsConfig'
  BY RootType, <1>0 DEF FailureFollowsConfig
<1>11. FreshInv'
  BY DEF FreshInv
<1>12. StoredInv'
  BY DEF StoredInv
<1>13. RetiredInv'
  BY DEF RetiredInv
<1>14. CurrentInv'
  BY DEF CurrentInv
<1>15. BeforeInv'
  BY DEF BeforeInv
<1> QED BY <1>1, <1>2, <1>3, <1>4, <1>5, <1>6, <1>7, <1>8, <1>9, <1>10, <1>11, <1>12, <1>13, <1>14, <1>15

LEMMA RemoveFinishPreserves ==
  ASSUME IInv, NEW r \in Req, RemoveFinish(r)
  PROVE IInv'
<1> USE DEF IInv, StructureInv, FollowsInv, HistoryInv, vars, managerVars, callVars, askVars, storeVars, TypeOK, RemoveFinish, Goto, Dropped
<1>0. \A c \in Conns : Invalidating(c) /\ ~(op[r] \in Edits /\ c = key[r]) => Invalidating(c)'
  BY DEF Invalidating, Edits
<1>a. RemovedKeys(r) \subseteq Keys
  BY DEF RemovedKeys, KeysOf, RequestInv
<1>b. op[r] \in Edits => \A k \in Keys : Root(k) = key[r] =>
          k \in RemovedKeys(r) /\ cached'[k] = None /\ inFlight'[k] = None /\ failures'[k] = None
  BY DEF RemovedKeys, KeysOf, Edits
<1>1. TypeOK'
  <2>1. failures' \in [Keys -> Failure \cup {None}] /\ inFlight' \in [Keys -> Req \cup {None}]
    OBVIOUS
  <2>2. removed' \subseteq Req
    <3>1. RemovedKeys(r) \subseteq Keys
      BY DEF RemovedKeys, RequestInv, KeysOf
    <3> QED BY <3>1
  <2>3. retired' \in [Conns -> SUBSET Versions]
    OBVIOUS
  <2>4. pc' \in [Req -> Labels]
    BY DEF Labels
  <2> QED BY <2>1, <2>2, <2>3, <2>4
<1>2. RequestInv'
  BY DEF RequestInv, Opening
<1>3. LockInv'
  BY ManagerAssumption DEF LockInv
<1>4. CallInv'
  <2>1. \A h \in Dropped(r) : h \in Req /\ pc[h] \in Opening
    BY <1>a DEF SingleFlight, Calls
  <2>2. \A h \in removed' : h \in removed \/ pc[h] \in Opening
    BY <2>1
  <2> QED BY <2>2 DEF CallInv, Starting, Opening
<1>5. SingleFlight'
  BY DEF SingleFlight, Calls, Opening
<1>6. CachedInv'
  BY DEF LockInv, CachedInv
<1>7. OpenInv'
  BY DEF OpenInv
<1>8. FailureInv'
  BY DEF FailureInv
<1>9. CacheFollowsConfig'
  <2> SUFFICES ASSUME NEW k \in Keys, NEW h \in {cached'[k], inFlight'[k]} \ {None}
               PROVE version[h] \in {None, config[Root(k)]} \cup displaced'[Root(k)]
                     \/ Invalidating(Root(k))'
    BY DEF CacheFollowsConfig
  <2>1. h \in {cached[k], inFlight[k]} \ {None}
    OBVIOUS
  <2>2. op[r] \in Edits => Root(k) # key[r]
    BY <1>b, <2>1
  <2>3. displaced'[Root(k)] = displaced[Root(k)]
    BY <2>2, RootType
  <2>4. version[h] \in {None, config[Root(k)]} \cup displaced[Root(k)] \/ Invalidating(Root(k))
    BY <2>1 DEF CacheFollowsConfig
  <2> QED BY <1>0, <2>2, <2>3, <2>4, RootType
<1>10. FailureFollowsConfig'
  <2> SUFFICES ASSUME NEW k \in Keys, failures'[k] # None, failures'[k].via = "open"
               PROVE version[failures'[k].by] \in {config[Root(k)]} \cup displaced'[Root(k)]
                     \/ Invalidating(Root(k))'
    BY DEF FailureFollowsConfig
  <2>1. failures'[k] = failures[k]
    OBVIOUS
  <2>2. op[r] \in Edits => Root(k) # key[r]
    BY <1>b
  <2>3. displaced'[Root(k)] = displaced[Root(k)]
    BY <2>2, RootType
  <2>4. version[failures[k].by] \in {config[Root(k)]} \cup displaced[Root(k)] \/ Invalidating(Root(k))
    BY <2>1 DEF FailureFollowsConfig
  <2> QED BY <1>0, <2>1, <2>2, <2>3, <2>4, RootType
<1>11. FreshInv'
  BY DEF FreshInv
<1>12. StoredInv'
  BY DEF StoredInv, RequestInv
<1>13. RetiredInv'
  BY DEF RetiredInv, RequestInv
<1>14. CurrentInv'
  <2> SUFFICES ASSUME NEW k \in Keys, NEW h \in {cached'[k], inFlight'[k]} \ {None}
               PROVE version[h] \notin retired'[Root(k)]
    BY DEF CurrentInv
  <2>1. h \in {cached[k], inFlight[k]} \ {None}
    OBVIOUS
  <2>2. op[r] \in Edits => Root(k) # key[r]
    BY <1>b, <2>1
  <2>3. retired'[Root(k)] = retired[Root(k)]
    BY <2>2, RootType DEF RequestInv
  <2> QED BY <2>1, <2>3 DEF CurrentInv
<1>15. BeforeInv'
  <2>1. \A c \in Conns : retired[c] \subseteq retired'[c]
    BY DEF StoredInv, RetiredInv, RequestInv
  <2> QED BY <2>1, RootType DEF BeforeInv
<1> QED BY <1>1, <1>2, <1>3, <1>4, <1>5, <1>6, <1>7, <1>8, <1>9, <1>10, <1>11, <1>12, <1>13, <1>14, <1>15

LEMMA InitEstablishes == Init => IInv
<1> SUFFICES ASSUME Init PROVE IInv
  OBVIOUS
<1> USE ManagerAssumption DEF Init
<1>1. TypeOK
  BY DEF TypeOK, Versions, Labels
<1>2. RequestInv
  <2>1. \A r \in Req : pc[r] = "idle" /\ op[r] = None /\ key[r] = None /\ got[r] = None
                       /\ joined[r] = None /\ carried[r] = None /\ before[r] = {}
    OBVIOUS
  <2>2. None \notin {"update", "schemas", "delete", "check"}
    BY DEF AllOps
  <2> QED BY <2>1, <2>2 DEF RequestInv, Opening, Edits
<1>3. LockInv
  BY DEF LockInv
<1>4. CallInv
  BY DEF CallInv, Starting
<1>5. CachedInv /\ OpenInv /\ FailureInv
  BY DEF CachedInv, OpenInv, FailureInv, Keys
<1>6. SingleFlight
  BY DEF SingleFlight, Calls, Opening, Keys
<1>7. CacheFollowsConfig /\ FailureFollowsConfig
  BY DEF CacheFollowsConfig, FailureFollowsConfig, Keys
<1>8. FreshInv /\ StoredInv /\ RetiredInv /\ CurrentInv /\ BeforeInv
  BY DEF FreshInv, StoredInv, RetiredInv, CurrentInv, BeforeInv, Keys
<1> QED BY <1>1, <1>2, <1>3, <1>4, <1>5, <1>6, <1>7, <1>8 DEF IInv, StructureInv, FollowsInv, HistoryInv

LEMMA StutterPreserves == IInv /\ UNCHANGED vars => IInv'
BY DEF vars, managerVars, callVars, askVars, storeVars, IInv, StructureInv, FollowsInv, HistoryInv,
       TypeOK, RequestInv, LockInv, CallInv, SingleFlight, Calls, CachedInv, RemovedKeys, OpenInv,
       FailureInv, CacheFollowsConfig, FailureFollowsConfig, Invalidating, FreshInv, StoredInv,
       RetiredInv, CurrentInv, BeforeInv

LEMMA NextPreserves == IInv /\ [Next]_vars => IInv'
<1> SUFFICES ASSUME IInv, [Next]_vars PROVE IInv'
  OBVIOUS
<1>1. CASE UNCHANGED vars
  BY <1>1, StutterPreserves
<1>2. ASSUME NEW k \in Keys, CooldownElapses(k) PROVE IInv'
  BY <1>2, CooldownElapsesPreserves
<1>3. ASSUME NEW r \in Req, NEW o \in Ops, NEW k \in Keys, Begin(r, o, k) PROVE IInv'
  BY <1>3, BeginPreserves
<1>4. ASSUME NEW r \in Req, WaitCancelled(r) PROVE IInv'
  BY <1>4, MovesPreserves
<1>5. ASSUME NEW r \in Req, Step(r) PROVE IInv'
  <2>1. ASSUME NEW k \in Keys, CloseStart(r, k) \/ CloseReturns(r, k) PROVE IInv'
    BY <2>1, CloseStartPreserves, CloseReturnsPreserves
  <2>2. ASSUME NEW result \in {"ok", "unavailable", "error"}, Dial(r, result) PROVE IInv'
    BY <2>2, DialPreserves
  <2>3. CASE GetCached(r) \/ CooldownError(r) \/ BeginConnectorCall(r) \/ ResolveConnection(r)
    BY <2>3, GetCachedPreserves, CooldownErrorPreserves, BeginConnectorCallPreserves,
       ResolveConnectionPreserves
  <2>4. CASE FinishConnectorCall(r) \/ WaitConnectorCall(r) \/ MarkFailure(r)
    BY <2>4, FinishConnectorCallPreserves, WaitConnectorCallPreserves, MarkFailurePreserves
  <2>5. CASE \/ StartOperation(r) \/ EndOperation(r)
             \/ (\E alive \in BOOLEAN : EndPing(r, alive)) \/ MarkValidated(r)
    BY <2>5, MovesPreserves
  <2>7. CASE LoadForUpdate(r)
    BY <2>7, LoadForUpdatePreserves
  <2>6. CASE WriteConfig(r) \/ WriteBack(r) \/ RemoveStart(r) \/ RemoveFinish(r)
    BY <2>6, WriteConfigPreserves, WriteBackPreserves, RemoveStartPreserves, RemoveFinishPreserves
  <2> QED BY <1>5, <2>1, <2>2, <2>3, <2>4, <2>5, <2>6, <2>7 DEF Step
<1> QED BY <1>1, <1>2, <1>3, <1>4, <1>5 DEF Next

(* The invariant that carries every safety property of the manager. *)
THEOREM Invariance == Spec => []IInv
<1>1. Init => IInv
  BY InitEstablishes
<1>2. IInv /\ [Next]_vars => IInv'
  BY NextPreserves
<1> QED BY <1>1, <1>2, PTL DEF Spec

(* Every variable keeps its type. *)
THEOREM TypeCorrect == Spec => []TypeOK
<1>1. IInv => TypeOK
  BY DEF IInv, StructureInv
<1> QED BY <1>1, Invariance, PTL

(* One dial per key, never beside a cached connector. *)
THEOREM SingleFlightHolds == Spec => []SingleFlight
<1>1. IInv => SingleFlight
  BY DEF IInv, StructureInv
<1> QED BY <1>1, Invariance, PTL

(* No connector is opened and then lost. *)
THEOREM NoLeakHolds == Spec => []NoLeak
<1>1. IInv => NoLeak
  BY DEF IInv, StructureInv, OpenInv, CachedInv, NoLeak
<1> QED BY <1>1, Invariance, PTL

(* What the cache holds, and what it will hold, has the stored settings. *)
THEOREM CacheFollowsConfigHolds == Spec => []CacheFollowsConfig
<1>1. IInv => CacheFollowsConfig
  BY DEF IInv, FollowsInv
<1> QED BY <1>1, Invariance, PTL

(* A failed open of replaced settings never holds requests back. *)
THEOREM FailureFollowsConfigHolds == Spec => []FailureFollowsConfig
<1>1. IInv => FailureFollowsConfig
  BY DEF IInv, FollowsInv
<1> QED BY <1>1, Invariance, PTL

(* After an edit is answered nobody who asks gets the old settings. *)
THEOREM NoStaleAnswerHolds == Spec => []NoStaleAnswer
<1>1. IInv => NoStaleAnswer
  BY DEF IInv, HistoryInv, BeforeInv, NoStaleAnswer
<1> QED BY <1>1, Invariance, PTL

(* A failed check closes nothing but the connector it checked. *)
THEOREM CheckSparesOthersHolds == Spec => CheckSparesOthers
<1> DEFINE Spares == \A h \in Req : status[h] = "open" /\ status'[h] # "open" /\ mu # None
                                    /\ op[mu] = "check" => key[h] = key[mu]
<1>1. IInv /\ [Next]_vars => [Spares]_vars
  <2> SUFFICES ASSUME IInv, Next PROVE Spares
    OBVIOUS
  <2> USE ManagerAssumption DEF IInv, StructureInv, TypeOK
  <2>1. ASSUME NEW r \in Req, NEW k \in Keys, CloseStart(r, k) \/ CloseReturns(r, k) PROVE Spares
    BY <2>1 DEF CloseStart, CloseReturns, LockInv, CachedInv, RemovedKeys
  <2>2. ASSUME NEW r \in Req, FinishConnectorCall(r) PROVE Spares
    BY <2>2 DEF FinishConnectorCall
  <2>3. ASSUME NEW r \in Req, NEW result \in {"ok", "unavailable", "error"}, Dial(r, result)
        PROVE Spares
    BY <2>3 DEF Dial, CallInv
  <2>4. ASSUME NEW r \in Req,
               \/ GetCached(r) \/ CooldownError(r) \/ BeginConnectorCall(r) \/ ResolveConnection(r)
               \/ WaitConnectorCall(r) \/ StartOperation(r) \/ EndOperation(r)
               \/ (\E alive \in BOOLEAN : EndPing(r, alive)) \/ MarkValidated(r) \/ MarkFailure(r)
               \/ LoadForUpdate(r) \/ WriteConfig(r) \/ WriteBack(r) \/ RemoveStart(r) \/ RemoveFinish(r)
               \/ WaitCancelled(r)
        PROVE UNCHANGED status
    BY <2>4 DEF GetCached, CooldownError, BeginConnectorCall, ResolveConnection, WaitConnectorCall,
       WaitCancelled, StartOperation, EndOperation, EndPing, MarkValidated, MarkFailure,
       LoadForUpdate, WriteConfig, WriteBack, RemoveStart, RemoveFinish, Move, callVars
  <2>5. ASSUME NEW r \in Req, NEW o \in Ops, NEW k \in Keys, Begin(r, o, k) PROVE UNCHANGED status
    BY <2>5 DEF Begin, callVars
  <2>6. ASSUME NEW k \in Keys, CooldownElapses(k) PROVE UNCHANGED status
    BY <2>6 DEF CooldownElapses, callVars
  <2>7. UNCHANGED status => Spares
    OBVIOUS
  <2> QED BY <2>1, <2>2, <2>3, <2>4, <2>5, <2>6, <2>7 DEF Next, Step
<1> QED BY <1>1, Invariance, PTL DEF Spec, CheckSparesOthers
-----------------------------------------------------------------------------
(* What a call opens with was once stored, and a request is given a connector
   of its own key. *)
WrittenInv ==
  /\ \A h \in Req : version[h] # None => version[h] \in written[Root(key[h])]
  /\ \A r \in Req : got[r] # None => key[got[r]] = key[r]

RInv == IInv /\ WrittenInv

storedVars == <<config, written, key>>
seenVars == <<retired, before, got>>

(* A step that neither stores settings nor gives out a connector. *)
LEMMA QuietStep ==
  ASSUME RInv, UNCHANGED <<storedVars, seenVars>>,
         \A h \in Req : version'[h] = version[h] \/ (version[h] = None /\ version'[h] = config[Root(key[h])]
                                                     /\ key[h] \in Keys /\ config[Root(key[h])] \in Versions)
  PROVE UNCHANGED Cache!vars /\ WrittenInv'
<1>1. \A r \in Req : got[r] # None => got[r] \in Req /\ version'[got[r]] = version[got[r]]
  BY DEF RInv, IInv, StructureInv, TypeOK, HistoryInv, BeforeInv
<1>2. UNCHANGED <<config, written, retired, before>>
  BY DEF storedVars, seenVars
<1>3. [r \in Req |-> IF key[r] = None THEN None ELSE Root(key[r])]'
        = [r \in Req |-> IF key[r] = None THEN None ELSE Root(key[r])]
  BY DEF storedVars, Root
<1>4. [r \in Req |-> IF got[r] = None THEN None ELSE version[got[r]]]'
        = [r \in Req |-> IF got[r] = None THEN None ELSE version[got[r]]]
  BY <1>1 DEF seenVars
<1>5. \A h \in Req : version'[h] # None => version'[h] \in written[Root(key[h])]
  <2> SUFFICES ASSUME NEW h \in Req, version'[h] # None PROVE version'[h] \in written[Root(key[h])]
    OBVIOUS
  <2>1. CASE version'[h] = version[h]
    BY <2>1 DEF RInv, WrittenInv
  <2>2. CASE version'[h] # version[h]
    <3>1. Root(key[h]) \in Conns /\ config[Root(key[h])] # Absent
      BY <2>2, RootType, ManagerAssumption DEF Versions, Initial, Absent
    <3> QED BY <2>2, <3>1 DEF RInv, IInv, HistoryInv, StoredInv
  <2> QED BY <2>1, <2>2
<1>6. WrittenInv'
  BY <1>5 DEF RInv, WrittenInv, storedVars, seenVars, Root
<1> QED BY <1>2, <1>3, <1>4, <1>6 DEF Cache!vars

(* A request is given a connector. *)
LEMMA ServeStep ==
  ASSUME RInv, UNCHANGED <<storedVars, retired, before, version>>, NEW r \in Req, NEW h \in Req,
         got' = [got EXCEPT ![r] = h], got[r] = None, key[r] \in Keys, key[h] = key[r],
         version[h] # None, version[h] \notin before[r]
  PROVE Cache!Next /\ WrittenInv'
<1> USE ManagerAssumption DEF RInv, IInv, StructureInv, TypeOK, storedVars
<1>1. key[r] # None /\ Root(key[r]) \in Conns
  BY RootType DEF Keys
<1>2. PICK v \in Cache!Versions : v = version[h]
  BY DEF Versions, Cache!Versions
<1>3. v \in written[Root(key[r])] \ before[r]
  BY <1>2 DEF WrittenInv
<1>4. UNCHANGED <<config, written, retired,
                  [q \in Req |-> IF key[q] = None THEN None ELSE Root(key[q])], before>>
  BY DEF Root
<1>5. [q \in Req |-> IF got[q] = None THEN None ELSE version[got[q]]]'
        = [[q \in Req |-> IF got[q] = None THEN None ELSE version[got[q]]] EXCEPT ![r] = v]
  BY <1>2
<1>6. Cache!Serve(r, v)
  BY <1>1, <1>3, <1>4, <1>5 DEF Cache!Serve
<1>7. Cache!Next
  BY <1>6 DEF Cache!Next
<1>8. WrittenInv'
  BY DEF WrittenInv, Root
<1> QED BY <1>7, <1>8

(* A handler is entered. *)
LEMMA AskStep ==
  ASSUME RInv, NEW r \in Req, NEW o \in Ops, NEW k \in Keys, Begin(r, o, k)
  PROVE Cache!Next /\ WrittenInv'
<1> USE ManagerAssumption DEF RInv, IInv, StructureInv, TypeOK, Begin, managerVars, callVars, storeVars
<1>1. Root(k) \in Conns /\ k # None /\ Root(k) # None
  BY RootType DEF Keys
<1>2. key[r] = None /\ got[r] = None
  BY DEF RequestInv
<1>3. [q \in Req |-> IF key[q] = None THEN None ELSE Root(key[q])]'
        = [[q \in Req |-> IF key[q] = None THEN None ELSE Root(key[q])] EXCEPT ![r] = Root(k)]
  BY <1>1 DEF Root
<1>4. before' = [before EXCEPT ![r] = retired[Root(k)]]
  OBVIOUS
<1>5. UNCHANGED <<config, written, retired,
                  [q \in Req |-> IF got[q] = None THEN None ELSE version[got[q]]]>>
  OBVIOUS
<1>6. Cache!Ask(r, Root(k))
  BY <1>2, <1>3, <1>4, <1>5 DEF Cache!Ask
<1>7. Cache!Next
  BY <1>1, <1>6 DEF Cache!Next
<1>8. version[r] = None /\ \A q \in Req : got[q] # r
  BY DEF CallInv, Starting, HistoryInv, BeforeInv
<1>9. WrittenInv'
  BY <1>2, <1>8 DEF WrittenInv, Root, RequestInv
<1> QED BY <1>7, <1>9

(* New settings are stored, or the connection is deleted. *)
LEMMA EditStep ==
  ASSUME RInv, NEW r \in Req, WriteConfig(r), config[key[r]] # Absent
  PROVE Cache!Next /\ WrittenInv'
<1> USE ManagerAssumption
    DEF RInv, IInv, StructureInv, TypeOK, HistoryInv, WriteConfig, managerVars, callVars, askVars
<1> DEFINE c == key[r]
<1>1. c \in Conns /\ c # None /\ Root(c) = c
  BY DEF RequestInv, Root
<1>2. r \notin written[c]
  BY <1>1 DEF FreshInv
<1>3. UNCHANGED <<retired, before, [q \in Req |-> IF key[q] = None THEN None ELSE Root(key[q])],
                  [q \in Req |-> IF got[q] = None THEN None ELSE version[got[q]]]>>
  BY DEF Root
<1>4. [q \in Req |-> IF key[q] = None THEN None ELSE Root(key[q])][r] = c
  BY <1>1
<1>5. Cache!Edit(r, c)
  <2>1. CASE op[r] = "update"
    BY <1>1, <1>2, <1>3, <1>4, <2>1 DEF Cache!Edit
  <2>2. CASE op[r] # "update"
    <3>1. written' = written
      BY <1>1, <2>2
    <3> QED BY <1>1, <1>3, <1>4, <2>2, <3>1 DEF Cache!Edit
  <2> QED BY <2>1, <2>2
<1>6. \A q \in Req : version[q] # None => Root(key[q]) \in Conns
  BY RootType DEF RequestInv, CallInv, Starting
<1>7. \A d \in Conns : written[d] \subseteq written'[d]
  BY <1>1
<1>8. WrittenInv'
  BY <1>6, <1>7 DEF WrittenInv, Root
<1> QED BY <1>1, <1>5, <1>8 DEF Cache!Next

(* An older copy of the settings is stored. *)
LEMMA PutBackStep ==
  ASSUME RInv, NEW r \in Req, WriteBack(r)
  PROVE [Cache!Next]_(Cache!vars) /\ WrittenInv'
<1> USE ManagerAssumption
    DEF RInv, IInv, StructureInv, TypeOK, HistoryInv, WriteBack, managerVars, callVars, askVars,
        storeVars
<1> DEFINE c == key[r]
           v == carried[r]
<1>1. c \in Conns /\ v \in written[c] /\ v \in Cache!Versions
  BY DEF RequestInv, StoredInv, Edits, Versions, Cache!Versions
<1>2. UNCHANGED <<[q \in Req |-> IF key[q] = None THEN None ELSE Root(key[q])],
                  [q \in Req |-> IF got[q] = None THEN None ELSE version[got[q]]]>>
  BY DEF Root
<1>3. WrittenInv'
  BY DEF WrittenInv, Root
<1>4. CASE config[c] \in {Absent, v}
  BY <1>2, <1>3, <1>4 DEF Cache!vars
<1>5. CASE config[c] \notin {Absent, v}
  <2>1. \A q \in Req : About(q, c) <=> [p \in Req |-> IF key[p] = None THEN None ELSE Root(key[p])][q] = c
    BY <1>1 DEF About
  <2>2. before' = [q \in Req |-> IF [p \in Req |-> IF key[p] = None THEN None ELSE Root(key[p])][q] = c
                                  THEN before[q] \ {v} ELSE before[q]]
    BY <1>5, <2>1
  <2>3. Cache!PutBack(c, v)
    BY <1>1, <1>2, <1>5, <2>2 DEF Cache!PutBack
  <2> QED BY <1>1, <1>3, <2>3 DEF Cache!Next
<1> QED BY <1>4, <1>5

(* An edit or delete is answered: its removal ends. *)
LEMMA AnswerStep ==
  ASSUME RInv, NEW r \in Req, RemoveFinish(r), op[r] \in Edits
  PROVE Cache!Next /\ WrittenInv'
<1> USE ManagerAssumption
    DEF RInv, IInv, StructureInv, TypeOK, HistoryInv, RemoveFinish, askVars
<1>1. key[r] \in Conns
  BY DEF RequestInv
<1>2. UNCHANGED <<config, written,
                  [q \in Req |-> IF key[q] = None THEN None ELSE Root(key[q])], before,
                  [q \in Req |-> IF got[q] = None THEN None ELSE version[got[q]]]>>
  BY DEF Root
<1>3. Cache!Answer(key[r])
  BY <1>1, <1>2 DEF Cache!Answer
<1>4. Cache!Next
  BY <1>1, <1>3 DEF Cache!Next
<1> QED BY <1>4 DEF WrittenInv, Root

LEMMA StepSimulates == ASSUME RInv, NEW r \in Req, Step(r) PROVE [Cache!Next]_(Cache!vars) /\ WrittenInv'
<1> DEFINE Quiet ==
  /\ UNCHANGED <<storedVars, seenVars>>
  /\ \A h \in Req : \/ version'[h] = version[h]
                    \/ /\ version[h] = None /\ version'[h] = config[Root(key[h])]
                       /\ key[h] \in Keys /\ config[Root(key[h])] \in Versions
<1> DEFINE Goal == [Cache!Next]_(Cache!vars) /\ WrittenInv'
<1>1. Quiet => Goal
  BY QuietStep
<1> SUFFICES Goal
  OBVIOUS
<1> HIDE DEF Goal
<1>2. CASE GetCached(r)
  <2> USE ManagerAssumption
      DEF RInv, IInv, StructureInv, TypeOK, HistoryInv, FollowsInv, GetCached, managerVars, callVars,
          askVars, storeVars, storedVars, seenVars
  <2>1. key[r] \in Keys /\ got[r] = None
    BY <1>2 DEF RequestInv
  <2>2. CASE cached[key[r]] = None
    BY <1>1, <1>2, <2>1, <2>2
  <2>3. CASE cached[key[r]] # None
    <3>1. key[cached[key[r]]] = key[r] /\ version[cached[key[r]]] # None
      BY <2>1, <2>3 DEF CachedInv, CallInv
    <3>2. version[cached[key[r]]] \notin before[r]
      BY <2>1, <2>3 DEF CurrentInv, BeforeInv, Keys
    <3> QED BY <1>2, <2>1, <2>3, <3>1, <3>2, ServeStep DEF Goal
  <2> QED BY <2>2, <2>3
<1>3. CASE BeginConnectorCall(r)
  <2> USE ManagerAssumption
      DEF RInv, IInv, StructureInv, TypeOK, HistoryInv, BeginConnectorCall, managerVars, callVars,
          askVars, storeVars, storedVars, seenVars
  <2>1. key[r] \in Keys /\ got[r] = None
    BY <1>3 DEF RequestInv
  <2>2. CASE cached[key[r]] = None
    BY <1>1, <1>3, <2>1, <2>2
  <2>3. CASE cached[key[r]] # None
    <3>1. key[cached[key[r]]] = key[r] /\ version[cached[key[r]]] # None
      BY <2>1, <2>3 DEF CachedInv, CallInv
    <3>2. version[cached[key[r]]] \notin before[r]
      BY <2>1, <2>3 DEF CurrentInv, BeforeInv, Keys
    <3> QED BY <1>3, <2>1, <2>3, <3>1, <3>2, ServeStep DEF Goal
  <2> QED BY <2>2, <2>3
<1>4. CASE ResolveConnection(r)
  <2>1. key[r] \in Keys /\ version[r] = None /\ config[Root(key[r])] \in Versions \cup {Absent}
    BY <1>4, RootType
       DEF RInv, IInv, StructureInv, TypeOK, RequestInv, CallInv, Starting, ResolveConnection
  <2> QED BY <1>1, <1>4, <2>1
          DEF RInv, IInv, StructureInv, TypeOK, ResolveConnection, askVars, storeVars, storedVars,
              seenVars
<1>5. CASE FinishConnectorCall(r)
  <2> USE ManagerAssumption
      DEF RInv, IInv, StructureInv, TypeOK, HistoryInv, FinishConnectorCall,
          askVars, storeVars, storedVars, seenVars
  <2>1. key[r] \in Keys /\ got[r] = None
    BY <1>5 DEF RequestInv, Opening
  <2>2. CASE ~Publishes(r)
    BY <1>1, <1>5, <2>1, <2>2
  <2>3. CASE Publishes(r)
    <3>1. inFlight[key[r]] = r /\ version[r] # None
      BY <1>5, <2>1, <2>3 DEF Publishes, SingleFlight, Calls, Opening, CallInv
    <3>2. version[r] \notin before[r]
      BY <2>1, <3>1 DEF CurrentInv, BeforeInv, Keys
    <3> QED BY <1>5, <2>1, <2>3, <3>1, <3>2, ServeStep DEF Goal
  <2> QED BY <2>2, <2>3
<1>6. CASE WaitConnectorCall(r)
  <2> USE ManagerAssumption
      DEF RInv, IInv, StructureInv, TypeOK, HistoryInv, WaitConnectorCall, managerVars, callVars,
          askVars, storeVars, storedVars, seenVars
  <2>1. key[r] \in Keys /\ got[r] = None /\ joined[r] \in Req
    BY <1>6 DEF RequestInv
  <2>2. CASE UNCHANGED got
    BY <1>1, <1>6, <2>2
  <2>3. CASE outcome[joined[r]] = "ready" /\ got' = [got EXCEPT ![r] = joined[r]]
    <3>1. key[joined[r]] = key[r] /\ version[joined[r]] # None /\ version[joined[r]] \notin before[r]
      BY <2>1, <2>3 DEF CallInv, BeforeInv
    <3> QED BY <1>6, <2>1, <2>3, <3>1, ServeStep DEF Goal
  <2> QED BY <1>6, <2>2, <2>3
<1>7. CASE WriteConfig(r)
  <2>1. CASE config[key[r]] = Absent
    BY <1>1, <1>7, <2>1 DEF WriteConfig, managerVars, callVars, askVars, storedVars, seenVars
  <2>2. CASE config[key[r]] # Absent
    BY <1>7, <2>2, EditStep DEF Goal
  <2> QED BY <2>1, <2>2
<1>8. CASE RemoveFinish(r)
  <2>1. CASE op[r] \notin Edits
    BY <1>1, <1>8, <2>1 DEF RemoveFinish, askVars, storedVars, seenVars
  <2>2. CASE op[r] \in Edits
    BY <1>8, <2>2, AnswerStep DEF Goal
  <2> QED BY <2>1, <2>2
<1>9. CASE \/ CooldownError(r) \/ StartOperation(r) \/ EndOperation(r)
           \/ (\E alive \in BOOLEAN : EndPing(r, alive)) \/ MarkValidated(r) \/ MarkFailure(r)
           \/ LoadForUpdate(r) \/ RemoveStart(r)
  BY <1>1, <1>9
     DEF CooldownError, StartOperation, EndOperation, EndPing, MarkValidated, MarkFailure,
         LoadForUpdate, RemoveStart, Move, callVars, askVars, storeVars, storedVars, seenVars
<1>10. ASSUME NEW result \in {"ok", "unavailable", "error"}, Dial(r, result) PROVE Goal
  BY <1>1, <1>10 DEF Dial, askVars, storeVars, storedVars, seenVars
<1>11. ASSUME NEW k \in Keys, CloseStart(r, k) \/ CloseReturns(r, k) PROVE Goal
  BY <1>1, <1>11 DEF CloseStart, CloseReturns, askVars, storeVars, storedVars, seenVars
<1>12. CASE WriteBack(r)
  BY <1>12, PutBackStep DEF Goal
<1> QED BY <1>2, <1>3, <1>4, <1>5, <1>6, <1>7, <1>8, <1>9, <1>10, <1>11, <1>12 DEF Step

LEMMA NextSimulates == RInv /\ [Next]_vars => [Cache!Next]_(Cache!vars) /\ WrittenInv'
<1> SUFFICES ASSUME RInv, [Next]_vars PROVE [Cache!Next]_(Cache!vars) /\ WrittenInv'
  OBVIOUS
<1>1. CASE UNCHANGED vars
  BY <1>1, QuietStep DEF vars, askVars, storeVars, callVars, storedVars, seenVars
<1>2. ASSUME NEW k \in Keys, CooldownElapses(k) PROVE UNCHANGED Cache!vars /\ WrittenInv'
  BY <1>2, QuietStep DEF CooldownElapses, askVars, storeVars, callVars, storedVars, seenVars
<1>3. ASSUME NEW r \in Req, WaitCancelled(r) PROVE UNCHANGED Cache!vars /\ WrittenInv'
  BY <1>3, QuietStep DEF WaitCancelled, Move, askVars, storeVars, callVars, storedVars, seenVars
<1>4. ASSUME NEW r \in Req, NEW o \in Ops, NEW k \in Keys, Begin(r, o, k)
      PROVE Cache!Next /\ WrittenInv'
  BY <1>4, AskStep
<1>5. ASSUME NEW r \in Req, Step(r) PROVE [Cache!Next]_(Cache!vars) /\ WrittenInv'
  BY <1>5, StepSimulates
<1> QED BY <1>1, <1>2, <1>3, <1>4, <1>5 DEF Next

LEMMA InitSimulates == Init => Cache!Init /\ WrittenInv
<1> SUFFICES ASSUME Init PROVE Cache!Init /\ WrittenInv
  OBVIOUS
<1> USE ManagerAssumption DEF Init
<1> QED BY DEF Cache!Init, WrittenInv

(* The manager, with its lock, calls in flight, cooldowns and closes, serves
   requests as the abstract cache does. *)
THEOREM Refinement == Spec => ServesLikeTheAbstractCache
<1>1. Init => Cache!Init /\ WrittenInv
  BY InitSimulates
<1>2. IInv /\ WrittenInv /\ [Next]_vars => [Cache!Next]_(Cache!vars) /\ WrittenInv'
  BY NextSimulates DEF RInv
<1> QED BY <1>1, <1>2, Invariance, PTL DEF Spec, ServesLikeTheAbstractCache, Cache!Spec
=============================================================================

--------------------------- MODULE RedisKeysProofs ---------------------------
(***************************************************************************)
(* Proofs about the keys of a Redis connection on screen, about its        *)
(* console and about the links between objects.                            *)
(***************************************************************************)
EXTENDS RedisKeys, RedisCli, Links, SubsequenceProofs, FiniteSetTheorems, SequenceTheorems, TLAPS

(* The records are records, the functions functions. *)
ServerShape == stored = [k \in Names |-> stored[k]]

DataShape ==
  data = [k \in Names |-> [opts |-> data[k].opts, page |-> data[k].page,
                           loading |-> data[k].loading, err |-> data[k].err]]

CallShape(c) ==
  c = [key |-> c.key, opts |-> c.opts, newest |-> c.newest, sound |-> c.sound, answer |-> c.answer]
CallsShape == \A c \in calls : CallShape(c) /\ c.key \in Names /\ c.newest \in BOOLEAN /\ c.sound \in BOOLEAN

JobShape(j) ==
  j = [op |-> j.op, key |-> j.key, view |-> j.view, editor |-> j.editor, stage |-> j.stage,
       at |-> j.at, value |-> j.value, seen |-> j.seen, fair |-> j.fair, to |-> j.to,
       waits |-> j.waits, applied |-> j.applied]

Ops == Mutations \cup {"rename", "copy", "export", "preview", "bulk", "create", "lookup"}
Aside == {"preview", "bulk", "create", "lookup"}
JobKeyIsSet(j) ==
  /\ IF j.op \in Aside THEN j.key = None ELSE j.key \in Names
  /\ j.op \in {"rename", "create", "lookup"} => j.to \in Names
  /\ j.op = "copy" => j.to \in Names \cup {None}
JobsShape ==
  /\ IsFiniteSet(jobs)
  /\ \A j \in jobs :
       /\ JobShape(j) /\ j.op \in Ops /\ j.applied \in BOOLEAN /\ j.fair \in BOOLEAN
       /\ JobKeyIsSet(j)
       /\ j.applied <=> j.stage \in {"done", "reload", "tree", "closing"}
       /\ j.stage \in {"asked", "refused", "done", "reload", "tree", "closing"}
       /\ j.stage = "reload" => j.op \in Mutations
       /\ j.stage = "closing" => j.op = "delete"

ViewShape ==
  /\ view = [key |-> view.key, id |-> view.id, busy |-> view.busy, editor |-> view.editor]
  /\ view.key \in Names \cup {None}
  /\ active \in Names \cup {None}
  /\ modal \in KeyDialogs => view.key # None

HistoryShape == stale \in [Names -> BOOLEAN] /\ removed \subseteq Names

TabsShape == tabs \in Seq(Names) /\ IsInjective(tabs)

Shapes == ServerShape /\ DataShape /\ CallsShape /\ JobsShape /\ ViewShape /\ HistoryShape /\ TabsShape

(* A key that is gone stays gone, and its tab waits for the handler that   *)
(* closes it.                                                              *)
Closing(j) == j.applied /\ (j.op = "delete" \/ (j.op = "rename" /\ j.stage = "done"))
Gone ==
  \A k \in removed :
    /\ stored[k] = None
    /\ k \in Range(tabs) => \E j \in jobs : j.key = k /\ Closing(j)

(* Reading. *)
Newest(k) == {c \in calls : c.key = k /\ c.newest}
Sound ==
  \A c \in calls : c.sound /\ c.answer \notin {None, Missing} =>
    Shows(c.answer, stored[c.key], c.opts)
Asked ==
  /\ \A c, d \in calls : c.key = d.key /\ c.newest /\ d.newest => c = d
  /\ \A c \in calls : c.newest => c.opts = data[c.key].opts \/ stale[c.key]
Mine(j, k) == j.key = k /\ j.op \in Mutations
Unread(k) == \E j \in jobs : Mine(j, k) /\ j.stage = "done"
Fresh ==
  \A k \in Names : ~stale[k] /\ ~Unread(k) /\ Newest(k) = {} /\ data[k].page # None =>
    Shows(data[k].page, stored[k], data[k].opts)
Shown ==
  \A k \in Names : (k = view.key \/ \E c \in calls : c.key = k) =>
    data[k].page # None \/ data[k].err \/ Newest(k) # {}
Coherent == Sound /\ Asked /\ Fresh /\ Shown

(* Removing. *)
Holds(s, i, x) == s # None /\ i \in DOMAIN s.at /\ s.at[i] = x
Own(k) == \E j \in jobs : Mine(j, k) /\ j.stage \in {"done", "reload"}
Current ==
  \A k \in Names : ~stale[k] /\ ~Own(k) /\ data[k].page # None =>
    \A i \in DOMAIN data[k].page.rows : Holds(stored[k], i, data[k].page.rows[i])
Writing(j) == j.op \in Mutations /\ j.stage # "closing"
Saving ==
  /\ \A j \in jobs : Writing(j) /\ view.key # None /\ j.view = view.id => "saving" \in view.busy
  /\ \A i, j \in jobs : Writing(i) /\ Writing(j) /\ i.view = j.view => i = j
AimedWell ==
  \A j \in jobs : j.fair /\ j.stage = "asked" /\ j.op = "remove" => Holds(stored[j.key], j.at, j.seen)
Hits == ~misfired
Removals == Current /\ Saving /\ AimedWell /\ Hits

IInv == Shapes /\ Gone /\ Coherent /\ Removals
-----------------------------------------------------------------------------
(* What a step leaves alone keeps the parts of the invariant about it.     *)
LEMMA Frame ==
  ASSUME IInv
  PROVE  /\ UNCHANGED stored => ServerShape'
         /\ UNCHANGED data => DataShape'
         /\ UNCHANGED calls => CallsShape'
         /\ UNCHANGED jobs => JobsShape'
         /\ UNCHANGED <<view, active, modal>> => ViewShape'
         /\ UNCHANGED <<stale, removed>> => HistoryShape'
         /\ UNCHANGED tabs => TabsShape'
         /\ UNCHANGED <<stored, removed, tabs, jobs>> => Gone'
         /\ UNCHANGED <<stored, calls>> => Sound'
         /\ UNCHANGED <<calls, data, stale>> => Asked'
         /\ UNCHANGED <<stored, calls, data, stale, jobs>> => Fresh'
         /\ UNCHANGED <<data, calls, view>> => Shown'
         /\ UNCHANGED <<stored, data, stale, jobs>> => Current'
         /\ UNCHANGED <<jobs, view>> => Saving'
         /\ UNCHANGED <<stored, jobs>> => AimedWell'
         /\ UNCHANGED misfired => Hits'
<1>1. UNCHANGED stored => ServerShape'
  BY DEF IInv, Shapes, ServerShape
<1>2. UNCHANGED data => DataShape'
  BY DEF IInv, Shapes, DataShape
<1>3. UNCHANGED calls => CallsShape'
  BY DEF IInv, Shapes, CallsShape
<1>4. UNCHANGED jobs => JobsShape'
  BY DEF IInv, Shapes, JobsShape
<1>5. UNCHANGED <<view, active, modal>> => ViewShape'
  BY DEF IInv, Shapes, ViewShape
<1>6. UNCHANGED <<stale, removed>> => HistoryShape'
  BY DEF IInv, Shapes, HistoryShape
<1>7. UNCHANGED tabs => TabsShape'
  BY DEF IInv, Shapes, TabsShape
<1>8. UNCHANGED <<stored, removed, tabs, jobs>> => Gone'
  BY DEF IInv, Gone
<1>10. UNCHANGED <<stored, calls>> => Sound'
  BY DEF IInv, Coherent, Sound
<1>11. UNCHANGED <<calls, data, stale>> => Asked'
  BY DEF IInv, Coherent, Asked
<1>12. UNCHANGED <<stored, calls, data, stale, jobs>> => Fresh'
  BY DEF IInv, Coherent, Fresh, Newest, Unread
<1>13. UNCHANGED <<data, calls, view>> => Shown'
  BY DEF IInv, Coherent, Shown, Newest
<1>14. UNCHANGED <<stored, data, stale, jobs>> => Current'
  BY DEF IInv, Removals, Current, Own
<1>15. UNCHANGED <<jobs, view>> => Saving'
  BY DEF IInv, Removals, Saving
<1>16. UNCHANGED <<stored, jobs>> => AimedWell'
  BY DEF IInv, Removals, AimedWell
<1>17. UNCHANGED misfired => Hits'
  BY DEF IInv, Removals, Hits
<1>18. QED BY <1>1, <1>2, <1>3, <1>4, <1>5, <1>6, <1>7, <1>8, <1>10, <1>11, <1>12, <1>13, <1>14,
             <1>15, <1>16, <1>17

(* The image of a finite set is finite. *)
LEMMA ImageIsFinite ==
  ASSUME NEW S, IsFiniteSet(S), NEW f, DOMAIN f = S, f = [x \in S |-> f[x]]
  PROVE  /\ IsFiniteSet({f[x] : x \in S})
         /\ Cardinality({f[x] : x \in S}) <= Cardinality(S)
<1>1. f \in Surjection(S, {f[x] : x \in S})
  BY DEF Surjection
<1>2. QED BY <1>1, FS_Surjection

(* A view that is mounted gets an identity that no handler under way has.  *)
LEMMA FreshIdIsFresh ==
  ASSUME IsFiniteSet(jobs)
  PROVE  \A j \in jobs : FreshId # j.view
<1>1. DEFINE V == {j.view : j \in jobs}
             E == {j.editor : j \in jobs}
             n == Cardinality(jobs)
<1>2. n \in Nat
  BY FS_CardinalityType
<1>3. IsFiniteSet(V) /\ Cardinality(V) <= n
  <2>1. PICK f : f = [j \in jobs |-> j.view]
    OBVIOUS
  <2>2. V = {f[x] : x \in jobs} /\ DOMAIN f = jobs /\ f = [x \in jobs |-> f[x]]
    BY <2>1
  <2>3. IsFiniteSet({f[x] : x \in jobs}) /\ Cardinality({f[x] : x \in jobs}) <= Cardinality(jobs)
    BY <2>2, ImageIsFinite
  <2>4. QED BY <2>2, <2>3
<1>4. IsFiniteSet(E) /\ Cardinality(E) <= n
  <2>1. PICK f : f = [j \in jobs |-> j.editor]
    OBVIOUS
  <2>2. E = {f[x] : x \in jobs} /\ DOMAIN f = jobs /\ f = [x \in jobs |-> f[x]]
    BY <2>1
  <2>3. IsFiniteSet({f[x] : x \in jobs}) /\ Cardinality({f[x] : x \in jobs}) <= Cardinality(jobs)
    BY <2>2, ImageIsFinite
  <2>4. QED BY <2>2, <2>3
<1>5. IsFiniteSet(V \cup E) /\ Cardinality(V \cup E) <= 2 * n
  <2>1. /\ IsFiniteSet(V \cup E)
        /\ Cardinality(V \cup E) = Cardinality(V) + Cardinality(E) - Cardinality(V \cap E)
    BY <1>3, <1>4, FS_Union
  <2>2. Cardinality(V) \in Nat /\ Cardinality(E) \in Nat
    BY <1>3, <1>4, FS_CardinalityType
  <2>3. Cardinality(V \cap E) \in Nat
    BY <1>3, FS_Subset, FS_CardinalityType
  <2>4. QED BY <1>2, <1>3, <1>4, <2>1, <2>2, <2>3
<1>6. Cardinality(Ids) = 2 * n + 1
  BY <1>2, FS_Interval DEF Ids
<1>7. PICK m \in Ids : m \notin V \cup E
  <2>1. SUFFICES ASSUME Ids \subseteq V \cup E
                 PROVE  FALSE
    OBVIOUS
  <2>2. Cardinality(Ids) <= Cardinality(V \cup E)
    BY <1>5, <2>1, FS_Subset
  <2>3. Cardinality(V \cup E) \in Nat
    BY <1>5, FS_CardinalityType
  <2>4. QED BY <1>2, <1>5, <1>6, <2>2, <2>3
<1>8. \A j \in jobs : m \notin {j.view, j.editor}
  BY <1>7
<1>9. QED BY <1>8 DEF FreshId

(* A tab that is opened comes last, and once.                              *)
LEMMA OpenTabOpens ==
  ASSUME NEW ts \in Seq(Names), IsInjective(ts), NEW k \in Names
  PROVE  /\ OpenTab(ts, k) \in Seq(Names) /\ IsInjective(OpenTab(ts, k))
         /\ Range(OpenTab(ts, k)) = Range(ts) \cup {k}
<1>1. CASE k \in Range(ts)
  BY <1>1 DEF OpenTab
<1>2. CASE k \notin Range(ts)
  <2>1. OpenTab(ts, k) = Append(ts, k)
    BY <1>2 DEF OpenTab
  <2>2. IsInjective(Append(ts, k))
    BY <1>2 DEF IsInjective, Range
  <2>3. Range(Append(ts, k)) = Range(ts) \cup {k}
    <3>1. \A n \in DOMAIN ts : Append(ts, k)[n] = ts[n]
      OBVIOUS
    <3>2. DOMAIN Append(ts, k) = DOMAIN ts \cup {Len(ts) + 1} /\ Append(ts, k)[Len(ts) + 1] = k
      OBVIOUS
    <3>3. QED BY <3>1, <3>2 DEF Range
  <2>4. QED BY <2>1, <2>2, <2>3
<1>3. QED BY <1>1, <1>2

(* A tab that is closed is gone, the others stay.                          *)
LEMMA CloseTabCloses ==
  ASSUME NEW k \in Names, NEW ts \in Seq(Names), IsInjective(ts), NEW on \in Names \cup {None},
         CloseTab(k, ts, on)
  PROVE  /\ tabs' \in Seq(Names) /\ IsInjective(tabs') /\ Range(tabs') = Range(ts) \ {k}
         /\ active' \in Names \cup {None}
<1>1. CASE k \notin Range(ts)
  BY <1>1 DEF CloseTab
<1>2. CASE k \in Range(ts)
  <2>1. DEFINE i == CHOOSE n \in DOMAIN ts : ts[n] = k
               rest == RemoveAt(ts, i)
  <2>2. i \in 1..Len(ts) /\ ts[i] = k
    BY <1>2 DEF Range
  <2>3. /\ tabs' = rest
        /\ active' = IF on # k THEN on
                     ELSE IF rest = <<>> THEN None
                     ELSE rest[IF i <= Len(rest) THEN i ELSE Len(rest)]
    BY <1>2 DEF CloseTab
  <2>4. i \in Nat
    BY <2>2
  <2>5. HIDE DEF i
  <2>6. /\ rest \in Seq(Names) /\ Len(rest) = Len(ts) - 1
        /\ \A n \in 1..Len(rest) : rest[n] = IF n < i THEN ts[n] ELSE ts[n + 1]
    <3>1. DEFINE u == SubSeq(ts, 1, i - 1)
                 v == SubSeq(ts, i + 1, Len(ts))
    <3>2. u \in Seq(Names) /\ Len(u) = i - 1 /\ \A n \in 1..(i - 1) : u[n] = ts[n]
      BY <2>2
    <3>3. v \in Seq(Names) /\ Len(v) = Len(ts) - i /\ \A n \in 1..(Len(ts) - i) : v[n] = ts[n + i]
      BY <2>2
    <3>4. rest = u \o v
      BY DEF RemoveAt
    <3>5. HIDE DEF u, v, rest
    <3>6. u \o v \in Seq(Names) /\ Len(u \o v) = Len(u) + Len(v)
      BY <3>2, <3>3, ConcatProperties
    <3>7. \A n \in 1..(Len(u) + Len(v)) : (u \o v)[n] = IF n <= Len(u) THEN u[n] ELSE v[n - Len(u)]
      BY <3>2, <3>3
    <3>8. Len(rest) = Len(ts) - 1
      BY <2>2, <3>2, <3>3, <3>4, <3>6
    <3>9. ASSUME NEW n \in 1..Len(rest)
          PROVE  rest[n] = IF n < i THEN ts[n] ELSE ts[n + 1]
      <4>1. CASE n < i
        BY <2>2, <3>2, <3>3, <3>4, <3>7, <3>8, <4>1
      <4>2. CASE n >= i
        <5>1. n - Len(u) \in 1..(Len(ts) - i) /\ rest[n] = v[n - Len(u)]
          BY SMTT(60), <2>2, <3>2, <3>3, <3>4, <3>7, <3>8, <4>2
        <5>2. v[n - Len(u)] = ts[n - Len(u) + i] /\ n - Len(u) + i = n + 1
          BY <2>2, <3>2, <3>3, <5>1
        <5>3. QED BY <2>2, <4>2, <5>1, <5>2
      <4>3. QED BY <2>2, <4>1, <4>2
    <3>10. QED BY <3>4, <3>6, <3>8, <3>9
  <2>7. HIDE DEF rest
  <2>8. IsInjective(rest)
    <3>1. \A m, n \in 1..Len(ts) : ts[m] = ts[n] => m = n
      BY DEF IsInjective
    <3>2. ASSUME NEW m \in 1..Len(rest), NEW n \in 1..Len(rest), rest[m] = rest[n]
          PROVE  m = n
      <4>1. CASE m < i /\ n < i
        BY SMTT(60), <2>2, <2>6, <3>1, <3>2, <4>1
      <4>2. CASE m < i /\ n >= i
        BY <2>2, <2>6, <3>1, <3>2, <4>2
      <4>3. CASE m >= i /\ n < i
        BY <2>2, <2>6, <3>1, <3>2, <4>3
      <4>4. CASE m >= i /\ n >= i
        BY <2>2, <2>6, <3>1, <3>2, <4>4
      <4>5. QED BY <2>2, <4>1, <4>2, <4>3, <4>4
    <3>3. DOMAIN rest = 1..Len(rest)
      BY <2>6
    <3>4. QED BY <3>2, <3>3 DEF IsInjective
  <2>9. Range(rest) = Range(ts) \ {k}
    <3>1. \A n \in 1..Len(rest) : rest[n] \in Range(ts) /\ rest[n] # k
      BY SMTT(60), <2>2, <2>6 DEF Range, IsInjective
    <3>2. ASSUME NEW m \in 1..Len(ts), ts[m] # k
          PROVE  \E n \in 1..Len(rest) : rest[n] = ts[m]
      <4>1. CASE m < i
        BY <2>2, <2>6, <4>1
      <4>2. CASE m > i
        <5>1. m - 1 \in 1..Len(rest) /\ rest[m - 1] = ts[m]
          BY <2>2, <2>6, <4>2
        <5>2. QED BY <5>1
      <4>3. QED BY <2>2, <3>2, <4>1, <4>2
    <3>3. DOMAIN rest = 1..Len(rest) /\ DOMAIN ts = 1..Len(ts)
      BY <2>6
    <3>4. Range(rest) = {rest[n] : n \in 1..Len(rest)} /\ Range(ts) = {ts[n] : n \in 1..Len(ts)}
      BY <3>3 DEF Range
    <3>5. \A t \in Range(rest) : t \in Range(ts) /\ t # k
      BY <3>1, <3>4
    <3>6. \A t \in Range(ts) : t # k => t \in Range(rest)
      BY <3>2, <3>4
    <3>7. QED BY <3>5, <3>6
  <2>10. active' \in Names \cup {None}
    <3>1. \A n \in 1..Len(rest) : rest[n] \in Names
      BY <2>6
    <3>2. rest # <<>> => Len(rest) \in 1..Len(rest)
      BY <2>6
    <3>3. QED BY <2>2, <2>3, <2>6, <3>1, <3>2
  <2>11. QED BY <2>3, <2>6, <2>8, <2>9, <2>10
<1>3. QED BY <1>1, <1>2

-----------------------------------------------------------------------------
(* A read is asked for, or the one under way that asks the same is joined. *)
Asks(k, o) ==
  FetchData(k, o, [opts |-> o, page |-> data[k].page, loading |-> data[k].loading, err |-> data[k].err])

LEMMA AskingEffects ==
  ASSUME IInv, NEW k \in Names, NEW o, Asks(k, o)
  PROVE  /\ DataShape' /\ CallsShape' /\ stale' \in [Names -> BOOLEAN]
         /\ \A n \in Names \ {k} : data'[n] = data[n] /\ stale'[n] = stale[n] /\ Newest(n)' = Newest(n)
         /\ data'[k].page = data[k].page /\ data'[k].opts = o
         /\ stale[k] => stale'[k]
         /\ stale'[k] \/ Newest(k)' # {}
         /\ data'[k].page # None \/ data'[k].err \/ Newest(k)' # {}
<1>1. /\ data = [n \in Names |-> [opts |-> data[n].opts, page |-> data[n].page,
                                  loading |-> data[n].loading, err |-> data[n].err]]
      /\ stale \in [Names -> BOOLEAN]
      /\ \A c \in calls : CallShape(c) /\ c.key \in Names /\ c.newest \in BOOLEAN /\ c.sound \in BOOLEAN
      /\ Shown
  BY DEF IInv, Shapes, DataShape, HistoryShape, CallsShape, Coherent
<1>2. CASE Pending(k, o)
  <2>1. /\ data' = [data EXCEPT ![k] = [opts |-> o, page |-> data[k].page, loading |-> data[k].loading,
                                         err |-> data[k].err]]
        /\ calls' = calls
        /\ stale' = [stale EXCEPT ![k] =
             @ \/ \E c \in calls : c.key = k /\ c.opts = o /\ ~(c.newest /\ c.sound)]
    BY <1>2 DEF Asks, FetchData
  <2>2. \E c \in calls : c.key = k /\ c.opts = o
    BY <1>2 DEF Pending
  <2>3. DataShape'
    BY <1>1, <2>1 DEF DataShape
  <2>4. CallsShape' /\ \A n \in Names : Newest(n)' = Newest(n)
    BY <1>1, <2>1 DEF CallsShape, Newest
  <2>5. /\ stale' \in [Names -> BOOLEAN] /\ (stale[k] => stale'[k])
        /\ \A n \in Names \ {k} : data'[n] = data[n] /\ stale'[n] = stale[n]
        /\ data'[k].page = data[k].page /\ data'[k].opts = o /\ data'[k].err = data[k].err
    BY <1>1, <2>1
  <2>6. stale'[k] \/ Newest(k) # {}
    BY <1>1, <2>1, <2>2 DEF Newest
  <2>7. data[k].page # None \/ data[k].err \/ Newest(k) # {}
    BY <1>1, <2>2 DEF Shown
  <2>8. QED BY <2>3, <2>4, <2>5, <2>6, <2>7
<1>3. CASE ~Pending(k, o)
  <2>1. /\ data' = [data EXCEPT ![k] = [opts |-> o, page |-> data[k].page, loading |-> TRUE, err |-> FALSE]]
        /\ calls' = {IF c.key = k THEN [c EXCEPT !.newest = FALSE] ELSE c : c \in calls} \cup {NewCall(k, o)}
        /\ stale' = stale
    BY <1>3 DEF Asks, FetchData
  <2>2. DataShape'
    BY <1>1, <2>1 DEF DataShape
  <2>3. CallsShape'
    <3>1. SUFFICES ASSUME NEW c \in calls'
                   PROVE  CallShape(c) /\ c.key \in Names /\ c.newest \in BOOLEAN /\ c.sound \in BOOLEAN
      BY DEF CallsShape, CallShape
    <3>2. CASE c = NewCall(k, o)
      BY <3>2 DEF NewCall, CallShape
    <3>3. CASE c \in calls
      BY <1>1, <3>3
    <3>4. ASSUME NEW d \in calls, c = [d EXCEPT !.newest = FALSE]
          PROVE  CallShape(c) /\ c.key \in Names /\ c.newest \in BOOLEAN /\ c.sound \in BOOLEAN
      <4>1. d = [key |-> d.key, opts |-> d.opts, newest |-> d.newest, sound |-> d.sound, answer |-> d.answer]
        BY <1>1 DEF CallShape
      <4>2. c = [key |-> d.key, opts |-> d.opts, newest |-> FALSE, sound |-> d.sound, answer |-> d.answer]
        BY <3>4, <4>1
      <4>3. QED BY <1>1, <4>2 DEF CallShape
    <3>5. QED BY <2>1, <3>2, <3>3, <3>4
  <2>4. \A n \in Names \ {k} : data'[n] = data[n] /\ stale'[n] = stale[n] /\ Newest(n)' = Newest(n)
    BY <1>1, <2>1 DEF Newest, NewCall, CallShape
  <2>5. data'[k].page = data[k].page /\ data'[k].opts = o
    BY <1>1, <2>1
  <2>6. NewCall(k, o) \in calls' /\ NewCall(k, o).key = k /\ NewCall(k, o).newest
    BY <2>1 DEF NewCall
  <2>7. Newest(k)' # {}
    BY <2>6 DEF Newest
  <2>8. QED BY <1>1, <2>1, <2>2, <2>3, <2>4, <2>5, <2>7
<1>4. QED BY <1>2, <1>3

LEMMA AskingStaysSound ==
  ASSUME IInv, NEW k \in Names, NEW o, Asks(k, o)
  PROVE  Asked' /\ (UNCHANGED stored => Sound')
<1>1. /\ \A c \in calls : CallShape(c) /\ c.key \in Names /\ c.newest \in BOOLEAN /\ c.sound \in BOOLEAN
      /\ Sound
      /\ \A c, d \in calls : c.key = d.key /\ c.newest /\ d.newest => c = d
      /\ \A c \in calls : c.newest => c.opts = data[c.key].opts \/ stale[c.key]
  BY DEF IInv, Shapes, CallsShape, Coherent, Asked
<1>2. /\ \A n \in Names \ {k} : data'[n] = data[n] /\ stale'[n] = stale[n]
      /\ data'[k].opts = o /\ (stale[k] => stale'[k])
  BY AskingEffects
<1>3. CASE Pending(k, o)
  <2>1. /\ calls' = calls
        /\ stale' = [stale EXCEPT ![k] =
             @ \/ \E c \in calls : c.key = k /\ c.opts = o /\ ~(c.newest /\ c.sound)]
        /\ \E c \in calls : c.key = k /\ c.opts = o
    BY <1>3 DEF Asks, FetchData, Pending
  <2>2. stale'[k] = (stale[k] \/ \E c \in calls : c.key = k /\ c.opts = o /\ ~(c.newest /\ c.sound))
    BY <2>1 DEF IInv, Shapes, HistoryShape
  <2>3. \A c \in calls : c.key = k /\ c.newest => c.opts = o \/ stale'[k]
    BY <1>1, <2>1, <2>2
  <2>4. \A c \in calls : c.newest => c.opts = data'[c.key].opts \/ stale'[c.key]
    BY <1>1, <1>2, <2>3
  <2>5. Asked'
    BY <1>1, <2>1, <2>4 DEF Asked
  <2>6. QED BY <1>1, <2>1, <2>5 DEF Sound
<1>4. CASE ~Pending(k, o)
  <2>1. /\ calls' = {IF c.key = k THEN [c EXCEPT !.newest = FALSE] ELSE c : c \in calls} \cup {NewCall(k, o)}
        /\ stale' = stale
    BY <1>4 DEF Asks, FetchData
  <2>2. ASSUME NEW c \in calls'
        PROVE  \/ c = NewCall(k, o)
               \/ \E d \in calls : /\ c.key = d.key /\ c.opts = d.opts /\ c.sound = d.sound /\ c.answer = d.answer
                                   /\ c.key = k => ~c.newest
                                   /\ c.key # k => c = d
    BY <1>1, <2>1, <2>2 DEF CallShape
  <2>3. /\ NewCall(k, o).key = k /\ NewCall(k, o).opts = o /\ NewCall(k, o).answer = None
    BY DEF NewCall
  <2>4. \A c, d \in calls' : c.key = d.key /\ c.newest /\ d.newest => c = d
    BY <1>1, <2>2, <2>3
  <2>5. \A c \in calls' : c.newest => c.opts = data'[c.key].opts \/ stale'[c.key]
    BY <1>1, <1>2, <2>1, <2>2, <2>3
  <2>6. UNCHANGED stored => Sound'
    BY <1>1, <2>2, <2>3 DEF Sound
  <2>7. QED BY <2>4, <2>5, <2>6 DEF Asked
<1>5. QED BY <1>3, <1>4

LEMMA AskingKeeps ==
  ASSUME IInv, NEW k \in Names, NEW o, Asks(k, o), UNCHANGED stored
  PROVE  /\ DataShape' /\ CallsShape' /\ stale' \in [Names -> BOOLEAN]
         /\ Sound' /\ Asked'
         /\ (\A n \in Names \ {k} : Unread(n) => Unread(n)') => Fresh'
         /\ (\A n \in Names : Own(n) => Own(n)') => Current'
         /\ view'.key \in {view.key, k} => Shown'
<1>1. /\ DataShape' /\ CallsShape' /\ stale' \in [Names -> BOOLEAN]
      /\ \A n \in Names \ {k} : data'[n] = data[n] /\ stale'[n] = stale[n] /\ Newest(n)' = Newest(n)
      /\ data'[k].page = data[k].page /\ data'[k].opts = o
      /\ stale[k] => stale'[k]
      /\ stale'[k] \/ Newest(k)' # {}
      /\ data'[k].page # None \/ data'[k].err \/ Newest(k)' # {}
  BY AskingEffects
<1>2. Sound' /\ Asked'
  BY AskingStaysSound
<1>3. (\A n \in Names \ {k} : Unread(n) => Unread(n)') => Fresh'
  BY <1>1 DEF IInv, Coherent, Fresh
<1>4. (\A n \in Names : Own(n) => Own(n)') => Current'
  BY <1>1 DEF IInv, Removals, Current
<1>5. view'.key \in {view.key, k} => Shown'
  <2>1. ASSUME NEW n \in Names \ {k}, NEW c \in calls', c.key = n
        PROVE  \E e \in calls : e.key = n
    BY <2>1 DEF Asks, FetchData, NewCall, IInv, Shapes, CallsShape, CallShape
  <2>2. QED BY <1>1, <2>1 DEF IInv, Coherent, Shown
<1>6. QED BY <1>1, <1>2, <1>3, <1>4, <1>5

-----------------------------------------------------------------------------
(* What the user does to tabs, dialogs and drafts. *)

(* A view that keeps its key, its identity and its busy flags.             *)
LEMMA DraftsMatterLittle ==
  ASSUME IInv, UNCHANGED <<data, calls, jobs>>, NEW e, view' = [view EXCEPT !.editor = e],
         UNCHANGED <<active, modal>>
  PROVE  ViewShape' /\ Shown' /\ Saving'
<1>1. /\ view'.key = view.key /\ view'.id = view.id /\ view'.busy = view.busy
      /\ view' = [key |-> view.key, id |-> view.id, busy |-> view.busy, editor |-> e]
  BY DEF IInv, Shapes, ViewShape
<1>2. ViewShape'
  BY <1>1 DEF IInv, Shapes, ViewShape
<1>3. Shown'
  BY <1>1 DEF IInv, Coherent, Shown, Newest
<1>4. Saving'
  BY <1>1 DEF IInv, Removals, Saving
<1>5. QED BY <1>2, <1>3, <1>4

LEMMA EditorFollowsKeeps ==
  ASSUME IInv, EditorFollows
  PROVE  IInv'
<1>1. PICK e : view' = [view EXCEPT !.editor = e]
  BY DEF EditorFollows
<1>2. UNCHANGED <<stored, tabs, active, data, calls, jobs, bulk, modal, busy, stale, removed, misfired>>
  BY DEF EditorFollows, server, workspace, history
<1>3. ViewShape' /\ Shown' /\ Saving'
  BY <1>1, <1>2, DraftsMatterLittle
<1>4. QED BY <1>2, <1>3, Frame DEF IInv, Shapes, Coherent, Removals

LEMMA DraftsKeep ==
  ASSUME IInv, CancelEdit \/ \E i \in Addresses : BeginEdit(i)
  PROVE  IInv'
<1>1. UNCHANGED <<stored, tabs, active, data, calls, jobs, bulk, modal, busy, stale, removed, misfired>>
  BY DEF CancelEdit, BeginEdit, server, workspace, history
<1>2. PICK x : view' = [view EXCEPT !.editor.edit = x]
  BY DEF CancelEdit, BeginEdit
<1>3. view' = [view EXCEPT !.editor = [view.editor EXCEPT !.edit = x]]
  BY <1>2
<1>4. ViewShape' /\ Shown' /\ Saving'
  BY <1>1, <1>3, DraftsMatterLittle
<1>5. QED BY <1>1, <1>4, Frame DEF IInv, Shapes, Coherent, Removals

LEMMA DialogsKeep ==
  ASSUME IInv, CloseDialog \/ \E d \in KeyDialogs : Opening(d)
  PROVE  IInv'
<1>1. UNCHANGED <<stored, tabs, active, data, calls, jobs, view, bulk, busy, stale, removed, misfired>>
  BY DEF CloseDialog, Opening, server, workspace, history
<1>2. modal' = None \/ view.key # None
  BY DEF CloseDialog, Opening, HeaderShown, Screen
<1>3. modal' \in KeyDialogs => view.key # None
  BY <1>2, RedisKeysAssumption
<1>4. ViewShape'
  BY <1>1, <1>3 DEF IInv, Shapes, ViewShape
<1>5. QED BY <1>1, <1>4, Frame DEF IInv, Shapes, Coherent, Removals

(* What opening a key changes: no tab of a key that is gone appears.       *)
LEMMA OpeningKeepsGone ==
  ASSUME IInv, NEW k \in Names, Opens(k), UNCHANGED stored,
         \A i \in jobs : Closing(i) => i \in jobs'
  PROVE  TabsShape' /\ Gone' /\ active' = k /\ removed' \subseteq Names
<1>1. /\ tabs' = OpenTab(tabs, k) /\ active' = k
      /\ removed' = IF stored[k] = None THEN removed \ {k} ELSE removed
  BY DEF Opens
<1>2. /\ OpenTab(tabs, k) \in Seq(Names) /\ IsInjective(OpenTab(tabs, k))
      /\ Range(OpenTab(tabs, k)) = Range(tabs) \cup {k}
  BY OpenTabOpens DEF IInv, Shapes, TabsShape
<1>3. TabsShape'
  BY <1>1, <1>2 DEF TabsShape
<1>4. k \notin removed' /\ removed' \subseteq removed
  BY <1>1 DEF IInv, Gone
<1>5. Range(tabs') = Range(tabs) \cup {k}
  BY <1>1, <1>2
<1>6. Gone'
  BY <1>4, <1>5 DEF IInv, Gone, Closing
<1>7. QED BY <1>1, <1>3, <1>4, <1>6 DEF IInv, Shapes, HistoryShape

LEMMA ShowKeeps ==
  ASSUME IInv, NEW k \in Names, Show(k)
  PROVE  IInv'
<1>1. Opens(k) /\ UNCHANGED <<stored, data, calls, jobs, view, bulk, modal, busy, stale, misfired>>
  BY DEF Show, server
<1>2. TabsShape' /\ Gone' /\ active' = k /\ removed' \subseteq Names
  BY <1>1, OpeningKeepsGone
<1>3. ViewShape' /\ HistoryShape'
  BY <1>1, <1>2 DEF IInv, Shapes, ViewShape, HistoryShape
<1>4. QED BY <1>1, <1>2, <1>3, Frame DEF IInv, Shapes, Coherent, Removals

LEMMA CloseKeeps ==
  ASSUME IInv, Close
  PROVE  IInv'
<1>1. CloseTab(active, tabs, active) /\ active # None
      /\ UNCHANGED <<stored, data, calls, jobs, view, bulk, modal, busy, stale, removed, misfired>>
  BY DEF Close, server, history
<1>2. tabs \in Seq(Names) /\ IsInjective(tabs) /\ active \in Names
  BY <1>1 DEF IInv, Shapes, TabsShape, ViewShape
<1>3. /\ tabs' \in Seq(Names) /\ IsInjective(tabs') /\ Range(tabs') = Range(tabs) \ {active}
      /\ active' \in Names \cup {None}
  BY <1>1, <1>2, CloseTabCloses
<1>4. TabsShape' /\ ViewShape'
  BY <1>1, <1>3 DEF IInv, Shapes, TabsShape, ViewShape
<1>5. Gone'
  BY <1>1, <1>3 DEF IInv, Gone
<1>6. QED BY <1>1, <1>4, <1>5, Frame DEF IInv, Shapes, Coherent, Removals

LEMMA LeaveKeeps ==
  ASSUME IInv, Leave
  PROVE  IInv'
<1>1. active' = None
      /\ UNCHANGED <<stored, tabs, data, calls, jobs, view, bulk, modal, busy, stale, removed, misfired>>
  BY DEF Leave, server, history
<1>2. ViewShape'
  BY <1>1 DEF IInv, Shapes, ViewShape
<1>3. QED BY <1>1, <1>2, Frame DEF IInv, Shapes, Coherent, Removals

LEMMA ChangePatternKeeps ==
  ASSUME IInv, NEW p \in Patterns, ChangePattern(p)
  PROVE  IInv'
<1>1. /\ modal' = "bulk"
      /\ UNCHANGED <<stored, tabs, active, data, calls, jobs, view, busy, stale, removed, misfired>>
  BY DEF ChangePattern, Beside, server, workspace, history
<1>2. ViewShape'
  BY <1>1 DEF IInv, Shapes, ViewShape, KeyDialogs
<1>3. QED BY <1>1, <1>2, Frame DEF IInv, Shapes, Coherent, Removals
-----------------------------------------------------------------------------
(* The view follows its tab, and the user pages. *)

(* A key that is shown was read before, or is being read.                  *)
LEMMA ViewFollowsKeeps ==
  ASSUME IInv, ViewFollows
  PROVE  IInv'
<1>1. UNCHANGED <<stored, tabs, active, jobs, bulk, busy, removed, misfired>>
  BY DEF ViewFollows, server, workspace
<1>2. CASE active = None
  <2>1. /\ view' = Idle /\ UNCHANGED <<data, calls, stale>>
        /\ modal' = IF modal \in {"bulk", "create"} THEN modal ELSE None
    BY <1>2 DEF ViewFollows
  <2>2. view'.key = None /\ view' = [key |-> view'.key, id |-> view'.id, busy |-> view'.busy, editor |-> view'.editor]
    BY <2>1 DEF Idle
  <2>3. modal' \notin KeyDialogs
    BY <2>1, RedisKeysAssumption DEF KeyDialogs
  <2>4. ViewShape'
    BY <1>1, <2>2, <2>3 DEF ViewShape, IInv, Shapes
  <2>5. Shown'
    BY <2>1, <2>2, RedisKeysAssumption DEF IInv, Coherent, Shown, Newest
  <2>6. Saving'
    BY <1>1, <2>2 DEF IInv, Removals, Saving
  <2>7. QED BY <1>1, <2>1, <2>4, <2>5, <2>6, Frame DEF IInv, Shapes, Coherent, Removals, HistoryShape
<1>3. CASE active # None
  <2>1. /\ view' = [view EXCEPT !.key = active, !.id = IF view.key = None THEN FreshId ELSE @]
        /\ FetchData(active, data[active].opts, data[active])
        /\ modal' = modal /\ active \in Names
    BY <1>3 DEF ViewFollows, IInv, Shapes, ViewShape
  <2>2. Asks(active, data[active].opts)
    <3>1. data[active] = [opts |-> data[active].opts, page |-> data[active].page,
                          loading |-> data[active].loading, err |-> data[active].err]
      BY <2>1 DEF IInv, Shapes, DataShape
    <3>2. QED BY <2>1, <3>1 DEF Asks
  <2>3. /\ view'.key = active /\ view'.busy = view.busy
        /\ view'.id = IF view.key = None THEN FreshId ELSE view.id
        /\ view' = [key |-> view'.key, id |-> view'.id, busy |-> view'.busy, editor |-> view'.editor]
    BY <2>1 DEF IInv, Shapes, ViewShape
  <2>4. ViewShape'
    BY <1>1, <1>3, <2>1, <2>3 DEF ViewShape, IInv, Shapes
  <2>5. /\ DataShape' /\ CallsShape' /\ stale' \in [Names -> BOOLEAN] /\ Sound' /\ Asked'
        /\ (\A n \in Names \ {active} : Unread(n) => Unread(n)') => Fresh'
        /\ (\A n \in Names : Own(n) => Own(n)') => Current'
        /\ view'.key \in {view.key, active} => Shown'
    BY <1>1, <2>1, <2>2, AskingKeeps
  <2>6. Fresh' /\ Current' /\ Shown'
    BY <1>1, <2>3, <2>5 DEF Unread, Own
  <2>7. Saving'
    <3>1. \A j \in jobs : FreshId # j.view
      BY FreshIdIsFresh DEF IInv, Shapes, JobsShape
    <3>2. QED BY <1>1, <2>3, <3>1 DEF IInv, Removals, Saving
  <2>8. QED BY <1>1, <2>4, <2>5, <2>6, <2>7, Frame DEF IInv, Shapes, Coherent, Removals, HistoryShape
<1>4. QED BY <1>2, <1>3

(* A read that changes nothing else. *)
LEMMA AskForKeeps ==
  ASSUME IInv, view.key # None, NEW o, Asks(view.key, o),
         UNCHANGED <<stored, tabs, active, jobs, view, bulk, modal, busy, removed, misfired>>
  PROVE  IInv'
<1>1. view.key \in Names
  BY DEF IInv, Shapes, ViewShape
<1>2. /\ DataShape' /\ CallsShape' /\ stale' \in [Names -> BOOLEAN] /\ Sound' /\ Asked'
      /\ (\A n \in Names \ {view.key} : Unread(n) => Unread(n)') => Fresh'
      /\ (\A n \in Names : Own(n) => Own(n)') => Current'
      /\ view'.key \in {view.key, view.key} => Shown'
  BY <1>1, AskingKeeps
<1>3. Fresh' /\ Current' /\ Shown'
  BY <1>2 DEF Unread, Own
<1>4. QED BY <1>2, <1>3, Frame DEF IInv, Shapes, Coherent, Removals, HistoryShape

LEMMA PagingKeeps ==
  ASSUME IInv, Refresh \/ NextPage \/ PrevPage \/ LoadOlder \/ LoadNewer
  PROVE  IInv'
<1>1. view.key # None
  BY DEF Refresh, NextPage, PrevPage, LoadOlder, LoadNewer, Offers, Screen
<1>2. UNCHANGED <<stored, tabs, active, jobs, view, bulk, modal, busy, removed, misfired>>
  BY DEF Refresh, NextPage, PrevPage, LoadOlder, LoadNewer, AskFor, server, workspace
<1>3. D = [opts |-> D.opts, page |-> D.page, loading |-> D.loading, err |-> D.err]
  BY <1>1 DEF D, IInv, Shapes, DataShape, ViewShape
<1>4. PICK o : FetchData(view.key, o, [D EXCEPT !.opts = o])
  BY <1>3 DEF Refresh, NextPage, PrevPage, LoadOlder, LoadNewer, AskFor
<1>5. Asks(view.key, o)
  BY <1>3, <1>4 DEF Asks, D
<1>6. QED BY <1>1, <1>2, <1>5, AskForKeeps

-----------------------------------------------------------------------------
(* A handler begins. *)
NewJob(j) ==
  /\ JobShape(j) /\ j.op \in Ops /\ JobKeyIsSet(j)
  /\ j.applied = FALSE /\ j.stage = "asked" /\ j.fair \in BOOLEAN

LEMMA StartingKeeps ==
  ASSUME IInv, NEW j, NewJob(j), jobs' = jobs \cup {j},
         UNCHANGED <<stored, tabs, active, data, calls, stale, removed, misfired>>
  PROVE  /\ JobsShape' /\ Gone' /\ Fresh' /\ Current'
         /\ (j.fair /\ j.op = "remove" => Holds(stored[j.key], j.at, j.seen)) => AimedWell'
<1>1. JobsShape'
  <2>1. IsFiniteSet(jobs')
    BY FS_AddElement DEF IInv, Shapes, JobsShape
  <2>2. QED BY <2>1 DEF IInv, Shapes, JobsShape, NewJob, JobKeyIsSet, JobShape
<1>2. Gone'
  BY DEF IInv, Gone, Closing
<1>3. Fresh'
  BY DEF IInv, Coherent, Fresh, Unread, Newest
<1>4. Current'
  BY DEF IInv, Removals, Current, Own
<1>5. (j.fair /\ j.op = "remove" => Holds(stored[j.key], j.at, j.seen)) => AimedWell'
  BY DEF IInv, Removals, AimedWell
<1>6. QED BY <1>1, <1>2, <1>3, <1>4, <1>5

(* A write begins when nothing is being saved, and marks the view.         *)
LEMMA RunMutationKeeps ==
  ASSUME IInv, NEW j, NewJob(j), j.op \in Mutations, j.view = view.id, view.key # None,
         "saving" \notin view.busy, RunMutation(j),
         j.fair /\ j.op = "remove" => Holds(stored[j.key], j.at, j.seen)
  PROVE  IInv'
<1>1. UNCHANGED <<stored, tabs, active, data, calls, bulk, modal, busy, stale, removed, misfired>>
  BY DEF RunMutation, server, workspace, history
<1>2. CASE readOnly
  <2>1. UNCHANGED <<jobs, view>>
    BY <1>2 DEF RunMutation
  <2>2. QED BY <1>1, <2>1, Frame DEF IInv, Shapes, Coherent, Removals
<1>3. CASE ~readOnly
  <2>1. jobs' = jobs \cup {j} /\ view' = [view EXCEPT !.busy = @ \cup {"saving"}]
    BY <1>3 DEF RunMutation
  <2>3. JobsShape' /\ Gone' /\ Fresh' /\ Current' /\ AimedWell'
    BY <1>1, <2>1, StartingKeeps
  <2>4. /\ view' = [key |-> view'.key, id |-> view'.id, busy |-> view'.busy, editor |-> view'.editor]
        /\ view'.key = view.key /\ view'.id = view.id /\ view'.busy = view.busy \cup {"saving"}
    BY <2>1 DEF IInv, Shapes, ViewShape
  <2>5. ViewShape'
    BY <1>1, <2>4 DEF IInv, Shapes, ViewShape
  <2>6. Shown'
    BY <1>1, <2>4 DEF IInv, Coherent, Shown, Newest
  <2>7. \A i \in jobs : Writing(i) => i.view # view.id
    BY DEF IInv, Removals, Saving
  <2>8. Saving'
    BY <1>1, <2>1, <2>4, <2>7 DEF IInv, Removals, Saving, Writing
  <2>9. QED BY <1>1, <2>3, <2>5, <2>6, <2>8, Frame DEF IInv, Shapes, Coherent, Removals
<1>4. QED BY <1>2, <1>3

(* What an editor offers beside beginning an edit waits for the write      *)
(* before; it is offered over a page.                                      *)
LEMMA OffersWait ==
  ASSUME NEW op \in {"save", "remove", "insert"}, Offers(op)
  PROVE  "saving" \notin view.busy /\ view.key # None /\ D.page # None
<1>1. view.key # None /\ D.page # None
  BY DEF Offers, Screen
<1>2. "saving" \notin view.busy
  BY DEF Offers, StringEditor, HashEditor, ListEditor, SetEditor, SortedSetEditor, JsonEditor, StreamViewer,
         Enabled
<1>3. QED BY <1>1, <1>2

(* The row of a removal is what the server has, if the removal is fair.    *)
LEMMA RowsAreCurrent ==
  ASSUME IInv, view.key # None, D.page # None, "saving" \notin view.busy,
         ~stale[view.key], ~LeftBehind, NEW i \in DOMAIN Rows
  PROVE  Holds(stored[view.key], i, Rows[i])
<1>1. view.key \in Names
  BY DEF IInv, Shapes, ViewShape
<1>2. ~Own(view.key)
  BY DEF Own, Mine, LeftBehind, IInv, Removals, Saving, Writing
<1>3. Rows = data[view.key].page.rows /\ data[view.key].page # None
  BY DEF Rows, D
<1>4. QED BY <1>1, <1>2, <1>3 DEF IInv, Removals, Current

LEMMA EditingKeeps ==
  ASSUME IInv,
         \/ \E x \in Texts : SaveEdit(x)
         \/ \E i \in Addresses : RemoveElement(i)
         \/ \E i \in Addresses, x \in Texts : InsertElement(i, x)
  PROVE  IInv'
<1>1. view.key # None => view.key \in Names
  BY DEF IInv, Shapes, ViewShape
<1>3. ASSUME NEW x \in Texts, SaveEdit(x)
      PROVE  IInv'
  <2>1. /\ "saving" \notin view.busy /\ view.key # None
        /\ RunMutation([Job("update") EXCEPT !.at = view.editor.edit, !.value = x])
    BY <1>3, OffersWait DEF SaveEdit
  <2>2. PICK j : j = [Job("update") EXCEPT !.at = view.editor.edit, !.value = x]
    OBVIOUS
  <2>3. NewJob(j) /\ j.op = "update" /\ j.key = view.key /\ j.view = view.id
    BY <1>1, <2>1, <2>2 DEF Job, NewJob, JobShape, JobKeyIsSet, Mutations, Aside, Ops
  <2>4. RunMutation(j) /\ j.op \in Mutations
    BY <2>1, <2>2, <2>3 DEF Mutations
  <2>5. QED BY <2>1, <2>3, <2>4, RunMutationKeeps
<1>4. ASSUME NEW i \in Addresses, RemoveElement(i)
      PROVE  IInv'
  <2>1. /\ "saving" \notin view.busy /\ view.key # None /\ D.page # None /\ i \in DOMAIN Rows
        /\ RunMutation(Aimed([Job("remove") EXCEPT !.at = i]))
    BY <1>4, OffersWait DEF RemoveElement
  <2>2. PICK j : j = Aimed([Job("remove") EXCEPT !.at = i])
    OBVIOUS
  <2>3. /\ NewJob(j) /\ j.op = "remove" /\ j.key = view.key /\ j.view = view.id
        /\ j.at = i /\ j.seen = Rows[j.at]
        /\ j.fair => ~stale[view.key] /\ ~LeftBehind
    BY <1>1, <2>1, <2>2 DEF Job, Aimed, NewJob, JobShape, JobKeyIsSet, Mutations, Aside, Ops
  <2>4. RunMutation(j) /\ j.op \in Mutations
    BY <2>1, <2>2, <2>3 DEF Mutations
  <2>5. j.fair => Holds(stored[j.key], j.at, j.seen)
    BY <2>1, <2>3, RowsAreCurrent
  <2>6. QED BY <2>1, <2>3, <2>4, <2>5, RunMutationKeeps
<1>5. ASSUME NEW i \in Addresses, NEW x \in Texts, InsertElement(i, x)
      PROVE  IInv'
  <2>1. /\ "saving" \notin view.busy /\ view.key # None
        /\ RunMutation([Job("insert") EXCEPT !.at = i, !.value = x])
    BY <1>5, OffersWait DEF InsertElement
  <2>2. PICK j : j = [Job("insert") EXCEPT !.at = i, !.value = x]
    OBVIOUS
  <2>3. NewJob(j) /\ j.op = "insert" /\ j.key = view.key /\ j.view = view.id
    BY <1>1, <2>1, <2>2 DEF Job, NewJob, JobShape, JobKeyIsSet, Mutations, Aside, Ops
  <2>4. RunMutation(j) /\ j.op \in Mutations
    BY <2>1, <2>2, <2>3 DEF Mutations
  <2>5. QED BY <2>1, <2>3, <2>4, RunMutationKeeps
<1>6. QED BY <1>3, <1>4, <1>5

LEMMA ConfirmingKeeps ==
  ASSUME IInv, ConfirmDelete \/ \E x \in BOOLEAN : ConfirmTTL(x)
  PROVE  IInv'
<1>1. view.key # None /\ view.key \in Names /\ "saving" \notin view.busy
  BY DEF ConfirmDelete, ConfirmTTL, In, Enabled, KeyDialogs, IInv, Shapes, ViewShape
<1>2. CASE ConfirmDelete
  <2>1. PICK j : j = Job("delete")
    OBVIOUS
  <2>2. NewJob(j) /\ j.op = "delete" /\ j.view = view.id
    BY <1>1, <2>1 DEF Job, NewJob, JobShape, JobKeyIsSet, Mutations, Aside, Ops
  <2>3. RunMutation(j) /\ j.op \in Mutations
    BY <1>2, <2>1, <2>2 DEF ConfirmDelete, Mutations
  <2>4. QED BY <1>1, <2>2, <2>3, RunMutationKeeps
<1>3. ASSUME NEW x \in BOOLEAN, ConfirmTTL(x)
      PROVE  IInv'
  <2>1. PICK j : j = [Job("ttl") EXCEPT !.value = x]
    OBVIOUS
  <2>2. NewJob(j) /\ j.op = "ttl" /\ j.view = view.id
    BY <1>1, <2>1 DEF Job, NewJob, JobShape, JobKeyIsSet, Mutations, Aside, Ops
  <2>3. RunMutation(j) /\ j.op \in Mutations
    BY <1>3, <2>1, <2>2 DEF ConfirmTTL, Mutations
  <2>4. QED BY <1>1, <2>2, <2>3, RunMutationKeeps
<1>4. QED BY <1>2, <1>3

(* Handlers of the view that write nothing, or write another name.         *)
LEMMA StartsKeeps ==
  ASSUME IInv, NEW j, NewJob(j), j.op \in {"rename", "copy", "export"}, NEW f, Starts(j, f)
  PROVE  IInv'
<1>1. /\ jobs' = jobs \cup {j} /\ view' = [view EXCEPT !.busy = @ \cup {f}]
      /\ UNCHANGED <<stored, tabs, active, data, calls, bulk, modal, busy, stale, removed, misfired>>
  BY DEF Starts, server, workspace, history
<1>2. JobsShape' /\ Gone' /\ Fresh' /\ Current' /\ AimedWell'
  BY <1>1, StartingKeeps
<1>3. /\ view' = [key |-> view'.key, id |-> view'.id, busy |-> view'.busy, editor |-> view'.editor]
      /\ view'.key = view.key /\ view'.id = view.id /\ view'.busy = view.busy \cup {f}
  BY <1>1 DEF IInv, Shapes, ViewShape
<1>4. ViewShape'
  BY <1>1, <1>3 DEF IInv, Shapes, ViewShape
<1>5. Shown'
  BY <1>1, <1>3 DEF IInv, Coherent, Shown, Newest
<1>6. Saving'
  BY <1>1, <1>3 DEF IInv, Removals, Saving, Writing, Mutations
<1>7. QED BY <1>1, <1>2, <1>4, <1>5, <1>6, Frame DEF IInv, Shapes, Coherent, Removals

LEMMA ViewHandlersKeep ==
  ASSUME IInv,
         \/ \E n \in Names : RenameKey(n)
         \/ \E n \in Names \cup {None} : DuplicateKey(n)
         \/ CopyAsJson
  PROVE  IInv'
<1>1. view.key # None /\ view.key \in Names
  BY DEF RenameKey, DuplicateKey, CopyAsJson, In, HeaderShown, Screen, KeyDialogs, IInv, Shapes, ViewShape
<1>2. ASSUME NEW op \in {"rename", "copy"}, NEW n \in Names \cup {None}, op = "rename" => n \in Names,
             NEW j, j = [Job(op) EXCEPT !.to = n]
      PROVE  NewJob(j) /\ j.op = op
  BY <1>1, <1>2 DEF Job, NewJob, JobShape, JobKeyIsSet, Mutations, Aside, Ops
<1>3. ASSUME NEW n \in Names, RenameKey(n)
      PROVE  IInv'
  <2>1. PICK j : j = [Job("rename") EXCEPT !.to = n]
    OBVIOUS
  <2>2. Starts(j, "renaming")
    BY <1>3, <2>1 DEF RenameKey
  <2>3. NewJob(j) /\ j.op = "rename"
    BY <1>2, <2>1
  <2>4. QED BY <2>2, <2>3, StartsKeeps
<1>4. ASSUME NEW n \in Names \cup {None}, DuplicateKey(n)
      PROVE  IInv'
  <2>1. PICK j : j = [Job("copy") EXCEPT !.to = n]
    OBVIOUS
  <2>2. Starts(j, "copying")
    BY <1>4, <2>1 DEF DuplicateKey
  <2>3. NewJob(j) /\ j.op = "copy"
    BY <1>2, <2>1
  <2>4. QED BY <2>2, <2>3, StartsKeeps
<1>5. CASE CopyAsJson
  <2>1. PICK j : j = Job("export")
    OBVIOUS
  <2>2. Starts(j, "exporting")
    BY <1>5, <2>1 DEF CopyAsJson
  <2>3. NewJob(j) /\ j.op = "export"
    BY <1>1, <2>1 DEF Job, NewJob, JobShape, JobKeyIsSet, Mutations, Aside, Ops
  <2>4. QED BY <2>2, <2>3, StartsKeeps
<1>6. QED BY <1>3, <1>4, <1>5

(* Handlers of the sidebar are none of the view's.                         *)
LEMMA StartsBesideKeeps ==
  ASSUME IInv, NEW j, NewJob(j), j.op \in Aside, StartsBeside(j),
         modal' \notin KeyDialogs \/ UNCHANGED modal
  PROVE  IInv'
<1>1. /\ jobs' = jobs \cup {j} /\ busy' = busy \cup {j.op}
      /\ UNCHANGED <<stored, tabs, active, data, calls, view, stale, removed, misfired>>
  BY DEF StartsBeside, server, workspace, history
<1>2. JobsShape' /\ Gone' /\ Fresh' /\ Current' /\ AimedWell'
  BY <1>1, StartingKeeps DEF Aside
<1>4. ViewShape'
  BY <1>1 DEF IInv, Shapes, ViewShape
<1>5. Saving'
  BY <1>1 DEF IInv, Removals, Saving, Writing, Mutations, Aside
<1>6. QED BY <1>1, <1>2, <1>4, <1>5, Frame DEF IInv, Shapes, Coherent, Removals

LEMMA SidebarKeeps ==
  ASSUME IInv,
         \/ RunPreview \/ RunDelete \/ \E n \in Names : HandleLookup(n)
         \/ \E n \in Names, kind \in NewKinds, x \in Texts : HandleCreateKey(n, kind, x)
  PROVE  IInv'
<1>1. CASE RunPreview
  <2>1. PICK j : j = [SideJob("preview") EXCEPT !.to = bulk.pattern]
    OBVIOUS
  <2>2. StartsBeside(j) /\ modal' = "bulk"
    BY <1>1, <2>1 DEF RunPreview, Beside
  <2>3. NewJob(j) /\ j.op = "preview"
    BY <2>1 DEF SideJob, Job, NewJob, JobShape, JobKeyIsSet, Mutations, Aside, Ops
  <2>4. QED BY <2>2, <2>3, StartsBesideKeeps DEF Aside, KeyDialogs
<1>2. CASE RunDelete
  <2>1. PICK j : j = [SideJob("bulk") EXCEPT !.to = bulk.pattern]
    OBVIOUS
  <2>2. StartsBeside(j) /\ modal' = "bulk"
    BY <1>2, <2>1 DEF RunDelete, Beside
  <2>3. NewJob(j) /\ j.op = "bulk"
    BY <2>1 DEF SideJob, Job, NewJob, JobShape, JobKeyIsSet, Mutations, Aside, Ops
  <2>4. QED BY <2>2, <2>3, StartsBesideKeeps DEF Aside, KeyDialogs
<1>3. ASSUME NEW n \in Names, HandleLookup(n)
      PROVE  IInv'
  <2>1. PICK j : j = [SideJob("lookup") EXCEPT !.to = n]
    OBVIOUS
  <2>2. StartsBeside(j) /\ modal' = modal
    BY <1>3, <2>1 DEF HandleLookup
  <2>3. NewJob(j) /\ j.op = "lookup"
    BY <1>3, <2>1 DEF SideJob, Job, NewJob, JobShape, JobKeyIsSet, Mutations, Aside, Ops
  <2>4. QED BY <2>2, <2>3, StartsBesideKeeps DEF Aside
<1>4. ASSUME NEW n \in Names, NEW kind \in NewKinds, NEW x \in Texts, HandleCreateKey(n, kind, x)
      PROVE  IInv'
  <2>1. PICK j : j = [SideJob("create") EXCEPT !.to = n, !.seen = kind, !.value = x]
    OBVIOUS
  <2>2. StartsBeside(j) /\ modal' = "create"
    BY <1>4, <2>1 DEF HandleCreateKey, Beside
  <2>3. NewJob(j) /\ j.op = "create"
    BY <1>4, <2>1 DEF SideJob, Job, NewJob, JobShape, JobKeyIsSet, Mutations, Aside, Ops
  <2>4. QED BY <2>2, <2>3, StartsBesideKeeps DEF Aside, KeyDialogs
<1>5. QED BY <1>1, <1>2, <1>3, <1>4

-----------------------------------------------------------------------------
(* Handlers go on. *)

(* What a handler is later: the same, further on.                          *)
Later(i, j) ==
  /\ JobShape(i) /\ i.applied /\ j.applied
  /\ i.op = j.op /\ i.key = j.key /\ i.view = j.view /\ i.to = j.to /\ i.fair = j.fair
  /\ i.stage \in {"reload", "tree", "closing"} /\ j.stage # "closing"
  /\ (i.stage = "reload" => i.op \in Mutations) /\ (i.stage = "closing" => i.op = "delete")

LEMMA HandlerMoves ==
  ASSUME IInv, NEW j \in jobs, NEW new, jobs' = (jobs \ {j}) \cup new,
         new = {} \/ \E i : new = {i} /\ Later(i, j)
  PROVE  /\ JobsShape'
         /\ UNCHANGED stored => AimedWell'
         /\ UNCHANGED view => Saving'
         /\ (UNCHANGED <<stored, calls, data, stale>> /\ (j.op \in Mutations => j.stage # "done")) => Fresh'
         /\ (UNCHANGED <<stored, data, stale>> /\ (j.op \in Mutations => j.stage \notin {"done", "reload"}))
               => Current'
<1>1. \A i \in jobs' : i \in (jobs \ {j}) \/ (new = {i} /\ Later(i, j))
  OBVIOUS
<1>2. JobsShape'
  <2>1. IsFiniteSet(jobs \ {j})
    BY FS_RemoveElement DEF IInv, Shapes, JobsShape
  <2>2. IsFiniteSet(jobs')
    BY <2>1, FS_AddElement
  <2>3. \A i : Later(i, j) =>
          /\ i.op \in Ops /\ i.applied \in BOOLEAN /\ i.fair \in BOOLEAN /\ JobKeyIsSet(i)
          /\ i.applied <=> i.stage \in {"done", "reload", "tree", "closing"}
          /\ i.stage \in {"asked", "refused", "done", "reload", "tree", "closing"}
          /\ i.stage = "reload" => i.op \in Mutations
          /\ i.stage = "closing" => i.op = "delete"
    BY DEF Later, IInv, Shapes, JobsShape, JobKeyIsSet
  <2>4. QED BY <1>1, <2>2, <2>3 DEF IInv, Shapes, JobsShape, Later, JobShape, JobKeyIsSet
<1>3. UNCHANGED stored => AimedWell'
  BY <1>1 DEF IInv, Removals, AimedWell, Later
<1>4. UNCHANGED view => Saving'
  BY <1>1 DEF IInv, Removals, Saving, Writing, Later
<1>6. (UNCHANGED <<stored, calls, data, stale>> /\ (j.op \in Mutations => j.stage # "done")) => Fresh'
  <2>1. (j.op \in Mutations => j.stage # "done") => \A n \in Names : Unread(n) => Unread(n)'
    BY DEF Unread, Mine
  <2>2. QED BY <2>1 DEF IInv, Coherent, Fresh, Newest
<1>7. (UNCHANGED <<stored, data, stale>> /\ (j.op \in Mutations => j.stage \notin {"done", "reload"}))
         => Current'
  <2>1. (j.op \in Mutations => j.stage \notin {"done", "reload"}) => \A n \in Names : Own(n) => Own(n)'
    BY DEF Own, Mine
  <2>2. QED BY <2>1 DEF IInv, Removals, Current
<1>8. QED BY <1>2, <1>3, <1>4, <1>6, <1>7

(* A view is at rest again: its flag goes with the handler.                *)
LEMMA RestingKeeps ==
  ASSUME IInv, NEW j \in jobs, NEW new, jobs' = (jobs \ {j}) \cup new,
         new = {} \/ \E i : new = {i} /\ Later(i, j) /\ i.stage = "closing",
         NEW e, view' = Resting(j) \/ view' = [Resting(j) EXCEPT !.editor.edit = e],
         UNCHANGED <<data, calls, active>>, modal' \in {None, modal},
         j.op \in Mutations => j.stage # "closing"
  PROVE  ViewShape' /\ Shown' /\ Saving'
<1>1. /\ view = [key |-> view.key, id |-> view.id, busy |-> view.busy, editor |-> view.editor]
      /\ view.key \in Names \cup {None} /\ active \in Names \cup {None}
      /\ modal \in KeyDialogs => view.key # None
  BY DEF IInv, Shapes, ViewShape
<1>2. /\ Resting(j).key = view.key /\ Resting(j).id = view.id
      /\ Resting(j).busy = IF Lives(j) THEN view.busy \ {Flag(j.op)} ELSE view.busy
      /\ Resting(j) = [key |-> view.key, id |-> view.id, busy |-> Resting(j).busy, editor |-> view.editor]
  BY <1>1 DEF Resting
<1>3. /\ view'.key = view.key /\ view'.id = view.id /\ view'.busy = Resting(j).busy
      /\ view' = [key |-> view'.key, id |-> view'.id, busy |-> view'.busy, editor |-> view'.editor]
  BY <1>2
<1>4. ViewShape'
  BY <1>1, <1>3, RedisKeysAssumption DEF ViewShape
<1>5. Shown'
  BY <1>3 DEF IInv, Coherent, Shown, Newest
<1>6. Saving'
  <2>1. \A i \in jobs' : Writing(i) => i \in jobs /\ i # j
    BY DEF Writing, Later
  <2>2. CASE j.op \in Mutations
    <3>1. \A i \in jobs' : Writing(i) => i.view # j.view
      BY <2>1, <2>2 DEF IInv, Removals, Saving, Writing
    <3>2. \A i \in jobs' : Writing(i) /\ view.key # None /\ i.view = view.id => "saving" \in view.busy /\ ~Lives(j)
      BY <2>1, <3>1 DEF IInv, Removals, Saving, Lives
    <3>3. QED BY <1>2, <1>3, <2>1, <3>2 DEF IInv, Removals, Saving
  <2>3. CASE j.op \notin Mutations
    <3>1. Flag(j.op) # "saving"
      BY <2>3 DEF Flag
    <3>2. QED BY <1>2, <1>3, <2>1, <3>1 DEF IInv, Removals, Saving
  <2>4. QED BY <2>2, <2>3
<1>7. QED BY <1>4, <1>5, <1>6

(* The shape of a handler's next stage. *)
LEMMA NextStage ==
  ASSUME IInv, NEW j \in jobs, NEW s, NEW w, NEW i,
         i = [j EXCEPT !.stage = s] \/ i = [j EXCEPT !.stage = s, !.waits = w],
         j.stage \in {"done", "reload", "tree"}, s \in {"reload", "tree", "closing"},
         s = "reload" => j.op \in Mutations, s = "closing" => j.op = "delete"
  PROVE  Later(i, j) /\ i.stage = s
<1>1. /\ j = [op |-> j.op, key |-> j.key, view |-> j.view, editor |-> j.editor, stage |-> j.stage,
              at |-> j.at, value |-> j.value, seen |-> j.seen, fair |-> j.fair, to |-> j.to,
              waits |-> j.waits, applied |-> j.applied]
      /\ j.applied
  BY DEF IInv, Shapes, JobsShape, JobShape
<1>2. /\ i.op = j.op /\ i.key = j.key /\ i.view = j.view /\ i.to = j.to /\ i.fair = j.fair
      /\ i.applied = j.applied /\ i.stage = s
  BY <1>1
<1>3. JobShape(i)
  BY <1>1 DEF JobShape
<1>4. QED BY <1>1, <1>2, <1>3 DEF Later

LEMMA MutationLandsKeeps ==
  ASSUME IInv, NEW j \in jobs, MutationLands(j)
  PROVE  IInv'
<1>1. /\ j.op \in Mutations /\ j.stage = "done" /\ j.key \in Names /\ j.applied
      /\ UNCHANGED <<stored, tabs, active, view, bulk, modal, busy, removed, misfired>>
      /\ FetchData(j.key, data[j.key].opts, data[j.key])
  BY DEF MutationLands, server, workspace, IInv, Shapes, JobsShape, JobKeyIsSet, Mutations, Aside
<1>2. PICK i : i = [j EXCEPT !.stage = "reload", !.waits = data[j.key].opts]
  OBVIOUS
<1>3. jobs' = (jobs \ {j}) \cup {i}
  BY <1>2 DEF MutationLands, Becomes
<1>4. Later(i, j) /\ i.stage = "reload"
  BY ZenonT(60), <1>1, <1>2, NextStage
<1>5. JobsShape' /\ AimedWell' /\ Saving'
  BY <1>1, <1>3, <1>4, HandlerMoves
<1>6. Asks(j.key, data[j.key].opts)
  <2>1. data[j.key] = [opts |-> data[j.key].opts, page |-> data[j.key].page,
                       loading |-> data[j.key].loading, err |-> data[j.key].err]
    BY <1>1 DEF IInv, Shapes, DataShape
  <2>2. QED BY <1>1, <2>1 DEF Asks
<1>7. \A n \in Names \ {j.key} : Unread(n) => Unread(n)'
  BY <1>3 DEF Unread, Mine
<1>8. \A n \in Names : Own(n) => Own(n)'
  BY <1>1, <1>3, <1>4 DEF Own, Mine, Later
<1>9. /\ DataShape' /\ CallsShape' /\ stale' \in [Names -> BOOLEAN] /\ Sound' /\ Asked'
      /\ (\A n \in Names \ {j.key} : Unread(n) => Unread(n)') => Fresh'
      /\ (\A n \in Names : Own(n) => Own(n)') => Current'
      /\ view'.key \in {view.key, j.key} => Shown'
  BY <1>1, <1>6, AskingKeeps
<1>10. Gone'
  BY <1>1, <1>3, <1>4 DEF IInv, Gone, Closing, Later, Mutations
<1>11. Fresh' /\ Current' /\ Shown'
  BY <1>1, <1>7, <1>8, <1>9
<1>12. QED BY <1>1, <1>5, <1>9, <1>10, <1>11, Frame DEF IInv, Shapes, Coherent, Removals, HistoryShape

(* A page holds what the server has at its addresses. *)
LEMMA PageRows ==
  ASSUME NEW p, NEW s, NEW o, Shows(p, s, o), NEW i \in DOMAIN p.rows
  PROVE  Holds(s, i, p.rows[i])
<1>1. DEFINE at == IF s = None THEN <<>> ELSE s.at
<1>2. p.rows = Only(at, Window(Through(p, s), o))
  BY DEF Shows, Page, Through
<1>3. i \in DOMAIN at /\ p.rows[i] = at[i]
  BY <1>2 DEF Only
<1>4. s # None
  BY <1>3
<1>5. QED BY <1>3, <1>4 DEF Holds

LEMMA ReloadedKeeps ==
  ASSUME IInv, NEW j \in jobs, Reloaded(j)
  PROVE  IInv'
<1>1. /\ j.stage = "reload" /\ j.op \in Mutations /\ j.key \in Names /\ j.applied
      /\ UNCHANGED <<stored, tabs, active, data, calls, view, bulk, modal, busy, removed, misfired>>
      /\ stale' = [stale EXCEPT ![j.key] = @ \/ \E c \in calls : c.key = j.key /\ c.newest]
  BY DEF Reloaded, ReloadDue, server, workspace, IInv, Shapes, JobsShape, JobKeyIsSet, Mutations, Aside
<1>2. PICK i : i = [j EXCEPT !.stage = "tree"]
  OBVIOUS
<1>3. jobs' = (jobs \ {j}) \cup {i}
  BY <1>2 DEF Reloaded, Becomes
<1>4. Later(i, j) /\ i.stage = "tree"
  BY <1>1, <1>2, NextStage
<1>5. JobsShape' /\ AimedWell' /\ Saving'
  BY <1>1, <1>3, <1>4, HandlerMoves
<1>6. Gone'
  BY <1>1, <1>3, <1>4 DEF IInv, Gone, Closing, Later, Mutations
<1>7. /\ stale \in [Names -> BOOLEAN] /\ stale' \in [Names -> BOOLEAN]
      /\ \A n \in Names : stale[n] => stale'[n]
      /\ ~stale'[j.key] => Newest(j.key) = {}
  BY <1>1 DEF IInv, Shapes, HistoryShape, Newest
<1>8. \A n \in Names : Unread(n)' = Unread(n)
  BY <1>1, <1>3, <1>4 DEF Unread, Mine
<1>9. Fresh'
  BY <1>1, <1>7, <1>8 DEF IInv, Coherent, Fresh, Newest
<1>10. Asked'
  <2>1. \A c \in calls : c.key \in Names
    BY DEF IInv, Shapes, CallsShape
  <2>2. QED BY <1>1, <1>7, <2>1 DEF IInv, Coherent, Asked
<1>11. Current'
  <2>1. SUFFICES ASSUME NEW n \in Names, ~stale'[n], ~Own(n)', data[n].page # None
                 PROVE  \A a \in DOMAIN data[n].page.rows : Holds(stored[n], a, data[n].page.rows[a])
    BY <1>1 DEF Current
  <2>2. CASE n = j.key
    <3>1. ~Unread(n)
      BY <1>8, <2>1 DEF Unread, Own
    <3>2. Shows(data[n].page, stored[n], data[n].opts)
      BY <1>1, <1>7, <2>1, <2>2, <3>1 DEF IInv, Coherent, Fresh
    <3>3. QED BY <3>2, PageRows
  <2>3. CASE n # j.key
    <3>1. ~Own(n)
      BY <1>3, <2>1, <2>3 DEF Own, Mine
    <3>2. QED BY <1>7, <2>1, <3>1 DEF IInv, Removals, Current
  <2>4. QED BY <2>2, <2>3
<1>12. QED BY <1>1, <1>5, <1>6, <1>7, <1>9, <1>10, <1>11, Frame DEF IInv, Shapes, Coherent, Removals, HistoryShape

LEMMA TreeLandsKeeps ==
  ASSUME IInv, NEW j \in jobs, TreeLands(j)
  PROVE  IInv'
<1>1. /\ j.op \in Mutations \cup {"rename"} /\ j.stage = "tree" /\ j.applied
      /\ UNCHANGED <<stored, tabs, active, data, calls, bulk, busy, stale, removed, misfired>>
      /\ modal' \in {None, modal}
  BY DEF TreeLands, Closes, server, workspace, history, IInv, Shapes, JobsShape
<1>2. PICK e : view' = Resting(j) \/ view' = [Resting(j) EXCEPT !.editor.edit = e]
  BY DEF TreeLands
<1>3. PICK i : i = [j EXCEPT !.stage = "closing"]
  OBVIOUS
<1>4. PICK new : /\ jobs' = (jobs \ {j}) \cup new
                 /\ new = IF j.op = "delete" THEN {i} ELSE {}
  BY <1>3 DEF TreeLands, Becomes
<1>5. new = {} \/ (j.op = "delete" /\ new = {i} /\ Later(i, j) /\ i.stage = "closing")
  BY <1>1, <1>3, <1>4, NextStage
<1>6. JobsShape' /\ AimedWell' /\ Fresh' /\ Current'
  BY <1>1, <1>4, <1>5, HandlerMoves
<1>7. ViewShape' /\ Shown' /\ Saving'
  BY <1>1, <1>2, <1>4, <1>5, RestingKeeps
<1>8. Gone'
  BY <1>1, <1>4, <1>5 DEF IInv, Gone, Closing, Later
<1>9. QED BY <1>1, <1>6, <1>7, <1>8, Frame DEF IInv, Shapes, Coherent, Removals

LEMMA DeleteLandsKeeps ==
  ASSUME IInv, NEW j \in jobs, DeleteLands(j)
  PROVE  IInv'
<1>1. /\ j.op = "delete" /\ j.stage = "closing" /\ j.key \in Names
      /\ jobs' = (jobs \ {j}) \cup {}
      /\ CloseTab(j.key, tabs, active)
      /\ UNCHANGED <<stored, data, calls, view, bulk, modal, busy, stale, removed, misfired>>
  BY DEF DeleteLands, Becomes, TabOfJob, server, history, IInv, Shapes, JobsShape, JobKeyIsSet, Aside
<1>2. JobsShape' /\ AimedWell' /\ Saving' /\ Fresh' /\ Current'
  BY <1>1, HandlerMoves
<1>3. tabs \in Seq(Names) /\ IsInjective(tabs) /\ active \in Names \cup {None}
  BY DEF IInv, Shapes, TabsShape, ViewShape
<1>4. /\ tabs' \in Seq(Names) /\ IsInjective(tabs') /\ Range(tabs') = Range(tabs) \ {j.key}
      /\ active' \in Names \cup {None}
  BY <1>1, <1>3, CloseTabCloses
<1>5. TabsShape' /\ ViewShape'
  BY <1>1, <1>4 DEF IInv, Shapes, TabsShape, ViewShape
<1>6. Gone'
  BY <1>1, <1>4 DEF IInv, Gone
<1>7. QED BY <1>1, <1>2, <1>5, <1>6, Frame DEF IInv, Shapes, Coherent, Removals

LEMMA RenameLandsKeeps ==
  ASSUME IInv, NEW j \in jobs, RenameLands(j)
  PROVE  IInv'
<1>1. /\ j.op = "rename" /\ j.stage = "done" /\ j.key \in Names /\ j.to \in Names
      /\ CloseTab(j.key, OpenTab(tabs, j.to), j.to)
      /\ removed' = removed \ {j.to} /\ modal' \in {None, modal}
      /\ UNCHANGED <<stored, data, calls, view, bulk, busy, stale, misfired>>
  BY DEF RenameLands, Closes, server, IInv, Shapes, JobsShape, JobKeyIsSet, Aside
<1>2. PICK i : i = [j EXCEPT !.stage = "tree"]
  OBVIOUS
<1>3. jobs' = (jobs \ {j}) \cup {i}
  BY <1>2 DEF RenameLands, Becomes
<1>4. Later(i, j) /\ i.stage = "tree"
  BY <1>1, <1>2, NextStage
<1>5. JobsShape' /\ AimedWell' /\ Saving' /\ Fresh' /\ Current'
  BY <1>1, <1>3, <1>4, HandlerMoves DEF Mutations
<1>6. /\ OpenTab(tabs, j.to) \in Seq(Names) /\ IsInjective(OpenTab(tabs, j.to))
      /\ Range(OpenTab(tabs, j.to)) = Range(tabs) \cup {j.to}
  BY <1>1, OpenTabOpens DEF IInv, Shapes, TabsShape
<1>7. /\ tabs' \in Seq(Names) /\ IsInjective(tabs') /\ Range(tabs') = (Range(tabs) \cup {j.to}) \ {j.key}
      /\ active' \in Names \cup {None}
  BY <1>1, <1>6, CloseTabCloses
<1>8. TabsShape' /\ ViewShape'
  BY <1>1, <1>7, RedisKeysAssumption DEF IInv, Shapes, TabsShape, ViewShape
<1>9. Gone'
  BY <1>1, <1>3, <1>7 DEF IInv, Gone
<1>10. HistoryShape'
  BY <1>1 DEF IInv, Shapes, HistoryShape
<1>11. QED BY <1>1, <1>5, <1>8, <1>9, <1>10, Frame DEF IInv, Shapes, Coherent, Removals

LEMMA CopyLandsKeeps ==
  ASSUME IInv, NEW j \in jobs, CopyLands(j)
  PROVE  IInv'
<1>1. /\ j.op = "copy" /\ j.stage = "done" /\ j.to \in Names \cup {None}
      /\ jobs' = (jobs \ {j}) \cup {} /\ view' = Resting(j) /\ modal' \in {None, modal}
      /\ UNCHANGED <<stored, data, calls, bulk, busy, stale, misfired>>
  BY DEF CopyLands, Becomes, Closes, server, IInv, Shapes, JobsShape, JobKeyIsSet
<1>2. JobsShape' /\ AimedWell' /\ Fresh' /\ Current'
  BY <1>1, HandlerMoves DEF Mutations
<1>3. \A i \in jobs : Closing(i) => i \in jobs'
  BY <1>1 DEF Closing
<1>4. TabsShape' /\ Gone' /\ active' \in Names \cup {None} /\ removed' \subseteq Names
  <2>1. CASE j.to = None
    <3>1. UNCHANGED <<tabs, active, removed>>
      BY <2>1 DEF CopyLands, workspace
    <3>2. QED BY <1>1, <1>3, <3>1 DEF IInv, Shapes, TabsShape, Gone, HistoryShape, ViewShape
  <2>2. CASE j.to # None
    <3>1. Opens(j.to) /\ j.to \in Names
      BY <1>1, <2>2 DEF CopyLands
    <3>2. QED BY <1>1, <1>3, <3>1, OpeningKeepsGone
  <2>3. QED BY <2>1, <2>2
<1>5. /\ view' = [key |-> view'.key, id |-> view'.id, busy |-> view'.busy, editor |-> view'.editor]
      /\ view'.key = view.key /\ view'.id = view.id
      /\ view'.busy = view.busy \/ view'.busy = view.busy \ {"copying"}
  BY <1>1 DEF Resting, Flag, Mutations, IInv, Shapes, ViewShape
<1>6. ViewShape'
  BY <1>1, <1>4, <1>5, RedisKeysAssumption DEF IInv, Shapes, ViewShape
<1>7. Shown'
  BY <1>1, <1>5 DEF IInv, Coherent, Shown, Newest
<1>8. Saving'
  BY <1>1, <1>5 DEF IInv, Removals, Saving, Writing
<1>9. QED BY <1>1, <1>2, <1>4, <1>6, <1>7, <1>8, Frame DEF IInv, Shapes, Coherent, Removals, HistoryShape

LEMMA ExportLandsKeeps ==
  ASSUME IInv, NEW j \in jobs, ExportLands(j)
  PROVE  IInv'
<1>1. /\ j.op = "export" /\ j.stage = "done"
      /\ jobs' = (jobs \ {j}) \cup {} /\ view' = Resting(j)
      /\ UNCHANGED <<stored, tabs, active, data, calls, bulk, modal, busy, stale, removed, misfired>>
  BY DEF ExportLands, Becomes, server, workspace, history
<1>2. JobsShape' /\ AimedWell' /\ Fresh' /\ Current'
  BY <1>1, HandlerMoves DEF Mutations
<1>3. Gone'
  BY <1>1 DEF IInv, Gone, Closing
<1>4. ViewShape' /\ Shown' /\ Saving'
  BY <1>1, RestingKeeps DEF Mutations
<1>5. QED BY <1>1, <1>2, <1>3, <1>4, Frame DEF IInv, Shapes, Coherent, Removals

LEMMA SideTreeKeeps ==
  ASSUME IInv, NEW j \in jobs, SideTree(j)
  PROVE  IInv'
<1>1. /\ j.op \in {"bulk", "create"} /\ j.stage = "done"
      /\ UNCHANGED <<stored, tabs, active, data, calls, view, bulk, modal, busy, stale, removed, misfired>>
  BY DEF SideTree, server, workspace, history
<1>2. PICK i : i = [j EXCEPT !.stage = "tree"]
  OBVIOUS
<1>3. jobs' = (jobs \ {j}) \cup {i}
  BY <1>2 DEF SideTree, Becomes
<1>4. Later(i, j)
  BY <1>1, <1>2, NextStage
<1>5. JobsShape' /\ AimedWell' /\ Saving' /\ Fresh' /\ Current'
  BY <1>1, <1>3, <1>4, HandlerMoves DEF Mutations
<1>6. Gone'
  BY <1>1, <1>3 DEF IInv, Gone, Closing
<1>7. QED BY <1>1, <1>5, <1>6, Frame DEF IInv, Shapes, Coherent, Removals

(* The answer of a count or of a bulk delete becomes the count shown.      *)
LEMMA CountLandsKeeps ==
  ASSUME IInv, NEW j \in jobs, PreviewLands(j) \/ BulkLands(j)
  PROVE  IInv'
<1>1. /\ j.op \in {"preview", "bulk"} /\ jobs' = (jobs \ {j}) \cup {}
      /\ modal' = modal \/ modal' = None
      /\ UNCHANGED <<stored, tabs, active, data, calls, view, stale, removed, misfired>>
  BY DEF PreviewLands, BulkLands, Becomes, server, workspace, history
<1>2. JobsShape' /\ AimedWell' /\ Saving' /\ Fresh' /\ Current'
  BY <1>1, HandlerMoves DEF Mutations
<1>3. Gone'
  BY <1>1 DEF IInv, Gone, Closing
<1>4. ViewShape'
  BY <1>1, RedisKeysAssumption DEF IInv, Shapes, ViewShape
<1>5. QED BY <1>1, <1>2, <1>3, <1>4, Frame DEF IInv, Shapes, Coherent, Removals

LEMMA CreateLandsKeeps ==
  ASSUME IInv, NEW j \in jobs, CreateLands(j) \/ LookupLands(j)
  PROVE  IInv'
<1>1. /\ j.op \in {"create", "lookup"} /\ jobs' = (jobs \ {j}) \cup {} /\ busy' = busy \ {j.op}
      /\ Opens(j.to) /\ j.to \in Names
      /\ modal' = modal \/ modal' = None
      /\ UNCHANGED <<stored, data, calls, view, bulk, stale, misfired>>
  BY DEF CreateLands, LookupLands, Becomes, server, IInv, Shapes, JobsShape, JobKeyIsSet
<1>2. JobsShape' /\ AimedWell' /\ Saving' /\ Fresh' /\ Current'
  BY <1>1, HandlerMoves DEF Mutations
<1>3. \A i \in jobs : Closing(i) => i \in jobs'
  BY <1>1 DEF Closing
<1>4. TabsShape' /\ Gone' /\ active' = j.to /\ removed' \subseteq Names
  BY <1>1, <1>3, OpeningKeepsGone
<1>5. ViewShape'
  BY <1>1, <1>4, RedisKeysAssumption DEF IInv, Shapes, ViewShape
<1>6. QED BY <1>1, <1>2, <1>4, <1>5, Frame DEF IInv, Shapes, Coherent, Removals, HistoryShape

(* A handler that failed after its write was taken leaves its key stale.   *)
LEMMA JobFailsKeeps ==
  ASSUME IInv, NEW j \in jobs, JobFails(j)
  PROVE  IInv'
<1>1. /\ jobs' = (jobs \ {j}) \cup {} /\ j.stage \in {"asked", "done", "refused"}
      /\ UNCHANGED <<stored, tabs, active, calls, bulk, modal, misfired>>
      /\ stale' = IF j.applied /\ j.key # None THEN [stale EXCEPT ![j.key] = TRUE] ELSE stale
      /\ removed' = IF j.applied THEN removed \ {j.key} ELSE removed
      /\ data' = IF j.op \in Mutations \cup {"rename"} \/ (j.op = "copy" /\ j.to # None)
                 THEN [data EXCEPT ![j.key].err = TRUE] ELSE data
      /\ IF j.key = None THEN busy' = busy \ {j.op} /\ UNCHANGED view
         ELSE view' = Resting(j) /\ UNCHANGED busy
  BY DEF JobFails, Becomes, server, workspace
<1>2. /\ JobKeyIsSet(j) /\ (j.stage = "done" => j.applied)
      /\ stale \in [Names -> BOOLEAN] /\ removed \subseteq Names /\ None \notin Names
  BY RedisKeysAssumption DEF IInv, Shapes, JobsShape, HistoryShape
<1>3. JobsShape' /\ AimedWell'
  BY <1>1, HandlerMoves
<1>4. HistoryShape' /\ \A n \in Names : stale[n] => stale'[n]
  BY <1>1, <1>2 DEF HistoryShape
<1>5. j.op \in Mutations /\ j.stage = "done" => stale'[j.key]
  BY <1>1, <1>2 DEF JobKeyIsSet, Mutations, Aside
<1>6. /\ DataShape'
      /\ \A n \in Names : data'[n].page = data[n].page /\ data'[n].opts = data[n].opts
                          /\ (data[n].err => data'[n].err)
  <2>1. data = [n \in Names |-> [opts |-> data[n].opts, page |-> data[n].page,
                                 loading |-> data[n].loading, err |-> data[n].err]]
    BY DEF IInv, Shapes, DataShape
  <2>2. CASE data' = [data EXCEPT ![j.key].err = TRUE] /\ j.key \in Names
    <3>1. data' = [n \in Names |-> IF n = j.key THEN [data[n] EXCEPT !.err = TRUE] ELSE data[n]]
      BY <2>1, <2>2
    <3>2. \A n \in Names :
            data'[n] = [opts |-> data[n].opts, page |-> data[n].page, loading |-> data[n].loading,
                        err |-> IF n = j.key THEN TRUE ELSE data[n].err]
      <4>1. SUFFICES ASSUME NEW n \in Names
                     PROVE  data'[n] = [opts |-> data[n].opts, page |-> data[n].page,
                                        loading |-> data[n].loading,
                                        err |-> IF n = j.key THEN TRUE ELSE data[n].err]
        OBVIOUS
      <4>2. data[n] = [opts |-> data[n].opts, page |-> data[n].page,
                       loading |-> data[n].loading, err |-> data[n].err]
        BY <2>1
      <4>3. QED BY <3>1, <4>2
    <3>3. QED BY ZenonT(60), <3>1, <3>2 DEF DataShape
  <2>3. CASE data' = data
    BY <2>1, <2>3 DEF DataShape
  <2>4. j.op \in Mutations \cup {"rename"} \/ (j.op = "copy" /\ j.to # None) => j.key \in Names
    BY <1>2 DEF JobKeyIsSet, Mutations, Aside
  <2>5. QED BY <1>1, <2>2, <2>3, <2>4
<1>7. \A n \in Names : Unread(n) => Unread(n)' \/ stale'[n]
  BY <1>1, <1>5 DEF Unread, Mine
<1>8. \A n \in Names : Own(n) => Own(n)' \/ stale'[n]
  BY <1>1, <1>5 DEF Own, Mine
<1>9. Fresh'
  BY <1>1, <1>4, <1>6, <1>7 DEF IInv, Coherent, Fresh, Newest
<1>10. Current'
  BY <1>1, <1>4, <1>6, <1>8 DEF IInv, Removals, Current
<1>11. Asked'
  <2>1. \A c \in calls : c.key \in Names
    BY DEF IInv, Shapes, CallsShape
  <2>2. QED BY <1>1, <1>4, <1>6, <2>1 DEF IInv, Coherent, Asked
<1>12. /\ view'.key = view.key /\ view'.id = view.id
       /\ view' = [key |-> view'.key, id |-> view'.id, busy |-> view'.busy, editor |-> view'.editor]
  BY <1>1 DEF Resting, IInv, Shapes, ViewShape
<1>13. ViewShape'
  BY <1>1, <1>12 DEF IInv, Shapes, ViewShape
<1>14. Shown'
  BY <1>1, <1>6, <1>12 DEF IInv, Coherent, Shown, Newest
<1>15. Saving'
  <2>1. CASE j.op \in Mutations
    <3>1. j.stage # "closing" /\ j.key # None
      BY <1>1, <1>2, <2>1 DEF JobKeyIsSet, Mutations, Aside
    <3>2. \A i \in jobs' : Writing(i) => i \in jobs /\ i.view # j.view
      BY <1>1, <2>1, <3>1 DEF IInv, Removals, Saving, Writing
    <3>3. view'.busy = IF Lives(j) THEN view.busy \ {Flag(j.op)} ELSE view.busy
      BY <1>1, <3>1 DEF Resting, IInv, Shapes, ViewShape
    <3>4. QED BY <1>1, <1>12, <3>2, <3>3 DEF IInv, Removals, Saving, Lives
  <2>2. CASE j.op \notin Mutations
    <3>1. "saving" \in view.busy => "saving" \in view'.busy
      BY <1>1, <2>2 DEF Resting, Flag, IInv, Shapes, ViewShape
    <3>2. QED BY <1>1, <1>12, <3>1 DEF IInv, Removals, Saving
  <2>3. QED BY <2>1, <2>2
<1>16. Gone'
  BY <1>1, <1>2 DEF IInv, Gone, Closing
<1>17. QED BY <1>1, <1>3, <1>4, <1>6, <1>9, <1>10, <1>11, <1>13, <1>14, <1>15, <1>16, Frame
             DEF IInv, Shapes, Coherent, Removals

-----------------------------------------------------------------------------
(* Answers of reads. *)

(* Whatever the server remembered of a key, its answer shows the key.      *)
LEMMA AnswerShows ==
  ASSUME NEW m, NEW s, NEW o, NEW a, a = GetData(m, s, o), a # Missing
  PROVE  Shows(a, s, o)
<1>1. Readable(m, s) /\ a = Page(Through(m, s), o)
  BY DEF GetData
<1>2. a.kind = m.kind /\ a.expires = m.expires
  BY <1>1 DEF Page, Through
<1>3. Through(a, s) = Through(m, s) /\ Readable(a, s)
  BY <1>1, <1>2 DEF Through, Readable
<1>4. QED BY <1>1, <1>3 DEF Shows

LEMMA AnswerKeeps ==
  ASSUME IInv, NEW c \in calls, Answer(c)
  PROVE  IInv'
<1>1. UNCHANGED <<stored, tabs, active, data, jobs, view, bulk, modal, busy, stale, removed, misfired>>
  BY DEF Answer, server, workspace, history
<1>2. /\ \A d \in calls : CallShape(d) /\ d.key \in Names /\ d.newest \in BOOLEAN /\ d.sound \in BOOLEAN
      /\ Sound /\ Asked
  BY DEF IInv, Shapes, CallsShape, Coherent
<1>3. PICK a : /\ a = Missing \/ Shows(a, stored[c.key], c.opts)
               /\ calls' = (calls \ {c}) \cup {[c EXCEPT !.answer = a]}
  <2>1. PICK a \in {GetData(m, stored[c.key], c.opts) : m \in remembered[c.key]}
                     \cup (IF stored[c.key] = None THEN {Missing} ELSE {}) :
               calls' = (calls \ {c}) \cup {[c EXCEPT !.answer = a]}
    BY DEF Answer
  <2>2. a = Missing \/ \E m \in remembered[c.key] : a = GetData(m, stored[c.key], c.opts)
    BY <2>1
  <2>3. a = Missing \/ Shows(a, stored[c.key], c.opts)
    BY <2>2, AnswerShows
  <2>4. QED BY <2>1, <2>3
<1>4. PICK e : e = [c EXCEPT !.answer = a]
  OBVIOUS
<1>5. calls' = (calls \ {c}) \cup {e}
  BY <1>3, <1>4
<1>6. /\ CallShape(e) /\ e.key = c.key /\ e.opts = c.opts /\ e.newest = c.newest /\ e.sound = c.sound
      /\ e.answer = a
  <2>1. c = [key |-> c.key, opts |-> c.opts, newest |-> c.newest, sound |-> c.sound, answer |-> c.answer]
    BY <1>2 DEF CallShape
  <2>2. e = [key |-> c.key, opts |-> c.opts, newest |-> c.newest, sound |-> c.sound, answer |-> a]
    BY <1>4, <2>1
  <2>3. QED BY <2>2 DEF CallShape
<1>7. CallsShape'
  BY <1>2, <1>5, <1>6 DEF CallsShape, CallShape
<1>8. Sound'
  BY <1>1, <1>2, <1>3, <1>5, <1>6 DEF Sound
<1>9. Asked'
  BY <1>1, <1>2, <1>5, <1>6 DEF Asked
<1>10. \A n \in Names : Newest(n)' = {} <=> Newest(n) = {}
  <2>1. \A n \in Names : c \in Newest(n) <=> e \in Newest(n)'
    BY <1>5, <1>6 DEF Newest
  <2>2. \A n \in Names, d \in calls \ {c} : d \in Newest(n) <=> d \in Newest(n)'
    BY <1>5 DEF Newest
  <2>3. \A n \in Names : Newest(n) \subseteq calls /\ Newest(n)' \subseteq (calls \ {c}) \cup {e}
    BY <1>5 DEF Newest
  <2>4. QED BY <2>1, <2>2, <2>3
<1>11. Fresh'
  BY <1>1, <1>10 DEF IInv, Coherent, Fresh, Unread
<1>12. Shown'
  BY <1>1, <1>5, <1>6, <1>10 DEF IInv, Coherent, Shown
<1>13. QED BY <1>1, <1>7, <1>8, <1>9, <1>11, <1>12, Frame DEF IInv, Shapes, Coherent, Removals

(* A read that ends leaves the others, and the newest of its key alone     *)
(* when it was not the newest itself.                                      *)
LEMMA ReadEnds ==
  ASSUME IInv, NEW c \in calls, calls' = calls \ {c}
  PROVE  /\ CallsShape'
         /\ UNCHANGED stored => Sound'
         /\ \A n \in Names : n # c.key \/ ~c.newest => Newest(n)' = Newest(n)
         /\ c.newest => \A d \in calls' : d.newest => d.key # c.key
<1>1. CallsShape'
  BY DEF IInv, Shapes, CallsShape, CallShape
<1>2. UNCHANGED stored => Sound'
  BY DEF IInv, Coherent, Sound
<1>3. \A n \in Names : n # c.key \/ ~c.newest => Newest(n)' = Newest(n)
  BY DEF Newest
<1>4. c.newest => \A d \in calls' : d.newest => d.key # c.key
  BY DEF IInv, Coherent, Asked
<1>5. QED BY <1>1, <1>2, <1>3, <1>4

(* What a tab shows after its read has ended. *)
LEMMA TabAfterRead ==
  ASSUME NEW d, NEW p, d = [opts |-> d.opts, page |-> d.page, loading |-> d.loading, err |-> d.err]
  PROVE  /\ [d EXCEPT !.page = p, !.loading = FALSE, !.err = FALSE]
              = [opts |-> d.opts, page |-> p, loading |-> FALSE, err |-> FALSE]
         /\ [d EXCEPT !.loading = FALSE, !.err = TRUE]
              = [opts |-> d.opts, page |-> d.page, loading |-> FALSE, err |-> TRUE]
<1>1. PICK o, q, l, e : d = [opts |-> o, page |-> q, loading |-> l, err |-> e]
  OBVIOUS
<1>2. d.opts = o /\ d.page = q
  BY <1>1
<1>3. [[opts |-> o, page |-> q, loading |-> l, err |-> e] EXCEPT !.page = p, !.loading = FALSE, !.err = FALSE]
        = [opts |-> o, page |-> p, loading |-> FALSE, err |-> FALSE]
  <2>1. PICK r : r = [[opts |-> o, page |-> q, loading |-> l, err |-> e]
                        EXCEPT !.page = p, !.loading = FALSE, !.err = FALSE]
    OBVIOUS
  <2>2. r = [opts |-> r.opts, page |-> r.page, loading |-> r.loading, err |-> r.err]
    BY <2>1
  <2>3. r.opts = o /\ r.page = p /\ r.loading = FALSE /\ r.err = FALSE
    BY <2>1
  <2>4. QED BY <2>1, <2>2, <2>3
<1>4. [[opts |-> o, page |-> q, loading |-> l, err |-> e] EXCEPT !.loading = FALSE, !.err = TRUE]
        = [opts |-> o, page |-> q, loading |-> FALSE, err |-> TRUE]
  <2>1. PICK r : r = [[opts |-> o, page |-> q, loading |-> l, err |-> e] EXCEPT !.loading = FALSE, !.err = TRUE]
    OBVIOUS
  <2>2. r = [opts |-> r.opts, page |-> r.page, loading |-> r.loading, err |-> r.err]
    BY <2>1
  <2>3. r.opts = o /\ r.page = q /\ r.loading = FALSE /\ r.err = TRUE
    BY <2>1
  <2>4. QED BY <2>1, <2>2, <2>3
<1>5. QED BY <1>1, <1>2, <1>3, <1>4, Zenon

LEMMA LandKeeps ==
  ASSUME IInv, NEW c \in calls, Land(c)
  PROVE  IInv'
<1>1. /\ UNCHANGED <<stored, tabs, active, jobs, view, bulk, modal, busy, removed, misfired>>
      /\ calls' = calls \ {c} /\ c.answer \notin {None, Missing}
      /\ c.key \in Names
  BY DEF Land, server, workspace, IInv, Shapes, CallsShape
<1>2. /\ CallsShape' /\ Sound'
      /\ \A n \in Names : n # c.key \/ ~c.newest => Newest(n)' = Newest(n)
      /\ c.newest => \A d \in calls' : d.newest => d.key # c.key
  BY <1>1, ReadEnds
<1>3. CASE ~c.newest
  <2>1. UNCHANGED <<data, stale>>
    BY <1>3 DEF Land, NewestPage
  <2>2. Asked'
    BY <1>1, <2>1 DEF IInv, Coherent, Asked
  <2>3. Fresh' /\ Shown'
    BY <1>1, <1>2, <1>3, <2>1 DEF IInv, Coherent, Fresh, Unread, Shown, Shapes, ViewShape
  <2>4. QED BY <1>1, <1>2, <2>1, <2>2, <2>3, Frame DEF IInv, Shapes, Coherent, Removals
<1>4. CASE c.newest
  <2>1. /\ data' = [data EXCEPT ![c.key].page = c.answer, ![c.key].loading = FALSE, ![c.key].err = FALSE]
        /\ stale' = IF c.opts = data[c.key].opts \/ ~c.sound
                    THEN [stale EXCEPT ![c.key] = ~c.sound] ELSE stale
    BY <1>4 DEF Land, NewestPage
  <2>2. /\ data = [n \in Names |-> [opts |-> data[n].opts, page |-> data[n].page,
                                    loading |-> data[n].loading, err |-> data[n].err]]
        /\ stale \in [Names -> BOOLEAN]
    BY DEF IInv, Shapes, DataShape, HistoryShape
  <2>3. data' = [data EXCEPT ![c.key] = [opts |-> data[c.key].opts, page |-> c.answer,
                                         loading |-> FALSE, err |-> FALSE]]
    <3>1. data[c.key] = [opts |-> data[c.key].opts, page |-> data[c.key].page,
                         loading |-> data[c.key].loading, err |-> data[c.key].err]
      BY <1>1, <2>2
    <3>2. [data[c.key] EXCEPT !.page = c.answer, !.loading = FALSE, !.err = FALSE]
            = [opts |-> data[c.key].opts, page |-> c.answer, loading |-> FALSE, err |-> FALSE]
      BY <3>1, TabAfterRead
    <3>3. data' = [data EXCEPT ![c.key] = [data[c.key] EXCEPT !.page = c.answer, !.loading = FALSE,
                                                              !.err = FALSE]]
      BY <1>1, <2>1, <2>2
    <3>4. QED BY <3>2, <3>3
  <2>4. /\ DataShape' /\ \A n \in Names \ {c.key} : data'[n] = data[n]
        /\ data'[c.key].opts = data[c.key].opts /\ data'[c.key].page = c.answer
    BY <1>1, <2>2, <2>3 DEF DataShape
  <2>5. HistoryShape' /\ \A n \in Names \ {c.key} : stale'[n] = stale[n]
    BY <1>1, <2>1, <2>2 DEF IInv, Shapes, HistoryShape
  <2>6. ~stale'[c.key] => c.sound /\ c.opts = data[c.key].opts
    <3>1. c.opts = data[c.key].opts \/ stale[c.key]
      BY <1>4 DEF IInv, Coherent, Asked
    <3>2. QED BY <1>1, <2>1, <2>2, <3>1
  <2>7. ~stale'[c.key] => Shows(data'[c.key].page, stored[c.key], data'[c.key].opts)
    BY <1>1, <2>4, <2>6 DEF IInv, Coherent, Sound
  <2>8. Asked'
    <3>1. \A d \in calls' : d.key \in Names
      BY <1>1 DEF IInv, Shapes, CallsShape
    <3>2. QED BY <1>1, <1>2, <1>4, <2>4, <2>5, <3>1 DEF IInv, Coherent, Asked
  <2>9. Fresh'
    BY <1>1, <1>2, <2>4, <2>5, <2>7 DEF IInv, Coherent, Fresh, Unread
  <2>10. Shown'
    BY <1>1, <1>2, <2>4 DEF IInv, Coherent, Shown
  <2>11. Current'
    <3>1. ~stale'[c.key] => \A i \in DOMAIN data'[c.key].page.rows :
             Holds(stored[c.key], i, data'[c.key].page.rows[i])
      BY <2>7, PageRows
    <3>2. QED BY <1>1, <2>4, <2>5, <2>7, <3>1 DEF IInv, Removals, Current, Own
  <2>12. QED BY <1>1, <1>2, <2>4, <2>5, <2>8, <2>9, <2>10, <2>11, Frame DEF IInv, Shapes, Coherent, Removals
<1>5. QED BY <1>3, <1>4

LEMMA FailKeeps ==
  ASSUME IInv, NEW c \in calls, Fail(c)
  PROVE  IInv'
<1>1. /\ UNCHANGED <<stored, tabs, active, jobs, view, bulk, modal, busy, removed, misfired>>
      /\ calls' = calls \ {c} /\ c.key \in Names
      /\ data' = IF c.newest THEN [data EXCEPT ![c.key].loading = FALSE, ![c.key].err = TRUE] ELSE data
      /\ stale' = [stale EXCEPT ![c.key] = TRUE]
  BY DEF Fail, NewestPage, server, workspace, IInv, Shapes, CallsShape
<1>2. /\ CallsShape' /\ Sound'
      /\ \A n \in Names : n # c.key \/ ~c.newest => Newest(n)' = Newest(n)
      /\ c.newest => \A d \in calls' : d.newest => d.key # c.key
  BY <1>1, ReadEnds
<1>3. /\ data = [n \in Names |-> [opts |-> data[n].opts, page |-> data[n].page,
                                  loading |-> data[n].loading, err |-> data[n].err]]
      /\ stale \in [Names -> BOOLEAN]
  BY DEF IInv, Shapes, DataShape, HistoryShape
<1>4. data' = IF c.newest
              THEN [data EXCEPT ![c.key] = [opts |-> data[c.key].opts, page |-> data[c.key].page,
                                            loading |-> FALSE, err |-> TRUE]]
              ELSE data
  <2>1. data[c.key] = [opts |-> data[c.key].opts, page |-> data[c.key].page,
                       loading |-> data[c.key].loading, err |-> data[c.key].err]
    BY <1>1, <1>3
  <2>2. [data[c.key] EXCEPT !.loading = FALSE, !.err = TRUE]
          = [opts |-> data[c.key].opts, page |-> data[c.key].page, loading |-> FALSE, err |-> TRUE]
    BY <2>1, TabAfterRead
  <2>3. c.newest => data' = [data EXCEPT ![c.key] = [data[c.key] EXCEPT !.loading = FALSE, !.err = TRUE]]
    BY <1>1, <1>3
  <2>4. QED BY <1>1, <2>2, <2>3
<1>5. /\ DataShape' /\ \A n \in Names \ {c.key} : data'[n] = data[n]
      /\ data'[c.key].opts = data[c.key].opts /\ data'[c.key].page = data[c.key].page
      /\ c.newest => data'[c.key].err
      /\ ~c.newest => data' = data
  <2>1. CASE c.newest
    <3>1. /\ data' = [data EXCEPT ![c.key] = data'[c.key]]
          /\ data'[c.key] = [opts |-> data[c.key].opts, page |-> data[c.key].page,
                             loading |-> FALSE, err |-> TRUE]
      BY <1>1, <1>3, <1>4, <2>1
    <3>2. /\ data'[c.key].opts = data[c.key].opts /\ data'[c.key].page = data[c.key].page
          /\ data'[c.key].err = TRUE
          /\ data'[c.key] = [opts |-> data'[c.key].opts, page |-> data'[c.key].page,
                             loading |-> data'[c.key].loading, err |-> data'[c.key].err]
      BY <3>1
    <3>3. data' = [n \in Names |-> data'[n]] /\ \A n \in Names \ {c.key} : data'[n] = data[n]
      BY <1>1, <1>3, <3>1
    <3>4. \A n \in Names : data'[n] = [opts |-> data'[n].opts, page |-> data'[n].page,
                                       loading |-> data'[n].loading, err |-> data'[n].err]
      BY <1>3, <3>2, <3>3
    <3>5. QED BY <1>1, <2>1, <3>2, <3>3, <3>4 DEF DataShape
  <2>2. CASE ~c.newest
    BY <1>1, <1>3, <2>2 DEF DataShape
  <2>3. QED BY <2>1, <2>2
<1>6. HistoryShape' /\ stale'[c.key] /\ \A n \in Names \ {c.key} : stale'[n] = stale[n]
  BY <1>1, <1>3 DEF IInv, Shapes, HistoryShape
<1>7. Asked'
  <2>1. \A d \in calls' : d.key \in Names
    BY <1>1 DEF IInv, Shapes, CallsShape
  <2>2. \A n \in Names : data'[n].opts = data[n].opts /\ (stale[n] => stale'[n])
    BY <1>5, <1>6
  <2>3. QED BY <1>1, <2>1, <2>2 DEF IInv, Coherent, Asked
<1>8. Fresh'
  BY ZenonT(60), <1>1, <1>2, <1>5, <1>6 DEF IInv, Coherent, Fresh, Unread
<1>9. Shown'
  BY <1>1, <1>2, <1>5 DEF IInv, Coherent, Shown
<1>10. Current'
  <2>1. \A n \in Names : data'[n].page = data[n].page /\ (stale[n] => stale'[n]) /\ Own(n)' = Own(n)
    BY <1>1, <1>5, <1>6 DEF Own
  <2>2. SUFFICES ASSUME NEW n \in Names, ~stale'[n], ~Own(n)', data'[n].page # None
                 PROVE  \A i \in DOMAIN data'[n].page.rows : Holds(stored'[n], i, data'[n].page.rows[i])
    BY DEF Current
  <2>3. ~stale[n] /\ ~Own(n) /\ data[n].page # None
    BY <2>1, <2>2
  <2>4. \A i \in DOMAIN data[n].page.rows : Holds(stored[n], i, data[n].page.rows[i])
    BY <2>3 DEF IInv, Removals, Current
  <2>5. QED BY <1>1, <2>1, <2>4
<1>11. QED BY <1>1, <1>2, <1>5, <1>6, <1>7, <1>8, <1>9, <1>10, Frame DEF IInv, Shapes, Coherent, Removals

-----------------------------------------------------------------------------
(* The server takes a write, of this client or of another. *)

(* Pages that were read before a key changed no longer count as sound.     *)
LEMMA OutdatedReads ==
  ASSUME IInv, NEW S \in SUBSET Names, calls' = Outdated(S),
         \A n \in Names \ S : stored'[n] = stored[n]
  PROVE  /\ CallsShape' /\ Sound'
         /\ \A n \in Names : Newest(n)' = {} <=> Newest(n) = {}
         /\ (UNCHANGED data /\ \A n \in Names : stale[n] => stale'[n]) => Asked'
         /\ UNCHANGED <<data, view>> => Shown'
<1>1. /\ \A d \in calls : CallShape(d) /\ d.key \in Names /\ d.newest \in BOOLEAN /\ d.sound \in BOOLEAN
      /\ Sound /\ Asked /\ Shown
  BY DEF IInv, Shapes, CallsShape, Coherent
<1>2. DEFINE After1(c) == IF c.key \in S THEN [c EXCEPT !.sound = FALSE] ELSE c
<1>3. calls' = {After1(c) : c \in calls}
  BY DEF Outdated
<1>4. ASSUME NEW c \in calls
      PROVE  /\ CallShape(After1(c)) /\ After1(c).key = c.key /\ After1(c).opts = c.opts
             /\ After1(c).newest = c.newest /\ After1(c).answer = c.answer
             /\ After1(c).sound \in BOOLEAN
             /\ After1(c).sound => After1(c) = c /\ c.key \notin S
  <2>1. CASE c.key \in S
    <3>1. c = [key |-> c.key, opts |-> c.opts, newest |-> c.newest, sound |-> c.sound, answer |-> c.answer]
      BY <1>1 DEF CallShape
    <3>2. PICK e : e = [c EXCEPT !.sound = FALSE]
      OBVIOUS
    <3>3. e = [key |-> c.key, opts |-> c.opts, newest |-> c.newest, sound |-> FALSE, answer |-> c.answer]
      BY <3>1, <3>2
    <3>4. After1(c) = e
      BY <2>1, <3>2
    <3>5. /\ CallShape(e) /\ e.key = c.key /\ e.opts = c.opts /\ e.newest = c.newest
          /\ e.answer = c.answer /\ e.sound = FALSE
      BY <3>3 DEF CallShape
    <3>6. HIDE DEF After1
    <3>7. QED BY <3>4, <3>5
  <2>2. CASE c.key \notin S
    <3>1. After1(c) = c
      BY <2>2
    <3>2. QED BY <1>1, <2>2, <3>1
  <2>3. QED BY <2>1, <2>2
<1>5. HIDE DEF After1
<1>6. CallsShape'
  BY <1>1, <1>3, <1>4 DEF CallsShape, CallShape
<1>7. Sound'
  BY <1>1, <1>3, <1>4 DEF Sound
<1>8. \A n \in Names : Newest(n)' = {} <=> Newest(n) = {}
  <2>1. \A n \in Names, c \in calls : c \in Newest(n) <=> After1(c) \in Newest(n)'
    BY <1>3, <1>4 DEF Newest
  <2>2. \A n \in Names : Newest(n) \subseteq calls /\ Newest(n)' \subseteq {After1(c) : c \in calls}
    BY <1>3 DEF Newest
  <2>3. QED BY <2>1, <2>2
<1>9. (UNCHANGED data /\ \A n \in Names : stale[n] => stale'[n]) => Asked'
  BY <1>1, <1>3, <1>4 DEF Asked
<1>10. UNCHANGED <<data, view>> => Shown'
  <2>1. \A c \in calls' : \E d \in calls : c.key = d.key
    BY <1>3, <1>4
  <2>2. QED BY <1>1, <1>8, <2>1 DEF Shown
<1>11. QED BY <1>6, <1>7, <1>8, <1>9, <1>10

(* Removals that were aimed at what the key was are no longer fair.           *)
Weighed(o, S) == IF o.key \in S THEN [o EXCEPT !.fair = FALSE] ELSE o
SameHandler(i, o, S) ==
  /\ JobShape(i) /\ i.op = o.op /\ i.key = o.key /\ i.view = o.view /\ i.stage = o.stage
  /\ i.at = o.at /\ i.seen = o.seen /\ i.to = o.to /\ i.applied = o.applied
  /\ i.fair = IF o.key \in S THEN FALSE ELSE o.fair

LEMMA WeighedJobs ==
  ASSUME IInv, NEW S, NEW o \in jobs, NEW i, i = Weighed(o, S)
  PROVE  SameHandler(i, o, S)
<1>1. o = [op |-> o.op, key |-> o.key, view |-> o.view, editor |-> o.editor, stage |-> o.stage,
           at |-> o.at, value |-> o.value, seen |-> o.seen, fair |-> o.fair, to |-> o.to,
           waits |-> o.waits, applied |-> o.applied]
  BY DEF IInv, Shapes, JobsShape, JobShape
<1>2. CASE o.key \in S
  <2>1. i = [o EXCEPT !.fair = FALSE]
    BY <1>2 DEF Weighed
  <2>2. QED BY <1>1, <1>2, <2>1 DEF JobShape, SameHandler
<1>3. CASE o.key \notin S
  BY <1>1, <1>3 DEF Weighed, JobShape, SameHandler
<1>4. QED BY <1>2, <1>3

(* The handlers beside the one whose request was taken, if it was one's    *)
(* own, are weighed.                                                       *)
Taken(i, j) ==
  /\ JobShape(i) /\ i.op = j.op /\ i.key = j.key /\ i.view = j.view /\ i.to = j.to /\ i.fair = j.fair
  /\ j.stage = "asked" /\ i.stage \in {"done", "refused"} /\ (i.applied <=> i.stage = "done")
  /\ i.applied \in BOOLEAN

LEMMA JobsAreWeighed ==
  ASSUME IInv, NEW S \in SUBSET Names, NEW old, NEW new,
         jobs' = {Weighed(o, S) : o \in jobs \ old} \cup new,
         \/ old = {} /\ new = {}
         \/ \E j \in jobs : \E i : old = {j} /\ new = {i} /\ Taken(i, j),
         \A n \in Names \ S : stored'[n] = stored[n],
         UNCHANGED view
  PROVE  /\ JobsShape' /\ Saving' /\ AimedWell'
         /\ \A n \in Names : (Unread(n) => Unread(n)') /\ (Own(n) => Own(n)')
         /\ \A o \in jobs : Closing(o) => \E i \in jobs' : i.key = o.key /\ Closing(i)
<1>1. \A o \in jobs : \A i : i = Weighed(o, S) => SameHandler(i, o, S)
  BY WeighedJobs
<1>2. ASSUME NEW i \in jobs'
      PROVE  \/ \E o \in jobs \ old : i = Weighed(o, S) /\ SameHandler(i, o, S)
             \/ \E j \in jobs : old = {j} /\ new = {i} /\ Taken(i, j)
  <2>1. CASE i \in new
    BY <2>1
  <2>2. CASE i \notin new
    <3>1. PICK o \in jobs \ old : i = Weighed(o, S)
      BY <2>2
    <3>2. SameHandler(i, o, S)
      BY <1>1, <3>1
    <3>3. QED BY <3>1, <3>2
  <2>3. QED BY <2>1, <2>2
<1>3. ASSUME NEW o \in jobs \ old
      PROVE  \E i \in jobs' : SameHandler(i, o, S)
  <2>1. PICK i : i = Weighed(o, S)
    OBVIOUS
  <2>2. QED BY <1>1, <2>1
<1>4. /\ IsFiniteSet(jobs)
      /\ \A j \in jobs :
           /\ JobShape(j) /\ j.op \in Ops /\ j.applied \in BOOLEAN /\ j.fair \in BOOLEAN
           /\ JobKeyIsSet(j)
           /\ j.applied <=> j.stage \in {"done", "reload", "tree", "closing"}
           /\ j.stage \in {"asked", "refused", "done", "reload", "tree", "closing"}
           /\ j.stage = "reload" => j.op \in Mutations
           /\ j.stage = "closing" => j.op = "delete"
  BY DEF IInv, Shapes, JobsShape
<1>a. ASSUME NEW i \in jobs'
       PROVE  \E o \in jobs :
                /\ i.op = o.op /\ i.key = o.key /\ i.view = o.view /\ i.to = o.to
                /\ o.key \notin S => i.fair = o.fair
                /\ i.stage = "closing" <=> o.stage = "closing"
                /\ o \notin old => i = Weighed(o, S)
                /\ o \in old => new = {i}
  <2>1. CASE \E o \in jobs \ old : i = Weighed(o, S) /\ SameHandler(i, o, S)
    BY <2>1 DEF SameHandler
  <2>2. CASE \E j \in jobs : old = {j} /\ new = {i} /\ Taken(i, j)
    BY <2>2 DEF Taken
  <2>3. QED BY <1>2, <2>1, <2>2
<1>5. JobsShape'
  <2>1. IsFiniteSet(jobs')
    <3>1. IsFiniteSet(jobs \ old)
      BY <1>4, FS_Subset
    <3>2. PICK f : f = [o \in jobs \ old |-> Weighed(o, S)]
      OBVIOUS
    <3>3. /\ {Weighed(o, S) : o \in jobs \ old} = {f[x] : x \in jobs \ old}
          /\ DOMAIN f = jobs \ old /\ f = [x \in jobs \ old |-> f[x]]
      BY <3>2
    <3>4. IsFiniteSet({f[x] : x \in jobs \ old})
      BY <3>1, <3>3, ImageIsFinite
    <3>5. IsFiniteSet({Weighed(o, S) : o \in jobs \ old})
      BY <3>3, <3>4
    <3>6. new = {} \/ \E i : new = {i}
      OBVIOUS
    <3>7. QED BY <3>5, <3>6, FS_AddElement
  <2>2. ASSUME NEW i \in jobs'
        PROVE  /\ JobShape(i) /\ i.op \in Ops /\ i.applied \in BOOLEAN /\ i.fair \in BOOLEAN
               /\ JobKeyIsSet(i)
               /\ i.applied <=> i.stage \in {"done", "reload", "tree", "closing"}
               /\ i.stage \in {"asked", "refused", "done", "reload", "tree", "closing"}
               /\ i.stage = "reload" => i.op \in Mutations
               /\ i.stage = "closing" => i.op = "delete"
    <3>1. CASE \E o \in jobs \ old : SameHandler(i, o, S)
      BY <1>4, <3>1 DEF SameHandler, JobKeyIsSet
    <3>2. CASE \E j \in jobs : Taken(i, j)
      <4>1. PICK j \in jobs : Taken(i, j)
        BY <3>2
      <4>2. j.op \in Ops /\ j.fair \in BOOLEAN /\ JobKeyIsSet(j)
        BY <1>4
      <4>3. JobKeyIsSet(i)
        BY <4>1, <4>2 DEF Taken, JobKeyIsSet
      <4>4. QED BY <4>1, <4>2, <4>3 DEF Taken
    <3>3. QED BY <1>2, <3>1, <3>2
  <2>3. QED BY <2>1, <2>2 DEF JobsShape, JobShape, JobKeyIsSet
<1>6. Saving'
  <2>1. /\ \A j \in jobs : Writing(j) /\ view.key # None /\ j.view = view.id => "saving" \in view.busy
        /\ \A i, j \in jobs : Writing(i) /\ Writing(j) /\ i.view = j.view => i = j
    BY DEF IInv, Removals, Saving
  <2>2. \A i \in jobs' : Writing(i) /\ view.key # None /\ i.view = view.id => "saving" \in view.busy
    BY <1>a, <2>1 DEF Writing
  <2>3. ASSUME NEW i \in jobs', NEW j \in jobs', Writing(i), Writing(j), i.view = j.view
        PROVE  i = j
    <3>1. PICK o \in jobs : /\ Writing(o) /\ i.view = o.view
                            /\ (o \notin old => i = Weighed(o, S)) /\ (o \in old => new = {i})
      BY <1>a, <2>3 DEF Writing
    <3>2. PICK q \in jobs : /\ Writing(q) /\ j.view = q.view
                            /\ (q \notin old => j = Weighed(q, S)) /\ (q \in old => new = {j})
      BY <1>a, <2>3 DEF Writing
    <3>3. o = q
      BY <2>1, <2>3, <3>1, <3>2
    <3>4. QED BY <3>1, <3>2, <3>3
  <2>4. QED BY <2>2, <2>3 DEF Saving, Writing
<1>7. AimedWell'
  <2>1. \A j \in jobs : j.op = "remove" => j.key \in Names
    BY <1>4 DEF JobKeyIsSet, Aside
  <2>2. \A j \in jobs : j.fair /\ j.stage = "asked" /\ j.op = "remove" =>
          Holds(stored[j.key], j.at, j.seen)
    BY DEF IInv, Removals, AimedWell
  <2>3. ASSUME NEW i \in jobs', i.fair, i.stage = "asked", i.op = "remove"
        PROVE  Holds(stored'[i.key], i.at, i.seen)
    <3>1. PICK o \in jobs : SameHandler(i, o, S)
      BY <1>2, <2>3 DEF Taken
    <3>2. /\ o.fair /\ o.key \notin S /\ o.stage = "asked" /\ o.op = "remove"
          /\ i.key = o.key /\ i.at = o.at /\ i.seen = o.seen
      BY <2>3, <3>1 DEF SameHandler
    <3>3. stored'[o.key] = stored[o.key]
      BY <2>1, <3>2
    <3>4. QED BY <2>2, <3>2, <3>3
  <2>4. QED BY <2>3 DEF AimedWell
<1>8. \A o \in jobs : o.stage # "asked" => o \notin old
  BY DEF Taken
<1>9. \A n \in Names : (Unread(n) => Unread(n)') /\ (Own(n) => Own(n)')
  <2>1. ASSUME NEW n \in Names, Unread(n)
        PROVE  Unread(n)'
    <3>1. PICK o \in jobs \ old : Mine(o, n) /\ o.stage = "done"
      BY <1>8, <2>1 DEF Unread
    <3>2. PICK i \in jobs' : SameHandler(i, o, S)
      BY <1>3
    <3>3. Mine(i, n) /\ i.stage = "done"
      BY <3>1, <3>2 DEF SameHandler, Mine
    <3>4. QED BY <3>3 DEF Unread, Mine
  <2>2. ASSUME NEW n \in Names, Own(n)
        PROVE  Own(n)'
    <3>1. PICK o \in jobs \ old : Mine(o, n) /\ o.stage \in {"done", "reload"}
      BY <1>8, <2>2 DEF Own
    <3>2. PICK i \in jobs' : SameHandler(i, o, S)
      BY <1>3
    <3>3. Mine(i, n) /\ i.stage \in {"done", "reload"}
      BY <3>1, <3>2 DEF SameHandler, Mine
    <3>4. QED BY <3>3 DEF Own, Mine
  <2>3. QED BY <2>1, <2>2
<1>10. ASSUME NEW o \in jobs, Closing(o)
       PROVE  \E i \in jobs' : i.key = o.key /\ Closing(i)
  <2>1. o.stage # "asked"
    <3>1. o.applied
      BY <1>10 DEF Closing
    <3>2. QED BY <1>4, <3>1
  <2>2. PICK i \in jobs' : SameHandler(i, o, S)
    BY <1>3, <1>8, <2>1
  <2>3. QED BY <1>10, <2>2 DEF Closing, SameHandler
<1>11. QED BY <1>5, <1>6, <1>7, <1>9, <1>10

(* The end of both: what was changed under a page leaves the key stale or  *)
(* with its own writer's reload to come.                                   *)
LEMMA ChangesAreKnown ==
  ASSUME IInv, NEW S \in SUBSET Names, calls' = Outdated(S),
         \A n \in Names \ S : stored'[n] = stored[n],
         \A n \in Names : (Unread(n) => Unread(n)') /\ (Own(n) => Own(n)') /\ (stale[n] => stale'[n]),
         \A n \in S : stale'[n] \/ (Unread(n)' /\ Own(n)'),
         UNCHANGED <<data, view>>
  PROVE  Coherent' /\ CallsShape' /\ Current'
<1>1. /\ CallsShape' /\ Sound' /\ Asked' /\ Shown'
      /\ \A n \in Names : Newest(n)' = {} <=> Newest(n) = {}
  BY OutdatedReads
<1>2. Fresh'
  <2>1. SUFFICES ASSUME NEW n \in Names, ~stale'[n], ~Unread(n)', Newest(n)' = {}, data'[n].page # None
                 PROVE  Shows(data'[n].page, stored'[n], data'[n].opts)
    BY DEF Fresh
  <2>2. n \notin S /\ ~stale[n] /\ ~Unread(n) /\ Newest(n) = {} /\ data[n].page # None
    BY <1>1, <2>1
  <2>3. Shows(data[n].page, stored[n], data[n].opts)
    BY <2>2 DEF IInv, Coherent, Fresh
  <2>4. QED BY <2>2, <2>3
<1>3. Current'
  <2>1. SUFFICES ASSUME NEW n \in Names, ~stale'[n], ~Own(n)', data'[n].page # None
                 PROVE  \A i \in DOMAIN data'[n].page.rows : Holds(stored'[n], i, data'[n].page.rows[i])
    BY DEF Current
  <2>2. n \notin S /\ ~stale[n] /\ ~Own(n) /\ data[n].page # None
    BY <2>1
  <2>3. \A i \in DOMAIN data[n].page.rows : Holds(stored[n], i, data[n].page.rows[i])
    BY <2>2 DEF IInv, Removals, Current
  <2>4. QED BY <2>2, <2>3
<1>4. QED BY <1>1, <1>2, <1>3 DEF Coherent

(* A request of this client's: nothing comes of it, or what it says.       *)
LEMMA RefusedKeeps ==
  ASSUME IInv, NEW j \in jobs, (Apply(j) /\ ~Moves(j)) \/ LookupMisses(j)
  PROVE  IInv'
<1>1. /\ UNCHANGED <<stored, tabs, active, data, calls, view, bulk, modal, busy, stale, removed, misfired>>
      /\ jobs' = (jobs \ {j}) \cup {[j EXCEPT !.stage = "refused"]} /\ j.stage = "asked"
  BY DEF Apply, LookupMisses, server, workspace, history
<1>2. PICK i : i = [j EXCEPT !.stage = "refused"]
  OBVIOUS
<1>3. j = [op |-> j.op, key |-> j.key, view |-> j.view, editor |-> j.editor, stage |-> j.stage,
           at |-> j.at, value |-> j.value, seen |-> j.seen, fair |-> j.fair, to |-> j.to,
           waits |-> j.waits, applied |-> j.applied]
  BY DEF IInv, Shapes, JobsShape, JobShape
<1>4. i = [op |-> j.op, key |-> j.key, view |-> j.view, editor |-> j.editor, stage |-> "refused",
           at |-> j.at, value |-> j.value, seen |-> j.seen, fair |-> j.fair, to |-> j.to,
           waits |-> j.waits, applied |-> j.applied]
  BY <1>2, <1>3
<1>5. Taken(i, j)
  <2>1. j.applied = FALSE
    BY <1>1 DEF IInv, Shapes, JobsShape
  <2>2. QED BY <1>1, <1>4, <2>1 DEF Taken, JobShape
<1>6. jobs' = {Weighed(o, {}) : o \in jobs \ {j}} \cup {i}
  BY <1>1, <1>2 DEF Weighed
<1>7. /\ JobsShape' /\ Saving' /\ AimedWell'
      /\ \A n \in Names : (Unread(n) => Unread(n)') /\ (Own(n) => Own(n)')
      /\ \A o \in jobs : Closing(o) => \E q \in jobs' : q.key = o.key /\ Closing(q)
  <2>1. DEFINE S == {}
               old == {j}
               new == {i}
  <2>2. jobs' = {Weighed(o, S) : o \in jobs \ old} \cup new
    BY <1>6
  <2>3. \E q \in jobs : \E e : old = {q} /\ new = {e} /\ Taken(e, q)
    BY <1>5
  <2>4. S \in SUBSET Names /\ \A n \in Names \ S : stored'[n] = stored[n]
    BY <1>1
  <2>5. HIDE DEF S, old, new
  <2>6. QED BY <1>1, <2>2, <2>3, <2>4, JobsAreWeighed
<1>8. Fresh' /\ Current'
  BY <1>1, <1>7 DEF IInv, Coherent, Removals, Fresh, Current, Newest
<1>9. Gone'
  BY <1>1, <1>7 DEF IInv, Gone
<1>10. QED BY <1>1, <1>7, <1>8, <1>9, Frame DEF IInv, Shapes, Coherent, Removals

LEMMA ServerKeepsItsShape ==
  ASSUME IInv, NEW j \in jobs
  PROVE  /\ After(j) = [k \in Names |-> After(j)[k]]
         /\ j.op \in {"delete", "rename"} =>
              /\ After(j)[j.key] = None \/ j.key = j.to
              /\ \A n \in Names \ {j.key, j.to} : After(j)[n] = stored[n]
<1>1. stored = [k \in Names |-> stored[k]]
  BY DEF IInv, Shapes, ServerShape
<1>2. j.op \in Ops /\ JobKeyIsSet(j)
  BY DEF IInv, Shapes, JobsShape
<1>3. CASE j.op = "delete"
  <2>1. After(j) = [stored EXCEPT ![j.key] = None]
    BY <1>3 DEF After
  <2>2. j.key \in Names
    BY <1>2, <1>3 DEF JobKeyIsSet, Aside
  <2>3. QED BY <1>1, <2>1, <2>2
<1>4. CASE j.op \in Mutations \ {"delete"}
  BY <1>1, <1>4 DEF After, Mutations
<1>5. CASE j.op = "rename"
  BY <1>1, <1>2, <1>5 DEF After, Mutations, JobKeyIsSet, Aside
<1>6. CASE j.op = "copy"
  BY <1>1, <1>6 DEF After, Mutations
<1>7. CASE j.op = "bulk"
  BY <1>1, <1>7 DEF After, Mutations
<1>8. CASE j.op = "create"
  BY <1>1, <1>8 DEF After, Mutations
<1>9. CASE j.op \in {"export", "preview", "lookup"}
  BY <1>1, <1>9 DEF After, Mutations
<1>10. QED BY <1>2, <1>3, <1>4, <1>5, <1>6, <1>7, <1>8, <1>9 DEF Ops

LEMMA AcceptedKeeps ==
  ASSUME IInv, NEW j \in jobs, Apply(j), Moves(j)
  PROVE  IInv'
<1>1. DEFINE changed == {k \in Names : After(j)[k] # stored[k]}
<1>2. /\ UNCHANGED <<tabs, active, data, view, bulk, modal, busy>>
      /\ j.stage = "asked"
      /\ stored' = After(j)
      /\ jobs' = {IF o # j /\ o.key \in changed THEN [o EXCEPT !.fair = FALSE] ELSE o : o \in jobs \ {j}} \cup
               {[j EXCEPT !.stage = "done", !.applied = TRUE,
                          !.seen = IF j.op \in {"preview", "bulk"} THEN Matching(j.to) ELSE @]}
      /\ calls' = Outdated(changed)
      /\ stale' = [k \in Names |-> stale[k] \/ k \in IF j.op \in Mutations THEN changed \ {j.key} ELSE changed]
      /\ removed' = IF j.op \in {"delete", "rename"} THEN (removed \cup {j.key}) \ {j.to}
                    ELSE {k \in removed : After(j)[k] = None}
      /\ misfired' = (misfired \/
               (j.op = "remove" /\ j.fair /\ stored[j.key].at[j.at] # j.seen))
  BY DEF Apply
<1>3. changed \in SUBSET Names /\ \A n \in Names \ changed : stored'[n] = stored[n]
  BY <1>2
<1>4. /\ JobKeyIsSet(j) /\ j.op \in Ops /\ j.fair \in BOOLEAN
      /\ stale \in [Names -> BOOLEAN] /\ removed \subseteq Names
  BY DEF IInv, Shapes, JobsShape, HistoryShape
<1>5. PICK i : i = [j EXCEPT !.stage = "done", !.applied = TRUE,
                             !.seen = IF j.op \in {"preview", "bulk"} THEN Matching(j.to) ELSE @]
  OBVIOUS
<1>6. j = [op |-> j.op, key |-> j.key, view |-> j.view, editor |-> j.editor, stage |-> j.stage,
           at |-> j.at, value |-> j.value, seen |-> j.seen, fair |-> j.fair, to |-> j.to,
           waits |-> j.waits, applied |-> j.applied]
  BY DEF IInv, Shapes, JobsShape, JobShape
<1>7. PICK x : x = IF j.op \in {"preview", "bulk"} THEN Matching(j.to) ELSE j.seen
  OBVIOUS
<1>8. i = [op |-> j.op, key |-> j.key, view |-> j.view, editor |-> j.editor, stage |-> "done",
           at |-> j.at, value |-> j.value, seen |-> x, fair |-> j.fair, to |-> j.to,
           waits |-> j.waits, applied |-> TRUE]
  BY <1>5, <1>6, <1>7
<1>9. Taken(i, j) /\ i.applied /\ i.stage = "done"
  BY <1>2, <1>8 DEF Taken, JobShape
<1>10. jobs' = {Weighed(o, changed) : o \in jobs \ {j}} \cup {i}
  BY <1>2, <1>5 DEF Weighed
<1>11. HIDE DEF changed
<1>12. /\ JobsShape' /\ Saving' /\ AimedWell'
       /\ \A n \in Names : (Unread(n) => Unread(n)') /\ (Own(n) => Own(n)')
       /\ \A o \in jobs : Closing(o) => \E q \in jobs' : q.key = o.key /\ Closing(q)
  <2>1. DEFINE old == {j}
               new == {i}
  <2>2. jobs' = {Weighed(o, changed) : o \in jobs \ old} \cup new
    BY <1>10
  <2>3. \E q \in jobs : \E e : old = {q} /\ new = {e} /\ Taken(e, q)
    BY <1>9
  <2>4. HIDE DEF old, new
  <2>5. QED BY <1>2, <1>3, <2>2, <2>3, JobsAreWeighed
<1>13. HistoryShape' /\ \A n \in Names : stale[n] => stale'[n]
  BY <1>2, <1>3, <1>4 DEF HistoryShape, JobKeyIsSet, Aside
<1>14. ASSUME NEW n \in changed
       PROVE  stale'[n] \/ (Unread(n)' /\ Own(n)')
  <2>1. CASE j.op \in Mutations /\ n = j.key
    <3>1. i \in jobs' /\ Mine(i, n) /\ i.stage = "done"
      BY <1>9, <1>10, <2>1 DEF Mine, Taken
    <3>2. QED BY <3>1 DEF Unread, Own, Mine
  <2>2. CASE ~(j.op \in Mutations /\ n = j.key)
    BY <1>2, <1>3, <2>2
  <2>3. QED BY <2>1, <2>2
<1>15. Coherent' /\ CallsShape' /\ Current'
  BY <1>2, <1>3, <1>12, <1>13, <1>14, ChangesAreKnown
<1>16. ServerShape'
  BY <1>2, ServerKeepsItsShape DEF ServerShape
<1>17. Gone'
  <2>1. SUFFICES ASSUME NEW n \in removed'
                 PROVE  /\ stored'[n] = None
                        /\ n \in Range(tabs) => \E q \in jobs' : q.key = n /\ Closing(q)
    BY <1>2 DEF Gone, Closing
  <2>2. n \in removed =>
          stored[n] = None /\ (n \in Range(tabs) => \E q \in jobs' : q.key = n /\ Closing(q))
    BY <1>12 DEF IInv, Gone
  <2>3. CASE j.op \in {"delete", "rename"} /\ n = j.key
    <3>1. n # j.to
      BY <1>2, <2>1, <2>3
    <3>2. stored'[n] = None
      BY <1>2, <2>3, <3>1, ServerKeepsItsShape
    <3>3. i \in jobs' /\ i.key = n /\ Closing(i)
      BY <1>9, <1>10, <2>3 DEF Closing, Taken
    <3>4. QED BY <3>2, <3>3
  <2>4. CASE j.op \in {"delete", "rename"} /\ n # j.key
    <3>1. n \in removed /\ n # j.to
      BY <1>2, <2>1, <2>4
    <3>2. stored'[n] = stored[n]
      BY <1>2, <1>4, <2>4, <3>1, ServerKeepsItsShape
    <3>3. QED BY <2>2, <3>1, <3>2
  <2>5. CASE j.op \notin {"delete", "rename"}
    BY <1>2, <2>1, <2>2, <2>5
  <2>6. QED BY <2>3, <2>4, <2>5
<1>18. Hits'
  BY <1>2 DEF IInv, Removals, Hits, AimedWell, Holds
<1>19. QED BY <1>2, <1>12, <1>13, <1>15, <1>16, <1>17, <1>18, Frame DEF IInv, Shapes, Removals

LEMMA ElsewhereKeeps ==
  ASSUME IInv, NEW k \in Names, NEW x, Elsewhere(k, x)
  PROVE  IInv'
<1>1. /\ UNCHANGED <<tabs, active, data, view, bulk, modal, busy, removed, misfired>>
      /\ stored[k] # None
      /\ stored' = [stored EXCEPT ![k].at =
           CASE stored[k].kind = "list" -> Pushed(@, TRUE, x)
             [] stored[k].kind = "stream" -> Set(@, Cardinality(DOMAIN @), x)
             [] OTHER -> Set(@, 0, x)]
      /\ calls' = Outdated({k})
      /\ jobs' = {IF j.key = k THEN [j EXCEPT !.fair = FALSE] ELSE j : j \in jobs}
      /\ stale' = [stale EXCEPT ![k] = TRUE]
  BY DEF Elsewhere, workspace
<1>2. stored = [n \in Names |-> stored[n]] /\ stale \in [Names -> BOOLEAN] /\ removed \subseteq Names
  BY DEF IInv, Shapes, ServerShape, HistoryShape
<1>3. /\ stored' = [n \in Names |-> stored'[n]] /\ {k} \in SUBSET Names
      /\ \A n \in Names \ {k} : stored'[n] = stored[n]
  BY <1>1, <1>2
<1>4. jobs' = {Weighed(o, {k}) : o \in jobs \ {}} \cup {}
  BY <1>1 DEF Weighed
<1>5. /\ JobsShape' /\ Saving' /\ AimedWell'
      /\ \A n \in Names : (Unread(n) => Unread(n)') /\ (Own(n) => Own(n)')
      /\ \A o \in jobs : Closing(o) => \E q \in jobs' : q.key = o.key /\ Closing(q)
  <2>1. DEFINE S == {k}
               old == {}
               new == {}
  <2>2. jobs' = {Weighed(o, S) : o \in jobs \ old} \cup new
    BY <1>4
  <2>3. \/ old = {} /\ new = {}
        \/ \E q \in jobs : \E e : old = {q} /\ new = {e} /\ Taken(e, q)
    OBVIOUS
  <2>4. S \in SUBSET Names /\ \A n \in Names \ S : stored'[n] = stored[n]
    BY <1>3
  <2>5. HIDE DEF S, old, new
  <2>6. QED BY <1>1, <2>2, <2>3, <2>4, JobsAreWeighed
<1>6. HistoryShape' /\ \A n \in Names : stale[n] => stale'[n]
  BY <1>1, <1>2 DEF HistoryShape
<1>7. \A n \in {k} : stale'[n] \/ (Unread(n)' /\ Own(n)')
  BY <1>1, <1>2
<1>8. Coherent' /\ CallsShape' /\ Current'
  BY <1>1, <1>3, <1>5, <1>6, <1>7, ChangesAreKnown
<1>9. Gone'
  <2>1. k \notin removed
    BY <1>1 DEF IInv, Gone
  <2>2. SUFFICES ASSUME NEW n \in removed
                 PROVE  /\ stored'[n] = None
                        /\ n \in Range(tabs) => \E q \in jobs' : q.key = n /\ Closing(q)
    BY <1>1 DEF Gone, Closing
  <2>3. stored[n] = None /\ (n \in Range(tabs) => \E o \in jobs : o.key = n /\ Closing(o))
    BY DEF IInv, Gone
  <2>4. stored'[n] = stored[n]
    BY <1>2, <1>3, <2>1
  <2>5. QED BY <1>5, <2>3, <2>4
<1>10. ServerShape'
  BY <1>3 DEF ServerShape
<1>11. QED BY <1>1, <1>5, <1>6, <1>8, <1>9, <1>10, Frame DEF IInv, Shapes, Removals

-----------------------------------------------------------------------------
(* The tabs that were restored are the keys there are, each once.          *)
LEMMA RestoredTabs ==
  ASSUME NEW S \in SUBSET Names
  PROVE  SetToSeq(S) \in Seq(Names) /\ IsInjective(SetToSeq(S))
<1>1. IsFiniteSet(S)
  BY RedisKeysAssumption, FS_Subset
<1>2. Cardinality(S) \in Nat /\ ExistsBijection(1..Cardinality(S), S)
  BY <1>1, FS_CardinalityType
<1>3. PICK f : f \in Bijection(1..Cardinality(S), S)
  BY <1>2 DEF ExistsBijection
<1>4. f \in [1..Cardinality(S) -> S] /\ IsInjective(f)
  BY <1>3 DEF Bijection, Injection, IsInjective
<1>5. SetToSeq(S) \in [1..Cardinality(S) -> S] /\ IsInjective(SetToSeq(S))
  BY <1>4 DEF SetToSeq
<1>6. QED BY <1>2, <1>5

LEMMA InitHolds ==
  ASSUME KeysInit
  PROVE  IInv
<1>1. /\ stored \in Stores
      /\ tabs = SetToSeq({k \in Names : stored[k] # None})
      /\ active = IF tabs = <<>> THEN None ELSE tabs[1]
      /\ data = [k \in Names |-> [opts |-> DefaultOpts, page |-> None, loading |-> FALSE, err |-> FALSE]]
      /\ calls = {} /\ jobs = {} /\ view = Idle
      /\ bulk = [pattern |-> CHOOSE p \in Patterns : TRUE, count |-> None]
      /\ modal = None
      /\ stale = [k \in Names |-> FALSE] /\ removed = {} /\ misfired = FALSE
  BY DEF KeysInit
<1>2. TabsShape
  BY <1>1, RestoredTabs DEF TabsShape
<1>3. active \in Names \cup {None}
  BY <1>1, <1>2 DEF TabsShape
<1>4. view = [key |-> None, id |-> 0, busy |-> {}, editor |-> NoEditor]
  BY <1>1 DEF Idle
<1>5. ViewShape
  BY <1>1, <1>3, <1>4, RedisKeysAssumption DEF ViewShape
<1>6. JobsShape
  BY <1>1, FS_EmptySet DEF JobsShape
<1>7. ServerShape
  BY <1>1, RedisKeysAssumption DEF ServerShape
<1>8. DataShape
  BY <1>1 DEF DataShape
<1>9. CallsShape /\ HistoryShape
  BY <1>1 DEF CallsShape, HistoryShape
<1>10. Gone
  BY <1>1 DEF Gone
<1>11. Coherent
  BY <1>1, <1>4, RedisKeysAssumption DEF Coherent, Sound, Asked, Fresh, Shown
<1>12. Removals
  BY <1>1 DEF Removals, Current, Saving, AimedWell, Hits
<1>13. QED BY <1>2, <1>5, <1>6, <1>7, <1>8, <1>9, <1>10, <1>11, <1>12 DEF IInv, Shapes

LEMMA EffectsKeep ==
  ASSUME IInv, Effects
  PROVE  IInv'
<1>1. CASE ViewFollows
  BY <1>1, ViewFollowsKeeps
<1>2. CASE EditorFollows
  BY <1>2, EditorFollowsKeeps
<1>3. ASSUME NEW j \in jobs, Reloaded(j)
      PROVE  IInv'
  BY <1>3, ReloadedKeeps
<1>4. QED BY <1>1, <1>2, <1>3 DEF Effects

LEMMA GesturesKeep ==
  ASSUME IInv, (\E k \in Names : Show(k)) \/ Close \/ Leave \/ Refresh \/ Editing \/ Dialogs \/ Sidebar
  PROVE  IInv'
<1>1. ASSUME NEW k \in Names, Show(k)
      PROVE  IInv'
  BY <1>1, ShowKeeps
<1>2. CASE Close
  BY <1>2, CloseKeeps
<1>3. CASE Leave
  BY <1>3, LeaveKeeps
<1>4. CASE Refresh
  BY <1>4, PagingKeeps
<1>5. CASE Editing
  <2>1. CASE CancelEdit \/ \E i \in Addresses : BeginEdit(i)
    BY <2>1, DraftsKeep
  <2>2. CASE \/ \E x \in Texts : SaveEdit(x)
             \/ \E i \in Addresses : RemoveElement(i)
             \/ \E i \in Addresses, x \in Texts : InsertElement(i, x)
    BY <2>2, EditingKeeps
  <2>3. CASE NextPage \/ PrevPage \/ LoadOlder \/ LoadNewer
    BY <2>3, PagingKeeps
  <2>4. QED BY <1>5, <2>1, <2>2, <2>3 DEF Editing
<1>6. CASE Dialogs
  <2>1. CASE CloseDialog \/ \E d \in KeyDialogs : Opening(d)
    BY <2>1, DialogsKeep
  <2>2. CASE ConfirmDelete \/ \E x \in BOOLEAN : ConfirmTTL(x)
    BY <2>2, ConfirmingKeeps
  <2>3. CASE (\E n \in Names : RenameKey(n)) \/ (\E n \in Names \cup {None} : DuplicateKey(n)) \/ CopyAsJson
    BY <2>3, ViewHandlersKeep
  <2>4. QED BY <1>6, <2>1, <2>2, <2>3 DEF Dialogs
<1>7. CASE Sidebar
  <2>1. ASSUME NEW p \in Patterns, ChangePattern(p)
        PROVE  IInv'
    BY <2>1, ChangePatternKeeps
  <2>2. CASE \/ RunPreview \/ RunDelete \/ \E n \in Names : HandleLookup(n)
             \/ \E n \in Names, kind \in NewKinds, x \in Texts : HandleCreateKey(n, kind, x)
    BY <2>2, SidebarKeeps
  <2>3. QED BY <1>7, <2>1, <2>2 DEF Sidebar
<1>8. QED BY <1>1, <1>2, <1>3, <1>4, <1>5, <1>6, <1>7

LEMMA ArrivalsKeep ==
  ASSUME IInv, ReadArrives \/ WriteArrives
  PROVE  IInv'
<1>1. ASSUME NEW c \in calls, Answer(c) \/ Land(c) \/ Fail(c)
      PROVE  IInv'
  BY <1>1, AnswerKeeps, LandKeeps, FailKeeps
<1>2. ASSUME NEW j \in jobs,
             \/ Apply(j) \/ MutationLands(j) \/ TreeLands(j) \/ DeleteLands(j) \/ RenameLands(j)
             \/ CopyLands(j) \/ ExportLands(j) \/ PreviewLands(j) \/ SideTree(j) \/ BulkLands(j)
             \/ CreateLands(j) \/ LookupMisses(j) \/ LookupLands(j) \/ JobFails(j)
      PROVE  IInv'
  <2>1. CASE Apply(j) \/ LookupMisses(j)
    BY <2>1, RefusedKeeps, AcceptedKeeps
  <2>2. CASE MutationLands(j) \/ TreeLands(j) \/ DeleteLands(j) \/ RenameLands(j)
    BY <2>2, MutationLandsKeeps, TreeLandsKeeps, DeleteLandsKeeps, RenameLandsKeeps
  <2>3. CASE CopyLands(j) \/ ExportLands(j) \/ SideTree(j) \/ JobFails(j)
    BY <2>3, CopyLandsKeeps, ExportLandsKeeps, SideTreeKeeps, JobFailsKeeps
  <2>4. CASE PreviewLands(j) \/ BulkLands(j) \/ CreateLands(j) \/ LookupLands(j)
    BY <2>4, CountLandsKeeps, CreateLandsKeeps
  <2>5. QED BY <1>2, <2>1, <2>2, <2>3, <2>4
<1>3. QED BY <1>1, <1>2 DEF ReadArrives, WriteArrives

LEMMA NextKeeps ==
  ASSUME IInv, [KeysNext]_keyVars
  PROVE  IInv'
<1>1. CASE Effects
  BY <1>1, EffectsKeep
<1>2. CASE (\E k \in Names : Show(k)) \/ Close \/ Leave \/ Refresh \/ Editing \/ Dialogs \/ Sidebar
  BY <1>2, GesturesKeep
<1>3. CASE ReadArrives \/ WriteArrives
  BY <1>3, ArrivalsKeep
<1>4. ASSUME NEW k \in Names, Elsewhere(k, Raw)
      PROVE  IInv'
  BY <1>4, ElsewhereKeeps
<1>5. CASE UNCHANGED keyVars
  BY <1>5, Frame DEF keyVars, IInv, Shapes, Coherent, Removals
<1>6. QED BY <1>1, <1>2, <1>3, <1>4, <1>5 DEF KeysNext, Events

LEMMA AlwaysIInv == Spec => []IInv
<1>1. KeysInit => IInv
  BY InitHolds
<1>2. IInv /\ [KeysNext]_keyVars => IInv'
  BY NextKeeps
<1>3. QED BY <1>1, <1>2, PTL DEF Spec

-----------------------------------------------------------------------------
(* A key on screen that is at rest shows the elements the server holds of  *)
(* it, their number and its type, whatever was edited, paged, superseded   *)
(* and left in between and whatever the server still remembered of types   *)
(* and expiries, for any keys, kinds, pages and number of gestures.        *)
THEOREM KeyShowsTheServerHolds == Spec => []KeyShowsTheServer
<1>1. IInv => KeyShowsTheServer
  <2>1. SUFFICES ASSUME IInv, view.key # None, Settled(view.key), ~stale[view.key], ~data[view.key].err
                 PROVE  /\ data[view.key].page # None
                        /\ Shows(data[view.key].page, stored[view.key], data[view.key].opts)
    BY DEF KeyShowsTheServer
  <2>2. view.key \in Names
    BY <2>1 DEF IInv, Shapes, ViewShape
  <2>3. Newest(view.key) = {} /\ ~Unread(view.key)
    BY <2>1 DEF Settled, Newest, Unread, Mine
  <2>4. data[view.key].page # None
    BY <2>1, <2>2, <2>3 DEF IInv, Coherent, Shown
  <2>5. QED BY <2>1, <2>2, <2>3, <2>4 DEF IInv, Coherent, Fresh
<1>2. QED BY <1>1, AlwaysIInv, PTL

(* A removal by index reaches the element its row showed when its button   *)
(* was pressed, unless somebody else wrote to the key, a read failed or    *)
(* was superseded, or the view was left and mounted anew while a write of  *)
(* its key was not read back.                                              *)
THEOREM RemovalsHitTheirElementHolds == Spec => []RemovalsHitTheirElement
<1>1. IInv => RemovalsHitTheirElement
  BY DEF IInv, Removals, Hits, RemovalsHitTheirElement
<1>2. QED BY <1>1, AlwaysIInv, PTL

(* A key that was deleted or renamed from its view has no tab, or the      *)
(* handler that closes it is under way, whichever tab is on screen.        *)
THEOREM GoneKeysHaveNoTabHolds == Spec => []GoneKeysHaveNoTab
<1>1. IInv => GoneKeysHaveNoTab
  BY DEF IInv, Gone, Closing, GoneKeysHaveNoTab
<1>2. QED BY <1>1, AlwaysIInv, PTL
-----------------------------------------------------------------------------
(* The console. *)

(* Texts are sequences of words wherever the console keeps them. *)
TabState(v, e, r, h, k, d, l) ==
  [value |-> v, entries |-> e, running |-> r, history |-> h, cursor |-> k, draft |-> d, loaded |-> l]
IsTabState(c) ==
  /\ c = TabState(c.value, c.entries, c.running, c.history, c.cursor, c.draft, c.loaded)
  /\ c.value \in Seq(Words) /\ c.draft \in Seq(Words) /\ c.history \in Seq(Seq(Words))

IsRequest(r) ==
  /\ r = [kind |-> r.kind, tab |-> r.tab, id |-> r.id, statements |-> r.statements,
          confirmed |-> r.confirmed, direction |-> r.direction, answer |-> r.answer]
  /\ r.tab \in Consoles /\ r.statements \in Seq(Seq(Words))
  /\ r.answer # Nothing => r.answer \in Seq(Seq(Words))

TabStates == cli = [t \in Consoles |-> cli[t]] /\ \A t \in Consoles : IsTabState(cli[t])
AskedFirst(r) == \A n \in DOMAIN r.statements : BeginsWithDanger(r.statements[n]) => r.confirmed
CliRequests == \A r \in requests : IsRequest(r) /\ AskedFirst(r)
CliRest ==
  shown \in Consoles /\ (danger # Nothing => danger \in Seq(Words)) /\ recorded \in Seq(Seq(Words))
CliInv == TabStates /\ CliRequests /\ CliRest

(* Between two members of a finite set of numbers there is a next one. *)
LEMMA Successor ==
  ASSUME NEW I \in SUBSET Int, IsFiniteSet(I), NEW a \in I, NEW b \in I, a < b
  PROVE  \E c \in I : a < c /\ c <= b /\ \A e \in I : ~ (a < e /\ e < c)
<1>1. /\ Rank(I, a) \in Nat /\ Rank(I, b) \in Nat /\ Rank(I, a) < Rank(I, b)
  BY RankGrows
<1>2. /\ Cardinality(I) \in Nat
      /\ \A k \in 1..Cardinality(I) : Nth(I, k) \in I /\ Rank(I, Nth(I, k)) = k - 1
      /\ \A i \in I : Rank(I, i) + 1 \in 1..Cardinality(I) /\ Nth(I, Rank(I, i) + 1) = i
      /\ \A k, l \in 1..Cardinality(I) : k < l => Nth(I, k) < Nth(I, l)
  BY NthIs
<1>3. PICK k \in 1..Cardinality(I) : k = Rank(I, a) + 2 /\ k - 1 \in 1..Cardinality(I)
  BY <1>1, <1>2
<1>4. PICK c \in I : c = Nth(I, k) /\ Rank(I, c) = k - 1
  BY <1>2, <1>3
<1>5. a = Nth(I, k - 1) /\ a < c
  BY <1>1, <1>2, <1>3, <1>4
<1>6. c <= b
  <2>1. PICK l \in 1..Cardinality(I) : l = Rank(I, b) + 1 /\ Nth(I, l) = b
    BY <1>2
  <2>2. k <= l
    BY <1>1, <1>3, <2>1
  <2>3. CASE k = l
    BY <1>4, <2>1, <2>3
  <2>4. CASE k < l
    BY <1>2, <1>4, <2>1, <2>4
  <2> QED
    BY <2>2, <2>3, <2>4
<1>7. ASSUME NEW e \in I, a < e, e < c
      PROVE  FALSE
  <2>1. /\ Rank(I, a) < Rank(I, e) /\ Rank(I, e) < Rank(I, c) /\ Rank(I, e) \in Nat
    BY <1>7, RankGrows
  <2> QED
    BY <1>1, <1>3, <1>4, <2>1
<1> QED
  BY <1>4, <1>5, <1>6, <1>7

Edges(text, cuts) == cuts \cup {0, Len(text) + 1}
Between(text, cuts, a, b) ==
  /\ a \in Edges(text, cuts) /\ b \in Edges(text, cuts) /\ a < b
  /\ \A e \in Edges(text, cuts) : ~ (a < e /\ e < b)

(* The parts are what is not blank between an edge and the next.              *)
LEMMA PartsAre ==
  ASSUME NEW text \in Seq(Words), NEW cuts \in SUBSET DOMAIN text
  PROVE  /\ \A n \in DOMAIN Parts(text, cuts) :
              \E a, b \in Int : /\ Between(text, cuts, a, b)
                                /\ Parts(text, cuts)[n] = SubSeq(text, a + 1, b - 1)
                                /\ ~Blank(SubSeq(text, a + 1, b - 1))
         /\ \A a, b \in Int :
              Between(text, cuts, a, b) /\ ~Blank(SubSeq(text, a + 1, b - 1)) =>
                \E n \in DOMAIN Parts(text, cuts) : Parts(text, cuts)[n] = SubSeq(text, a + 1, b - 1)
         /\ Parts(text, cuts) \in Seq(Seq(Words))
<1>1. PICK E : E = Edges(text, cuts)
  OBVIOUS
<1>2. E \in SUBSET (0..(Len(text) + 1)) /\ Len(text) \in Nat
  BY <1>1 DEF Edges
<1>3. E \in SUBSET Int /\ IsFiniteSet(E)
  <2>1. PICK m \in Int : m = Len(text) + 1
    BY <1>2
  <2>2. IsFiniteSet(0..m) /\ E \in SUBSET (0..m)
    BY <1>2, <2>1, FS_Interval
  <2>3. IsFiniteSet(E)
    BY <2>2, FS_Subset
  <2> QED
    BY <2>2, <2>3
<1>4. /\ Cardinality(E) \in Nat
      /\ \A k \in 1..Cardinality(E) : Nth(E, k) \in E /\ Rank(E, Nth(E, k)) = k - 1
      /\ \A i \in E : Rank(E, i) + 1 \in 1..Cardinality(E) /\ Nth(E, Rank(E, i) + 1) = i
      /\ \A k, l \in 1..Cardinality(E) : k < l => Nth(E, k) < Nth(E, l)
  BY <1>3, NthIs
<1>5. PICK all : all = [n \in 1..(Cardinality(E) - 1) |-> Part(text, E, n)]
  OBVIOUS
<1>6. PICK I \in SUBSET DOMAIN all : I = {n \in DOMAIN all : ~Blank(all[n])}
  OBVIOUS
<1>7. Parts(text, cuts) = Filtered(all, I)
  BY <1>1, <1>5, <1>6 DEF Parts, Edges
<1>8. all \in Seq(Seq(Words)) /\ DOMAIN all = 1..(Cardinality(E) - 1)
  <2>1. \A n \in 1..(Cardinality(E) - 1) : Part(text, E, n) \in Seq(Words)
    <3> SUFFICES ASSUME NEW n \in 1..(Cardinality(E) - 1)
                 PROVE  Part(text, E, n) \in Seq(Words)
      OBVIOUS
    <3>1. n \in 1..Cardinality(E) /\ n + 1 \in 1..Cardinality(E)
      BY <1>4
    <3>2. Nth(E, n) \in 0..(Len(text) + 1) /\ Nth(E, n + 1) \in 0..(Len(text) + 1)
      BY <1>2, <1>4, <3>1
    <3> QED
      BY <3>2 DEF Part
  <2>2. Cardinality(E) > 0
    <3>1. 0 \in E
      BY <1>1 DEF Edges
    <3> QED
      BY <1>4, <3>1
  <2>3. PICK m \in Nat : m = Cardinality(E) - 1
    BY <1>4, <2>2
  <2>4. all = [n \in 1..m |-> Part(text, E, n)] /\ \A n \in 1..m : Part(text, E, n) \in Seq(Words)
    BY <1>5, <2>1, <2>3
  <2>5. all \in Seq(Seq(Words)) /\ DOMAIN all = 1..m
    BY <2>4
  <2> QED
    BY <2>3, <2>5
<1>9. /\ Filtered(all, I) \in Seq(Seq(Words))
      /\ Len(Filtered(all, I)) = Cardinality(I) /\ Cardinality(I) \in Nat
      /\ \A k \in 1..Cardinality(I) : Nth(I, k) \in I /\ Filtered(all, I)[k] = all[Nth(I, k)]
      /\ \A i \in I : \E k \in 1..Cardinality(I) : Nth(I, k) = i
  <2>0. I \in SUBSET DOMAIN all
    BY <1>6
  <2>1. PICK S : S = Seq(Words)
    OBVIOUS
  <2>2. all \in Seq(S)
    BY <1>8, <2>1
  <2>3. Filtered(all, I) \in Seq(S)
    BY <2>0, <2>2, FilteredOfSequence
  <2>4. Len(Filtered(all, I)) = Cardinality(I) /\ Cardinality(I) \in Nat
    BY <2>0, <2>2, FilteredOfSequence
  <2>5. \A k \in 1..Cardinality(I) : Nth(I, k) \in I /\ Filtered(all, I)[k] = all[Nth(I, k)]
    <3>1. \A k \in 1..Cardinality(I) : Filtered(all, I)[k] = all[Nth(I, k)]
      BY DEF Filtered
    <3>2. PICK m \in Nat : DOMAIN all = 1..m
      BY <2>2
    <3>3. IsFiniteSet(1..m)
      BY <3>2, FS_Interval
    <3>4. IsFiniteSet(I) /\ I \in SUBSET Int
      BY <2>0, <3>2, <3>3, FS_Subset
    <3>5. \A k \in 1..Cardinality(I) : Nth(I, k) \in I
      BY <3>4, NthIs
    <3> QED
      BY <3>1, <3>5
  <2>6. \A i \in I : \E k \in 1..Cardinality(I) : Nth(I, k) = i
    BY <2>0, <2>2, FilteredOfSequence
  <2> QED
    BY <2>1, <2>3, <2>4, <2>5, <2>6
<1>10. DOMAIN Parts(text, cuts) = 1..Cardinality(I)
  BY <1>7, <1>9
<1>11. ASSUME NEW n \in DOMAIN Parts(text, cuts)
       PROVE  \E a, b \in Int : /\ Between(text, cuts, a, b)
                                /\ Parts(text, cuts)[n] = SubSeq(text, a + 1, b - 1)
                                /\ ~Blank(SubSeq(text, a + 1, b - 1))
  <2>1. PICK m \in I : Parts(text, cuts)[n] = all[m] /\ ~Blank(all[m])
    <3>1. n \in 1..Cardinality(I)
      BY <1>10, <1>11
    <3>2. Nth(I, n) \in I /\ Parts(text, cuts)[n] = all[Nth(I, n)]
      BY <1>7, <1>9, <3>1
    <3> QED
      BY <1>6, <3>2
  <2>2. m \in 1..Cardinality(E) /\ m + 1 \in 1..Cardinality(E)
    BY <1>4, <1>8
  <2>3. PICK a \in E, b \in E : a = Nth(E, m) /\ b = Nth(E, m + 1)
    BY <1>4, <2>2
  <2>4. all[m] = SubSeq(text, a + 1, b - 1)
    BY <1>5, <1>8, <2>3 DEF Part
  <2>5. a < b /\ Rank(E, a) = m - 1 /\ Rank(E, b) = m
    BY <1>4, <2>2, <2>3
  <2>6. ASSUME NEW e \in E, a < e, e < b
        PROVE  FALSE
    <3>1. Rank(E, a) < Rank(E, e) /\ Rank(E, e) < Rank(E, b) /\ Rank(E, e) \in Nat
      BY <1>3, <2>6, RankGrows
    <3> QED
      BY <1>8, <2>5, <3>1
  <2> QED
    BY <1>1, <1>3, <2>1, <2>4, <2>5, <2>6 DEF Between
<1>12. ASSUME NEW a \in Int, NEW b \in Int, Between(text, cuts, a, b),
              ~Blank(SubSeq(text, a + 1, b - 1))
       PROVE  \E n \in DOMAIN Parts(text, cuts) : Parts(text, cuts)[n] = SubSeq(text, a + 1, b - 1)
  <2>1. a \in E /\ b \in E /\ a < b /\ \A e \in E : ~ (a < e /\ e < b)
    BY <1>1, <1>12 DEF Between
  <2>2. Rank(E, a) \in Nat /\ Rank(E, b) \in Nat /\ Rank(E, a) < Rank(E, b)
    BY <1>3, <2>1, RankGrows
  <2>3. PICK m, l \in 1..Cardinality(E) : /\ m = Rank(E, a) + 1 /\ Nth(E, m) = a
                                         /\ l = Rank(E, b) + 1 /\ Nth(E, l) = b
    BY <1>4, <2>1
  <2>4. l = m + 1
    <3>1. CASE m + 1 < l
      <4>1. m + 1 \in 1..Cardinality(E)
        BY <1>4, <3>1
      <4>2. a < Nth(E, m + 1) /\ Nth(E, m + 1) < b /\ Nth(E, m + 1) \in E
        BY <1>4, <2>3, <3>1, <4>1
      <4> QED
        BY <2>1, <4>2
    <3> QED
      BY <2>2, <2>3, <3>1
  <2>5. m \in DOMAIN all /\ all[m] = SubSeq(text, a + 1, b - 1)
    <3>1. m \in 1..(Cardinality(E) - 1)
      BY <1>4, <2>3, <2>4
    <3>2. Part(text, E, m) = SubSeq(text, a + 1, b - 1)
      BY <2>3, <2>4 DEF Part
    <3> QED
      BY <1>5, <3>1, <3>2
  <2>6. m \in I
    BY <1>6, <1>12, <2>5
  <2> QED
    BY <1>7, <1>9, <1>10, <2>5, <2>6
<1> QED
  BY <1>7, <1>9, <1>11, <1>12

LEMMA LinesSeeStatements ==
  ASSUME NEW text \in Seq(Words), NEW n \in DOMAIN Statements(text), BeginsWithDanger(Statements(text)[n])
  PROVE  FindDangerousCommand(text)
<1>1. PICK many \in SUBSET DOMAIN text : many = LineEnds(text)
  BY DEF LineEnds
<1>2. PICK few \in SUBSET many : few = {i \in LineEnds(text) : ~Quoted(text, i)}
  BY <1>1
<1>3. PICK last \in Nat : last = Len(text) + 1 /\ DOMAIN text = 1..(last - 1)
  OBVIOUS
<1>4. PICK E \in SUBSET (0..last) : E = Edges(text, many)
  <2>1. Edges(text, many) = many \cup {0, last}
    BY <1>3 DEF Edges
  <2>2. \A e \in many : e \in 0..last
    BY <1>1, <1>3
  <2>3. 0 \in 0..last /\ last \in 0..last
    OBVIOUS
  <2>4. Edges(text, many) \in SUBSET (0..last)
    BY <2>1, <2>2, <2>3
  <2> QED
    BY <2>4
<1>5. PICK a \in Int, b \in Int :
        /\ Between(text, few, a, b) /\ Statements(text)[n] = SubSeq(text, a + 1, b - 1)
        /\ ~Blank(SubSeq(text, a + 1, b - 1))
  <2>1. few \in SUBSET DOMAIN text /\ Statements(text) = Parts(text, few)
    BY <1>2, <1>1 DEF Statements
  <2> QED
    BY <2>1, PartsAre
<1>6. a \in E /\ b \in E /\ a < b
  BY <1>1, <1>2, <1>4, <1>5 DEF Between, Edges
<1>7. PICK c \in E : a < c /\ c <= b /\ \A e \in E : ~ (a < e /\ e < c)
  <2>1. IsFiniteSet(0..last)
    BY FS_Interval
  <2>2. IsFiniteSet(E)
    BY <2>1, FS_Subset
  <2>3. E \in SUBSET Int
    OBVIOUS
  <2> QED
    BY <1>6, <2>2, <2>3, Successor
<1>8. a \in 0..last /\ b \in 0..last /\ c \in 0..last /\ c \in Int /\ Between(text, many, a, c)
  BY <1>4, <1>6, <1>7 DEF Between
<1>9. PICK s : s = SubSeq(text, a + 1, b - 1)
  OBVIOUS
<1>10. s[1] = Danger /\ (Len(s) > 1 => s[2] # Quote) /\ ~Blank(s)
  BY <1>5, <1>9 DEF BeginsWithDanger
<1>11. s \in Seq(Words) /\ Len(s) = b - a - 1 /\ \A k \in 1..Len(s) : s[k] = text[a + k]
  BY <1>3, <1>6, <1>8, <1>9
<1>12. a + 1 < b
  <2>1. CASE ~ (a + 1 < b)
    <3>1. s = <<>>
      BY <1>6, <1>8, <1>11, <2>1
    <3> QED
      BY <1>10, <3>1 DEF Blank, Range
  <2> QED
    BY <2>1
<1>13. text[a + 1] = Danger
  BY <1>8, <1>10, <1>11, <1>12
<1>14. a + 1 \notin E
  BY <1>1, <1>3, <1>4, <1>8, <1>12, <1>13, RedisCliAssumption DEF Edges, LineEnds
<1>15. a + 1 < c
  BY <1>7, <1>8, <1>14
<1>16. PICK line : line = SubSeq(text, a + 1, c - 1)
  OBVIOUS
<1>17. line \in Seq(Words) /\ Len(line) = c - a - 1 /\ \A k \in 1..Len(line) : line[k] = text[a + k]
  BY <1>3, <1>7, <1>8, <1>16
<1>18. line[1] = Danger /\ (Len(line) > 1 => line[2] # Quote)
  <2>1. line[1] = Danger
    BY <1>8, <1>13, <1>15, <1>17
  <2>2. ASSUME Len(line) > 1
        PROVE  line[2] # Quote
    <3>1. line[2] = text[a + 2] /\ s[2] = text[a + 2] /\ Len(s) > 1
      BY <1>7, <1>8, <1>11, <1>17, <2>2
    <3> QED
      BY <1>10, <3>1
  <2> QED
    BY <2>1, <2>2
<1>19. ~Blank(line)
  <2>1. 1 \in DOMAIN line /\ line[1] \notin {Newline}
    BY <1>8, <1>15, <1>17, <1>18, RedisCliAssumption
  <2> QED
    BY <2>1 DEF Blank, Range
<1>20. PICK m \in DOMAIN Parts(text, many) : Parts(text, many)[m] = line
  <2>1. ~Blank(SubSeq(text, a + 1, c - 1)) /\ many \in SUBSET DOMAIN text
    BY <1>1, <1>16, <1>19
  <2>2. \E m \in DOMAIN Parts(text, many) : Parts(text, many)[m] = SubSeq(text, a + 1, c - 1)
    BY <1>8, <2>1, PartsAre
  <2> QED
    BY <1>16, <2>2
<1> QED
  BY <1>1, <1>18, <1>20 DEF FindDangerousCommand, BeginsWithDanger

LEMMA StatementsAreTexts ==
  ASSUME NEW text \in Seq(Words)
  PROVE  Statements(text) \in Seq(Seq(Words))
<1>1. PICK few \in SUBSET DOMAIN text : few = {i \in LineEnds(text) : ~Quoted(text, i)}
  BY DEF LineEnds
<1>2. Statements(text) = Parts(text, few)
  BY <1>1 DEF Statements
<1> QED
  BY <1>2, PartsAre

LEMMA TabStateOf ==
  ASSUME NEW v \in Seq(Words), NEW e, NEW r, NEW h \in Seq(Seq(Words)), NEW k, NEW d \in Seq(Words), NEW l
  PROVE  IsTabState(TabState(v, e, r, h, k, d, l))
BY DEF IsTabState, TabState

LEMMA TabStatesStay ==
  ASSUME NEW c, IsTabState(c)
  PROVE  /\ \A text \in Seq(Words) : IsTabState(SetEditorValue(c, text))
         /\ IsTabState(Cleared(c))
         /\ \A d : IsTabState(Walked(c, d))
         /\ IsTabState([Cleared(c) EXCEPT !.value = <<>>])
         /\ IsTabState([c EXCEPT !.running = TRUE, !.cursor = 0, !.draft = <<>>])
         /\ \A e : IsTabState([c EXCEPT !.running = FALSE, !.value = <<>>, !.loaded = FALSE, !.entries = e])
         /\ \A e : IsTabState([c EXCEPT !.running = FALSE, !.entries = e])
         /\ \A h \in Seq(Seq(Words)) : IsTabState([c EXCEPT !.history = h, !.loaded = TRUE])
<1>0. /\ c = TabState(c.value, c.entries, c.running, c.history, c.cursor, c.draft, c.loaded)
      /\ c.value \in Seq(Words) /\ c.draft \in Seq(Words) /\ c.history \in Seq(Seq(Words))
  BY DEF IsTabState, TabState
<1>1. <<>> \in Seq(Words)
  OBVIOUS
<1>2. ASSUME NEW text \in Seq(Words)
      PROVE  IsTabState(SetEditorValue(c, text))
  <2>1. PICK n : n = SetEditorValue(c, text)
    OBVIOUS
  <2>2. n = TabState(text, c.entries, c.running, c.history, 0, text, c.loaded)
    BY <1>0, <2>1 DEF SetEditorValue, TabState
  <2>3. IsTabState(TabState(text, c.entries, c.running, c.history, 0, text, c.loaded))
    BY <1>0, <1>1, TabStateOf
  <2> QED
    BY <2>1, <2>2, <2>3
<1>3. IsTabState(Cleared(c))
  <2>1. PICK n : n = Cleared(c)
    OBVIOUS
  <2>2. n = TabState(c.value, <<>>, c.running, c.history, c.cursor, c.draft, c.loaded)
    BY <1>0, <2>1 DEF Cleared, TabState
  <2>3. IsTabState(TabState(c.value, <<>>, c.running, c.history, c.cursor, c.draft, c.loaded))
    BY <1>0, <1>1, TabStateOf
  <2> QED
    BY <2>1, <2>2, <2>3
<1>4. ASSUME NEW d
      PROVE  IsTabState(Walked(c, d))
  <2>1. PICK next : next = IF d = "next" THEN c.cursor - 1
                           ELSE IF c.cursor < Len(c.history) THEN c.cursor + 1 ELSE Len(c.history)
    OBVIOUS
  <2>2. CASE c.history = <<>>
    BY <2>2 DEF Walked
  <2>3. CASE c.history # <<>> /\ next < 1
    <3>1. Walked(c, d) = [c EXCEPT !.cursor = 0, !.value = c.draft]
      BY <2>1, <2>3 DEF Walked
    <3> QED
      BY <3>1 DEF IsTabState, TabState
  <2>4. CASE c.history # <<>> /\ ~ (next < 1)
    <3>1. PICK v, w :
            /\ v = IF next \in DOMAIN c.history THEN c.history[next] ELSE c.value
            /\ w = IF c.cursor = 0 THEN c.value ELSE c.draft
      OBVIOUS
    <3>2. v \in Seq(Words) /\ w \in Seq(Words)
      BY <3>1 DEF IsTabState, TabState
    <3>3. Walked(c, d) = [c EXCEPT !.cursor = next, !.value = v, !.draft = w]
      BY <2>1, <2>4, <3>1 DEF Walked
    <3> QED
      BY <3>2, <3>3 DEF IsTabState, TabState
  <2> QED
    BY <2>2, <2>3, <2>4
<1>5. IsTabState([Cleared(c) EXCEPT !.value = <<>>])
  <2>1. PICK n : n = [Cleared(c) EXCEPT !.value = <<>>]
    OBVIOUS
  <2>2. n = TabState(<<>>, <<>>, c.running, c.history, c.cursor, c.draft, c.loaded)
    BY <1>0, <2>1 DEF Cleared, TabState
  <2>3. IsTabState(TabState(<<>>, <<>>, c.running, c.history, c.cursor, c.draft, c.loaded))
    BY <1>0, <1>1, TabStateOf
  <2> QED
    BY <2>1, <2>2, <2>3
<1>6. IsTabState([c EXCEPT !.running = TRUE, !.cursor = 0, !.draft = <<>>])
  <2>1. PICK n : n = [c EXCEPT !.running = TRUE, !.cursor = 0, !.draft = <<>>]
    OBVIOUS
  <2>2. n = TabState(c.value, c.entries, TRUE, c.history, 0, <<>>, c.loaded)
    BY <1>0, <2>1 DEF TabState
  <2>3. IsTabState(TabState(c.value, c.entries, TRUE, c.history, 0, <<>>, c.loaded))
    BY <1>0, <1>1, TabStateOf
  <2> QED
    BY <2>1, <2>2, <2>3
<1>7. ASSUME NEW e
      PROVE  IsTabState([c EXCEPT !.running = FALSE, !.value = <<>>, !.loaded = FALSE, !.entries = e])
  <2>1. PICK n : n = [c EXCEPT !.running = FALSE, !.value = <<>>, !.loaded = FALSE, !.entries = e]
    OBVIOUS
  <2>2. n = TabState(<<>>, e, FALSE, c.history, c.cursor, c.draft, FALSE)
    BY <1>0, <2>1 DEF TabState
  <2>3. IsTabState(TabState(<<>>, e, FALSE, c.history, c.cursor, c.draft, FALSE))
    BY <1>0, <1>1, TabStateOf
  <2> QED
    BY <2>1, <2>2, <2>3
<1>8. ASSUME NEW e
      PROVE  IsTabState([c EXCEPT !.running = FALSE, !.entries = e])
  <2>1. PICK n : n = [c EXCEPT !.running = FALSE, !.entries = e]
    OBVIOUS
  <2>2. n = TabState(c.value, e, FALSE, c.history, c.cursor, c.draft, c.loaded)
    BY <1>0, <2>1 DEF TabState
  <2>3. IsTabState(TabState(c.value, e, FALSE, c.history, c.cursor, c.draft, c.loaded))
    BY <1>0, <1>1, TabStateOf
  <2> QED
    BY <2>1, <2>2, <2>3
<1>9. ASSUME NEW h \in Seq(Seq(Words))
      PROVE  IsTabState([c EXCEPT !.history = h, !.loaded = TRUE])
  <2>1. PICK n : n = [c EXCEPT !.history = h, !.loaded = TRUE]
    OBVIOUS
  <2>2. n = TabState(c.value, c.entries, c.running, h, c.cursor, c.draft, TRUE)
    BY <1>0, <2>1 DEF TabState
  <2>3. IsTabState(TabState(c.value, c.entries, c.running, h, c.cursor, c.draft, TRUE))
    BY <1>0, <1>1, TabStateOf
  <2> QED
    BY <2>1, <2>2, <2>3
<1> QED
  BY <1>2, <1>3, <1>4, <1>5, <1>6, <1>7, <1>8, <1>9

LEMMA OneTabChanges ==
  ASSUME NEW t \in Consoles, NEW c, IsTabState(c), TabStates, cli' = [cli EXCEPT ![t] = c]
  PROVE  TabStates'
BY DEF TabStates

LEMMA OneRequestMore ==
  ASSUME CliRequests, NEW R, R \subseteq requests, NEW r, IsRequest(r), AskedFirst(r),
         requests' = R \cup {r}
  PROVE  CliRequests'
BY DEF CliRequests

LEMMA ARunIsAsked ==
  ASSUME CliInv, NEW t \in Consoles, NEW text \in Seq(Words), NEW confirmed \in BOOLEAN,
         FindDangerousCommand(text) => confirmed, RunInput(t, text, confirmed)
  PROVE  TabStates' /\ CliRequests'
<1>1. CASE Blank(text)
  BY <1>1 DEF RunInput, CliInv, TabStates, CliRequests
<1>2. CASE ~Blank(text) /\ text = <<Clear>>
  <2>1. PICK c : c = [Cleared(cli[t]) EXCEPT !.value = <<>>]
    OBVIOUS
  <2>2. IsTabState(c)
    BY <2>1, TabStatesStay DEF CliInv, TabStates
  <2>3. cli' = [cli EXCEPT ![t] = c] /\ requests' = requests
    BY <1>2, <2>1 DEF RunInput, CliInv, TabStates
  <2> QED
    BY <2>2, <2>3, OneTabChanges DEF CliInv, CliRequests
<1>3. CASE ~Blank(text) /\ text # <<Clear>>
  <2>1. PICK c : c = [cli[t] EXCEPT !.running = TRUE, !.cursor = 0, !.draft = <<>>]
    OBVIOUS
  <2>2. IsTabState(c)
    BY <2>1, TabStatesStay DEF CliInv, TabStates
  <2>3. cli' = [cli EXCEPT ![t] = c]
    BY <1>3, <2>1 DEF RunInput, CliInv, TabStates
  <2>4. PICK r : r = [Request("run", t) EXCEPT !.statements = Statements(text), !.confirmed = confirmed]
    OBVIOUS
  <2>5. requests' = requests \cup {r}
    BY <1>3, <2>4 DEF RunInput
  <2>6. r.statements = Statements(text) /\ r.confirmed = confirmed /\ r.tab = t /\ r.answer = Nothing
    BY <2>4 DEF Request
  <2>7. IsRequest(r)
    <3>1. r = [kind |-> r.kind, tab |-> r.tab, id |-> r.id, statements |-> r.statements,
               confirmed |-> r.confirmed, direction |-> r.direction, answer |-> r.answer]
      BY <2>4 DEF Request
    <3>2. r.statements \in Seq(Seq(Words))
      BY <2>6, StatementsAreTexts
    <3> QED
      BY <2>6, <3>1, <3>2 DEF IsRequest
  <2>8. AskedFirst(r)
    <3>1. ASSUME NEW n \in DOMAIN Statements(text), BeginsWithDanger(Statements(text)[n])
          PROVE  confirmed
      BY <3>1, LinesSeeStatements
    <3> QED
      BY <2>6, <3>1 DEF AskedFirst
  <2> QED
    BY <2>2, <2>3, <2>5, <2>7, <2>8, OneTabChanges, OneRequestMore DEF CliInv
<1> QED
  BY <1>1, <1>2, <1>3

LEMMA AtTheConsoleKeeps ==
  ASSUME CliInv, AtTheConsole \/ EditorSyncs
  PROVE  CliInv'
<1> USE DEF CliInv, CliRest
<1>0. shown \in Consoles /\ IsTabState(cli[shown]) /\ cli[shown].value \in Seq(Words)
  BY DEF TabStates, IsTabState
<1>1. ASSUME NEW text \in Typed, TypeText(text)
      PROVE  CliInv'
  <2>1. PICK c : c = SetEditorValue(cli[shown], text)
    OBVIOUS
  <2>2. IsTabState(c)
    BY <1>0, <2>1, TabStatesStay, RedisCliAssumption
  <2>3. cli' = [cli EXCEPT ![shown] = c]
    BY <1>1, <2>1 DEF TypeText
  <2>4. TabStates'
    BY <1>0, <2>2, <2>3, OneTabChanges
  <2> QED
    BY <1>1, <2>4 DEF TypeText, CliRequests
<1>2. ASSUME HandleRun
      PROVE  CliInv'
  <2>1. PICK text \in Seq(Words) : text = cli[shown].value
    BY <1>0
  <2>2. CASE FindDangerousCommand(text)
    BY <1>2, <2>1, <2>2 DEF HandleRun, TabStates, CliRequests
  <2>3. CASE ~FindDangerousCommand(text)
    <3>1. RunInput(shown, text, FALSE) /\ UNCHANGED <<danger, shown, recorded>>
      BY <1>2, <2>1, <2>3 DEF HandleRun
    <3>2. TabStates' /\ CliRequests'
      BY <1>0, <2>3, <3>1, ARunIsAsked
    <3> QED
      BY <3>1, <3>2
  <2> QED
    BY <2>2, <2>3
<1>3. ASSUME RunAnyway
      PROVE  CliInv'
  <2>1. danger \in Seq(Words) /\ RunInput(shown, danger, TRUE)
        /\ danger' = Nothing /\ shown' = shown /\ recorded' = recorded
    BY <1>3 DEF RunAnyway
  <2>2. TabStates' /\ CliRequests'
    BY <1>0, <2>1, ARunIsAsked
  <2> QED
    BY <2>1, <2>2
<1>4. ASSUME Dismiss
      PROVE  CliInv'
  BY <1>4 DEF Dismiss, TabStates, CliRequests
<1>5. ASSUME ClearOutput
      PROVE  CliInv'
  <2>1. PICK c : c = Cleared(cli[shown])
    OBVIOUS
  <2>2. IsTabState(c)
    BY <1>0, <2>1, TabStatesStay
  <2>3. cli' = [cli EXCEPT ![shown] = c]
    BY <1>5, <2>1 DEF ClearOutput
  <2>4. TabStates'
    BY <1>0, <2>2, <2>3, OneTabChanges
  <2> QED
    BY <1>5, <2>4 DEF ClearOutput, CliRequests
<1>6. ASSUME NEW d, NavigateHistory(d)
      PROVE  CliInv'
  <2>1. CASE cli[shown].loaded
    <3>1. PICK c : c = Walked(cli[shown], d)
      OBVIOUS
    <3>2. IsTabState(c)
      BY <1>0, <3>1, TabStatesStay
    <3>3. cli' = [cli EXCEPT ![shown] = c] /\ requests' = requests
      BY <1>6, <2>1, <3>1 DEF NavigateHistory
    <3>4. TabStates'
      BY <1>0, <3>2, <3>3, OneTabChanges
    <3> QED
      BY <1>6, <3>3, <3>4 DEF NavigateHistory, CliRequests
  <2>2. CASE ~cli[shown].loaded
    <3>1. PICK r : r = [Request("history", shown) EXCEPT !.direction = d]
      OBVIOUS
    <3>2. requests' = requests \cup {r} /\ cli' = cli
      BY <1>6, <2>2, <3>1 DEF NavigateHistory
    <3>3. IsRequest(r) /\ AskedFirst(r)
      <4>1. r = [kind |-> "history", tab |-> shown, id |-> inputs, statements |-> <<>>,
                 confirmed |-> FALSE, direction |-> d, answer |-> Nothing]
        BY <3>1 DEF Request
      <4>2. r.statements = <<>> /\ <<>> \in Seq(Seq(Words)) /\ DOMAIN r.statements = {}
        BY <4>1
      <4> QED
        BY <1>0, <4>1, <4>2 DEF IsRequest, AskedFirst
    <3>4. CliRequests'
      BY <3>2, <3>3, OneRequestMore
    <3> QED
      BY <1>6, <3>2, <3>4 DEF NavigateHistory, TabStates
  <2> QED
    BY <2>1, <2>2
<1>7. ASSUME NEW t \in Consoles, ShowConsole(t)
      PROVE  CliInv'
  BY <1>7 DEF ShowConsole, TabStates, CliRequests
<1>8. ASSUME EditorSyncs
      PROVE  CliInv'
  <2>1. PICK c : c = SetEditorValue(cli[shown], cli[shown].value)
    OBVIOUS
  <2>2. IsTabState(c)
    BY <1>0, <2>1, TabStatesStay
  <2>3. cli' = [cli EXCEPT ![shown] = c]
    BY <1>8, <2>1 DEF EditorSyncs
  <2>4. TabStates'
    BY <1>0, <2>2, <2>3, OneTabChanges
  <2> QED
    BY <1>8, <2>4 DEF EditorSyncs, CliRequests
<1> QED
  BY <1>1, <1>2, <1>3, <1>4, <1>5, <1>6, <1>7, <1>8 DEF AtTheConsole

LEMMA ReturnsKeep ==
  ASSUME CliInv, Returns
  PROVE  CliInv'
<1> USE DEF CliInv, CliRest
<1>1. PICK r \in requests :
        Serve(r) \/ RunReturns(r) \/ RunBreaks(r) \/ HistoryReturns(r) \/ HistoryBreaks(r)
  BY DEF Returns
<1>2. IsRequest(r) /\ AskedFirst(r) /\ r.tab \in Consoles /\ IsTabState(cli[r.tab])
  BY DEF CliRequests, IsRequest, TabStates
<1>3. CASE Serve(r)
  <2>1. PICK s : s = [r EXCEPT !.answer = IF r.kind = "run" THEN r.statements ELSE recorded]
    OBVIOUS
  <2>2. IsRequest(s) /\ AskedFirst(s)
    BY <1>2, <2>1 DEF IsRequest, AskedFirst
  <2>3. requests' = (requests \ {r}) \cup {s}
    BY <1>3, <2>1 DEF Serve
  <2>4. CliRequests'
    BY <2>2, <2>3, OneRequestMore
  <2>5. recorded' \in Seq(Seq(Words))
    <3>1. PICK S, u : S = Seq(Words) /\ u = r.statements
      OBVIOUS
    <3>2. u \in Seq(S) /\ recorded \in Seq(S)
      BY <1>2, <3>1 DEF IsRequest
    <3>3. Reverse(u) \in Seq(S)
      BY <3>2 DEF Reverse
    <3>4. Reverse(u) \o recorded \in Seq(S)
      BY <3>2, <3>3
    <3> QED
      BY <1>3, <3>1, <3>2, <3>4 DEF Serve
  <2> QED
    BY <1>3, <2>4, <2>5 DEF Serve, TabStates
<1>4. CASE RunReturns(r)
  <2>1. PICK c : c = [cli[r.tab] EXCEPT !.running = FALSE, !.value = <<>>, !.loaded = FALSE,
                        !.entries = cli[r.tab].entries \o Entries(r, r.answer)]
    OBVIOUS
  <2>2. IsTabState(c)
    BY <1>2, <2>1, TabStatesStay
  <2>3. cli' = [cli EXCEPT ![r.tab] = c]
    BY <1>2, <1>4, <2>1 DEF RunReturns, TabOf, TabStates
  <2>4. TabStates'
    BY <1>2, <2>2, <2>3, OneTabChanges
  <2> QED
    BY <1>4, <2>4 DEF RunReturns, CliRequests
<1>5. CASE RunBreaks(r)
  <2>1. PICK c : c = [cli[r.tab] EXCEPT !.running = FALSE,
                        !.entries = cli[r.tab].entries \o Entries(r, <<r.statements[1]>>)]
    OBVIOUS
  <2>2. IsTabState(c)
    BY <1>2, <2>1, TabStatesStay
  <2>3. cli' = [cli EXCEPT ![r.tab] = c]
    BY <1>2, <1>5, <2>1 DEF RunBreaks, TabOf, TabStates
  <2>4. TabStates'
    BY <1>2, <2>2, <2>3, OneTabChanges
  <2> QED
    BY <1>5, <2>4 DEF RunBreaks, CliRequests
<1>6. CASE HistoryReturns(r)
  <2>1. PICK b : b = [cli[r.tab] EXCEPT !.history = r.answer, !.loaded = TRUE]
    OBVIOUS
  <2>2. PICK c : c = Walked(b, r.direction)
    OBVIOUS
  <2>3. IsTabState(b)
    BY <1>2, <1>6, <2>1, TabStatesStay DEF HistoryReturns, IsRequest
  <2>4. IsTabState(c)
    BY <2>2, <2>3, TabStatesStay
  <2>5. cli' = [cli EXCEPT ![r.tab] = c]
    BY <1>6, <2>1, <2>2 DEF HistoryReturns
  <2>6. TabStates'
    BY <1>2, <2>4, <2>5, OneTabChanges
  <2> QED
    BY <1>6, <2>6 DEF HistoryReturns, CliRequests
<1>7. CASE HistoryBreaks(r)
  BY <1>7 DEF HistoryBreaks, TabStates, CliRequests
<1> QED
  BY <1>1, <1>3, <1>4, <1>5, <1>6, <1>7

(* For all texts and consoles, whatever is answered while the user types   *)
(* on: CliSpec asks about every statement that begins with a dangerous     *)
(* command before it is sent (handleRun, runInput and splitRedisCli-       *)
(* Statements of the console).                                             *)
THEOREM DangerAsksFirstHolds == CliSpec => []DangerAsksFirst
<1>1. CliInit => CliInv
  <2> SUFFICES ASSUME CliInit
               PROVE  CliInv
    OBVIOUS
  <2>1. IsTabState(DefaultTabState)
    BY DEF IsTabState, TabState, DefaultTabState
  <2>2. TabStates
    BY <2>1 DEF CliInit, TabStates
  <2>3. shown \in Consoles
    BY RedisCliAssumption DEF CliInit
  <2> QED
    BY <2>2, <2>3 DEF CliInit, CliInv, CliRequests, CliRest
<1>2. CliInv /\ [CliNext]_cliVars => CliInv'
  <2>1. ASSUME CliInv, CliNext
        PROVE  CliInv'
    BY <2>1, AtTheConsoleKeeps, ReturnsKeep DEF CliNext
  <2>2. ASSUME CliInv, UNCHANGED cliVars
        PROVE  CliInv'
    BY <2>2 DEF CliInv, CliRest, CliRequests, TabStates, cliVars
  <2> QED
    BY <2>1, <2>2
<1>3. CliInv => DangerAsksFirst
  BY DEF CliInv, CliRequests, AskedFirst, DangerAsksFirst
<1> QED
  BY <1>1, <1>2, <1>3, PTL DEF CliSpec
-----------------------------------------------------------------------------
(* The links. *)

IsList(s) == s \in Seq(Range(s))
Of(s, i) == {m \in Range(s) : m.id = i}

(* What a change leaves of the link it is about, and of the others. *)
LEMMA ChangedIs ==
  ASSUME NEW s, IsList(s), NEW w, w.kind \in Changes, NEW i
  PROVE  /\ IsList(Changed(s, w))
         /\ i # w.link.id => Of(Changed(s, w), i) = Of(s, i)
         /\ w.kind = "create" => Of(Changed(s, w), w.link.id) = Of(s, w.link.id) \cup {w.link}
         /\ w.kind = "update" => Of(Changed(s, w), w.link.id) =
                                   IF Of(s, w.link.id) = {} THEN {} ELSE {w.link}
         /\ w.kind = "remove" => Of(Changed(s, w), w.link.id) = {}
<1>1. PICK m \in Nat : m = Len(s) /\ DOMAIN s = 1..m
  BY DEF IsList
<1>2. PICK l : l = w.link
  OBVIOUS
<1>3. CASE w.kind = "create"
  <2>1. Changed(s, w) = Append(s, l)
    BY <1>2, <1>3 DEF Changed
  <2>2. /\ Append(s, l) \in Seq(Range(s) \cup {l}) /\ DOMAIN Append(s, l) = 1..(m + 1)
        /\ Append(s, l)[m + 1] = l /\ \A n \in 1..m : Append(s, l)[n] = s[n]
    BY <1>1 DEF IsList
  <2>3. Range(Append(s, l)) = Range(s) \cup {l}
    BY <1>1, <2>2 DEF Range
  <2>4. IsList(Append(s, l))
    BY <2>2, <2>3 DEF IsList
  <2> QED
    BY <1>2, <1>3, <2>1, <2>3, <2>4 DEF Of
<1>4. CASE w.kind = "update"
  <2>1. PICK t : t = Replaced(s, l)
    OBVIOUS
  <2>2. Changed(s, w) = t
    BY <1>2, <1>4, <2>1 DEF Changed
  <2>3. t = [n \in 1..m |-> IF s[n].id = l.id THEN l ELSE s[n]]
    BY <1>1, <2>1 DEF Replaced
  <2>4. IsList(t)
    <3>1. \A n \in 1..m : t[n] \in Range(t)
      BY <2>3 DEF Range
    <3>2. t = [n \in 1..m |-> t[n]]
      BY <2>3
    <3> QED
      BY <3>1, <3>2 DEF IsList
  <2>5. i # l.id => Of(t, i) = Of(s, i)
    BY <1>1, <2>3 DEF Of, Range
  <2>6. Of(t, l.id) = IF Of(s, l.id) = {} THEN {} ELSE {l}
    BY <1>1, <2>3 DEF Of, Range
  <2> QED
    BY <1>2, <1>4, <2>2, <2>4, <2>5, <2>6
<1>5. CASE w.kind = "remove"
  <2>1. PICK I \in SUBSET DOMAIN s : I = {n \in DOMAIN s : s[n].id # l.id}
    OBVIOUS
  <2>2. PICK t : t = Filtered(s, I)
    OBVIOUS
  <2>3. Changed(s, w) = t
    BY <1>2, <1>5, <2>1, <2>2 DEF Changed, Without
  <2>4. DOMAIN s \in SUBSET Int /\ IsFiniteSet(DOMAIN s)
    BY <1>1, FS_Interval
  <2>5. /\ DOMAIN t = 1..Cardinality(I) /\ Cardinality(I) \in Nat
        /\ \A k \in DOMAIN t : Nth(I, k) \in I /\ t[k] = s[Nth(I, k)]
        /\ \A n \in I : \E k \in DOMAIN t : Nth(I, k) = n /\ t[k] = s[n]
    BY <2>2, <2>4, FilteredKeeps
  <2>6. Range(t) = {s[n] : n \in I}
    BY <2>5 DEF Range
  <2>7. IsList(t)
    <3>1. t = [k \in 1..Cardinality(I) |-> s[Nth(I, k)]]
      BY <2>2 DEF Filtered
    <3>2. \A k \in 1..Cardinality(I) : t[k] \in Range(t)
      BY <2>5 DEF Range
    <3> QED
      BY <2>5, <3>1, <3>2 DEF IsList
  <2>8. Of(t, l.id) = {} /\ (i # l.id => Of(t, i) = Of(s, i))
    BY <2>1, <2>6 DEF Of, Range
  <2> QED
    BY <1>2, <1>5, <2>3, <2>7, <2>8
<1> QED
  BY <1>3, <1>4, <1>5 DEF Changes

LEMMA OthersStay ==
  ASSUME NEW s, IsList(s), NEW w, w.kind \in Changes, NEW i, i # w.link.id, NEW q, q = Changed(s, w)
  PROVE  Of(q, i) = Of(s, i)
<1>1. i # w.link.id => Of(Changed(s, w), i) = Of(s, i)
  BY ChangedIs
<1> QED
  BY <1>1

(* A change the server has made that has not landed is pending.  A wire    *)
(* misses what was served after it.                                        *)
IsWire(w) ==
  w = [kind |-> w.kind, id |-> w.id, link |-> w.link, at |-> w.at, to |-> w.to, answer |-> w.answer,
       dialog |-> w.dialog, done |-> w.done, missed |-> w.missed, sound |-> w.sound]

Pends(w) == w.kind \in Changes /\ w.done
PendingOf(W, i) == {w \in W : Pends(w) /\ w.link.id = i}
MissedOf(f, W, i) == {w \in PendingOf(W, i) : w.id \in f.missed}
Sounds(X) == {w \in X : w.sound}

(* Of some changes of a link, the one that was served last, and what it    *)
(* made of the link.                                                       *)
ServedLast(n, X) == n \in X /\ \A v \in X : v = n \/ n.id \in v.missed
Result(w) == IF w.kind = "remove" THEN {} ELSE {w.link}

(* A list that has A of a link will have S of it once X has landed.        *)
Fits(A, n, X) ==
  /\ n.kind = "update" => A # {} \/ \E v \in X : v.kind = "create"
  /\ n.kind = "create" => A \subseteq {n.link}
Catches(A, X, S) ==
  IF X = {} THEN A = S ELSE \E n \in X : ServedLast(n, X) /\ S = Result(n) /\ Fits(A, n, X)

Unused(W, c, k) == k >= c \/ \E w \in W : w.id = k /\ w.kind = "create" /\ ~w.done

WiresShape(W, c) ==
  /\ c \in Nat /\ c <= MaxClicks
  /\ \A w \in W :
       /\ IsWire(w) /\ w.id \in 0..(c - 1) /\ w.done \in BOOLEAN /\ w.sound \in BOOLEAN
       /\ w.missed \subseteq 0..(c - 1) /\ (~w.done => w.missed = {} /\ w.sound)
       /\ w.kind = "create" /\ ~w.done => Payload(w.link, w.id).id = w.id
  /\ \A v, w \in W : v.id = w.id => v = w
Order(W) ==
  /\ \A v, w \in W : w.id \in v.missed =>
       /\ v.done /\ v.kind \in Changes \cup {"fetch"}
       /\ Pends(w) /\ v.id \notin w.missed /\ (v.sound => w.sound)
       /\ v.kind \in Changes => v.link.id = w.link.id /\ w.kind # "create" /\ v.kind # "remove"
  /\ \A u, v, w \in W : w.id \in v.missed /\ v.id \in u.missed => w.id \in u.missed
  /\ \A f, v, w \in W :
       (f.kind = "fetch" /\ w.id \in f.missed /\ Pends(v) /\ v.link.id = w.link.id /\ v.id \notin f.missed)
       => w.id \in v.missed
FreshIds(W, s, c) ==
  \A k \in 0..(MaxClicks - 1) : Unused(W, c, k) => Of(s, k) = {} /\ PendingOf(W, k) = {}
Removed(W, s) == \A w \in W : Pends(w) /\ w.kind = "remove" => Of(s, w.link.id) = {}
ServerIs(W, s) ==
  \A i : Sounds(PendingOf(W, i)) # {} =>
    \E n \in Sounds(PendingOf(W, i)) : ServedLast(n, Sounds(PendingOf(W, i))) /\ Of(s, i) = Result(n)
FetchesCatch(W, s) ==
  \A f \in W : f.kind = "fetch" /\ f.done =>
    /\ IsList(f.answer)
    /\ f.sound => \A i : Catches(Of(f.answer, i), MissedOf(f, W, i), Of(s, i))
StoreCatches(W, s, l, o) ==
  ~o => \A i : (\A w \in PendingOf(W, i) : w.sound) => Catches(Of(l, i), PendingOf(W, i), Of(s, i))

LinksHold(W, s, l, o, c) ==
  /\ WiresShape(W, c) /\ Order(W) /\ IsList(s) /\ IsList(l)
  /\ FreshIds(W, s, c) /\ Removed(W, s) /\ ServerIs(W, s) /\ FetchesCatch(W, s) /\ StoreCatches(W, s, l, o)

(* The same changes, as other records. *)
LEMMA CatchesAlike ==
  ASSUME NEW X, NEW Y, NEW U \in [X -> Y], \A y \in Y : \E x \in X : y = U[x],
         \A x \in X : /\ U[x].kind = x.kind /\ U[x].id = x.id /\ U[x].link = x.link
                      /\ x.missed \subseteq U[x].missed,
         NEW A, NEW S, Catches(A, X, S)
  PROVE  Catches(A, Y, S)
<1>1. CASE X = {}
  BY <1>1 DEF Catches
<1>2. CASE X # {}
  <2>1. PICK n \in X : ServedLast(n, X) /\ S = Result(n) /\ Fits(A, n, X)
    BY <1>2 DEF Catches
  <2>2. PICK m \in Y : m = U[n] /\ m.kind = n.kind /\ m.id = n.id /\ m.link = n.link
    OBVIOUS
  <2>3. ServedLast(m, Y)
    BY <2>1, <2>2 DEF ServedLast
  <2>4. S = Result(m)
    BY <2>1, <2>2 DEF Result
  <2>5. Fits(A, m, Y)
    <3>1. ASSUME n.kind = "update", A = {}
          PROVE  \E y \in Y : y.kind = "create"
      <4>1. PICK v \in X : v.kind = "create"
        BY <2>1, <3>1 DEF Fits
      <4> QED
        BY <4>1
    <3> QED
      BY <2>1, <2>2, <3>1 DEF Fits
  <2> QED
    BY <2>3, <2>4, <2>5 DEF Catches
<1> QED
  BY <1>1, <1>2

(* One change more, which was served last. *)
LEMMA CatchesOneMore ==
  ASSUME NEW X, NEW A, NEW S, NEW T, Catches(A, X, S), NEW w,
         \A v \in X : v.kind \in Changes /\ w.id \in v.missed,
         w.kind \in Changes, T = Result(w),
         IF w.kind = "create" THEN S = {} /\ X = {} ELSE S # {}
  PROVE  Catches(A, X \cup {w}, T)
<1>1. ServedLast(w, X \cup {w})
  BY DEF ServedLast
<1>2. Fits(A, w, X \cup {w})
  <2>1. CASE w.kind = "create"
    BY <2>1 DEF Fits, Catches
  <2>2. CASE w.kind = "remove"
    BY <2>2 DEF Fits
  <2>3. CASE w.kind = "update"
    <3>1. CASE X = {}
      BY <2>3, <3>1 DEF Catches, Fits
    <3>2. CASE X # {}
      <4>1. PICK n \in X : S = Result(n) /\ Fits(A, n, X)
        BY <3>2 DEF Catches
      <4>2. n.kind # "remove"
        BY <2>3, <4>1 DEF Result
      <4>3. A # {} \/ \E v \in X : v.kind = "create"
        <5>1. CASE n.kind = "create"
          BY <5>1
        <5>2. CASE n.kind = "update"
          BY <4>1, <5>2 DEF Fits
        <5> QED
          BY <4>2, <5>1, <5>2 DEF Changes
      <4> QED
        BY <2>3, <4>3 DEF Fits
    <3> QED
      BY <3>1, <3>2
  <2> QED
    BY <2>1, <2>2, <2>3 DEF Changes
<1> QED
  BY <1>1, <1>2 DEF Catches

(* Dialogs do not matter to what is under way. *)
LEMMA LinksHoldAlike ==
  ASSUME NEW W, NEW V, NEW U \in [W -> V], \A v \in V : \E w \in W : v = U[w],
         \A w \in W : /\ IsWire(U[w]) /\ U[w].kind = w.kind /\ U[w].id = w.id /\ U[w].link = w.link
                      /\ U[w].done = w.done /\ U[w].missed = w.missed /\ U[w].sound = w.sound
                      /\ U[w].answer = w.answer,
         NEW s, NEW l, NEW o, NEW c, LinksHold(W, s, l, o, c)
  PROVE  LinksHold(V, s, l, o, c)
<1>1. WiresShape(V, c)
  <2>1. \A w \in W : Payload(U[w].link, U[w].id) = Payload(w.link, w.id)
    OBVIOUS
  <2> QED
    BY <2>1 DEF LinksHold, WiresShape
<1>2. Order(V)
  <2>0. Order(W)
    BY DEF LinksHold
  <2>1. ASSUME NEW v \in V, NEW w \in V, w.id \in v.missed
        PROVE  /\ v.done /\ v.kind \in Changes \cup {"fetch"}
               /\ Pends(w) /\ v.id \notin w.missed /\ (v.sound => w.sound)
               /\ v.kind \in Changes => v.link.id = w.link.id /\ w.kind # "create" /\ v.kind # "remove"
    <3>1. PICK x \in W, y \in W : v = U[x] /\ w = U[y]
      OBVIOUS
    <3> QED
      BY <2>0, <2>1, <3>1 DEF Order, Pends
  <2>2. ASSUME NEW u \in V, NEW v \in V, NEW w \in V, w.id \in v.missed, v.id \in u.missed
        PROVE  w.id \in u.missed
    <3>1. PICK x \in W, y \in W, z \in W : u = U[x] /\ v = U[y] /\ w = U[z]
      OBVIOUS
    <3> QED
      BY <2>0, <2>2, <3>1 DEF Order
  <2>3. ASSUME NEW f \in V, NEW v \in V, NEW w \in V, f.kind = "fetch", w.id \in f.missed, Pends(v),
               v.link.id = w.link.id, v.id \notin f.missed
        PROVE  w.id \in v.missed
    <3>1. PICK x \in W, y \in W, z \in W : f = U[x] /\ v = U[y] /\ w = U[z]
      OBVIOUS
    <3> QED
      BY <2>0, <2>3, <3>1 DEF Order, Pends
  <2> QED
    BY <2>1, <2>2, <2>3 DEF Order
<1>3. \A i : PendingOf(V, i) = {U[w] : w \in PendingOf(W, i)}
  BY DEF PendingOf, Pends
<1>4. FreshIds(V, s, c)
  BY <1>3 DEF LinksHold, FreshIds, Unused
<1>5. Removed(V, s)
  BY DEF LinksHold, Removed, Pends
<1>6. ServerIs(V, s)
  <2> SUFFICES ASSUME NEW i, Sounds(PendingOf(V, i)) # {}
               PROVE  \E n \in Sounds(PendingOf(V, i)) :
                        ServedLast(n, Sounds(PendingOf(V, i))) /\ Of(s, i) = Result(n)
    BY DEF ServerIs
  <2>1. PICK P, Q : P = PendingOf(W, i) /\ Q = PendingOf(V, i)
    OBVIOUS
  <2>2. Q = {U[w] : w \in P} /\ P \in SUBSET W
    BY <1>3, <2>1 DEF PendingOf
  <2>3. PICK X, Y : X = Sounds(P) /\ Y = Sounds(Q)
    OBVIOUS
  <2>4. X \in SUBSET W /\ \A w \in X : U[w] \in Y
    BY <2>2, <2>3 DEF Sounds
  <2>5. \A y \in Y : \E w \in X : y = U[w]
    BY <2>2, <2>3 DEF Sounds
  <2>6. X # {}
    BY <2>1, <2>3, <2>5
  <2>7. PICK n \in X : ServedLast(n, X) /\ Of(s, i) = Result(n)
    BY <2>1, <2>3, <2>6 DEF LinksHold, ServerIs
  <2>8. ServedLast(U[n], Y)
    BY <2>4, <2>5, <2>7 DEF ServedLast
  <2>9. Result(U[n]) = Result(n)
    BY <2>4 DEF Result
  <2> QED
    BY <2>1, <2>3, <2>4, <2>7, <2>8, <2>9
<1>7. FetchesCatch(V, s)
  <2> SUFFICES ASSUME NEW f \in W, f.kind = "fetch", f.done
               PROVE  /\ IsList(U[f].answer)
                      /\ U[f].sound => \A i : Catches(Of(U[f].answer, i), MissedOf(U[f], V, i), Of(s, i))
    BY DEF FetchesCatch
  <2>1. IsList(f.answer)
    BY DEF LinksHold, FetchesCatch
  <2>2. ASSUME f.sound, NEW i
        PROVE  Catches(Of(f.answer, i), MissedOf(U[f], V, i), Of(s, i))
    <3>1. PICK X, Y : X = MissedOf(f, W, i) /\ Y = MissedOf(U[f], V, i)
      OBVIOUS
    <3>2. Y = {U[w] : w \in X} /\ X \in SUBSET W
      <4>1. PICK P, Q : P = PendingOf(W, i) /\ Q = PendingOf(V, i)
        OBVIOUS
      <4>2. Q = {U[w] : w \in P} /\ P \in SUBSET W
        BY <1>3, <4>1 DEF PendingOf
      <4>3. X = {w \in P : w.id \in f.missed} /\ Y = {w \in Q : w.id \in f.missed}
        BY <3>1, <4>1 DEF MissedOf
      <4> QED
        BY <4>2, <4>3
    <3>3. PICK u \in [X -> Y] : \A x \in X : u[x] = U[x]
      <4>1. [x \in X |-> U[x]] \in [X -> Y]
        BY <3>2
      <4> QED
        BY <4>1
    <3>4. Catches(Of(f.answer, i), X, Of(s, i))
      BY <2>2, <3>1 DEF LinksHold, FetchesCatch
    <3>5. \A y \in Y : \E x \in X : y = u[x]
      BY <3>2, <3>3
    <3>6. \A x \in X : /\ u[x].kind = x.kind /\ u[x].id = x.id /\ u[x].link = x.link
                       /\ x.missed \subseteq u[x].missed
      BY <3>2, <3>3
    <3>7. Catches(Of(f.answer, i), Y, Of(s, i))
      BY <3>4, <3>5, <3>6, CatchesAlike
    <3> QED
      BY <3>1, <3>7
  <2> QED
    BY <2>1, <2>2
<1>8. StoreCatches(V, s, l, o)
  <2> SUFFICES ASSUME ~o, NEW i, \A w \in PendingOf(V, i) : w.sound
               PROVE  Catches(Of(l, i), PendingOf(V, i), Of(s, i))
    BY DEF StoreCatches
  <2>1. PICK X, Y : X = PendingOf(W, i) /\ Y = PendingOf(V, i)
    OBVIOUS
  <2>2. Y = {U[w] : w \in X} /\ X \in SUBSET W
    BY <1>3, <2>1 DEF PendingOf
  <2>3. PICK u \in [X -> Y] : \A x \in X : u[x] = U[x]
    <3>1. [x \in X |-> U[x]] \in [X -> Y]
      BY <2>2
    <3> QED
      BY <3>1
  <2>4. \A x \in X : x.sound
    BY <2>1, <2>2
  <2>5. Catches(Of(l, i), X, Of(s, i))
    BY <2>1, <2>4 DEF LinksHold, StoreCatches
  <2>6. \A y \in Y : \E x \in X : y = u[x]
    BY <2>2, <2>3
  <2>7. \A x \in X : /\ u[x].kind = x.kind /\ u[x].id = x.id /\ u[x].link = x.link
                     /\ x.missed \subseteq u[x].missed
    BY <2>2, <2>3
  <2>8. Catches(Of(l, i), Y, Of(s, i))
    BY <2>5, <2>6, <2>7, CatchesAlike
  <2> QED
    BY <2>1, <2>8
<1> QED
  BY <1>1, <1>2, <1>4, <1>5, <1>6, <1>7, <1>8 DEF LinksHold

(* What is neither a change nor served may come and go. *)
LEMMA LinksHoldWithout ==
  ASSUME NEW W, NEW w \in W, ~Pends(w), NEW s, NEW l, NEW o, NEW c, LinksHold(W, s, l, o, c)
  PROVE  LinksHold(W \ {w}, s, l, o, c)
<1>1. PICK V \in SUBSET W : V = W \ {w}
  OBVIOUS
<1>2. \A i : PendingOf(V, i) = PendingOf(W, i)
  BY <1>1 DEF PendingOf
<1>3. \A f, i : MissedOf(f, V, i) = MissedOf(f, W, i)
  BY <1>2 DEF MissedOf
<1>4. WiresShape(V, c) /\ Order(V)
  BY DEF LinksHold, WiresShape, Order
<1>5. FreshIds(V, s, c) /\ Removed(V, s)
  BY <1>2 DEF LinksHold, FreshIds, Unused, Removed
<1>6. ServerIs(V, s) /\ FetchesCatch(V, s) /\ StoreCatches(V, s, l, o)
  BY <1>2, <1>3 DEF LinksHold, ServerIs, FetchesCatch, StoreCatches
<1> QED
  BY <1>1, <1>4, <1>5, <1>6 DEF LinksHold

LEMMA LinksHoldWith ==
  ASSUME NEW W, NEW s, NEW l, NEW o, NEW c, LinksHold(W, s, l, o, c),
         NEW d \in Nat, c <= d, d <= MaxClicks,
         NEW w, IsWire(w), w.id \in 0..(d - 1), w.done = FALSE, w.missed = {}, w.sound = TRUE,
         \A v \in W : v.id # w.id /\ w.id \notin v.missed,
         w.kind = "create" => Unused(W, c, w.id) /\ Payload(w.link, w.id).id = w.id
  PROVE  LinksHold(W \cup {w}, s, l, o, d)
<1>1. PICK V : V = W \cup {w}
  OBVIOUS
<1>2. \A i : PendingOf(V, i) = PendingOf(W, i)
  BY <1>1 DEF PendingOf, Pends
<1>3. \A f, i : MissedOf(f, V, i) = MissedOf(f, W, i)
  BY <1>2 DEF MissedOf
<1>4. WiresShape(V, d)
  <2>1. c \in Nat /\ \A k \in 0..(c - 1) : k \in 0..(d - 1)
    BY DEF LinksHold, WiresShape
  <2>2. ASSUME NEW v \in W
        PROVE  /\ IsWire(v) /\ v.id \in 0..(d - 1) /\ v.done \in BOOLEAN /\ v.sound \in BOOLEAN
               /\ v.missed \subseteq 0..(d - 1) /\ (~v.done => v.missed = {} /\ v.sound)
               /\ v.kind = "create" /\ ~v.done => Payload(v.link, v.id).id = v.id
    BY <2>1 DEF LinksHold, WiresShape
  <2>3. \A u, v \in V : u.id = v.id => u = v
    BY <1>1 DEF LinksHold, WiresShape
  <2> QED
    BY <1>1, <2>2, <2>3 DEF WiresShape
<1>5. Order(V)
  BY <1>1 DEF LinksHold, Order, Pends
<1>6. FreshIds(V, s, d)
  <2>1. ASSUME NEW k \in 0..(MaxClicks - 1), Unused(V, d, k)
        PROVE  Unused(W, c, k)
    <3>1. CASE k >= d
      <4>1. c \in Int /\ k \in Int
        BY LinksAssumption DEF LinksHold, WiresShape
      <4> QED
        BY <3>1, <4>1 DEF Unused
    <3>2. CASE \E v \in V : v.id = k /\ v.kind = "create" /\ ~v.done
      BY <1>1, <3>2 DEF Unused
    <3> QED
      BY <2>1, <3>1, <3>2 DEF Unused
  <2> QED
    BY <1>2, <2>1 DEF LinksHold, FreshIds
<1>7. Removed(V, s)
  BY <1>1 DEF LinksHold, Removed, Pends
<1>8. ServerIs(V, s) /\ FetchesCatch(V, s) /\ StoreCatches(V, s, l, o)
  BY <1>1, <1>2, <1>3 DEF LinksHold, ServerIs, FetchesCatch, StoreCatches
<1> QED
  BY <1>1, <1>4, <1>5, <1>6, <1>7, <1>8 DEF LinksHold

(* The server answers w, as U[w]; U is what becomes of the wires. *)
Answered(W, w, V, U) ==
  /\ U \in [W -> V] /\ V = {U[v] : v \in W} /\ U[w].done = TRUE /\ U[w].missed = {}
  /\ \A v \in W : IsWire(U[v]) /\ U[v].kind = v.kind /\ U[v].id = v.id /\ U[v].sound = v.sound
  /\ \A v \in W : v # w =>
       /\ U[v].link = v.link /\ U[v].done = v.done /\ U[v].answer = v.answer
       /\ U[v].missed = IF w.kind \in Changes /\ Late(v, w, U[w].link)
                        THEN v.missed \cup {w.id} ELSE v.missed

LEMMA LinksHoldServed ==
  ASSUME NEW W, NEW s, NEW l, NEW o, NEW c, LinksHold(W, s, l, o, c),
         NEW w \in W, ~w.done, NEW V, NEW U, Answered(W, w, V, U),
         w.kind = "fetch" => U[w].answer = s,
         NEW r, r = IF w.kind \in Changes THEN Changed(s, U[w]) ELSE s,
         w.kind = "create" => U[w].link.id = w.id,
         w.kind \in {"update", "remove"} => Of(s, U[w].link.id) # {}
  PROVE  LinksHold(V, r, l, o, c)
<1>0. PICK x, j : x = U[w] /\ j = x.link.id
  OBVIOUS
<1>1. x = U[w] /\ j = x.link.id /\ x.kind = w.kind /\ x.id = w.id /\ x.done /\ x.missed = {} /\ x \in V
  BY <1>0 DEF Answered
<1>a. /\ \A v \in W : U[v] \in V /\ IsWire(U[v]) /\ U[v].kind = v.kind /\ U[v].id = v.id /\ U[v].sound = v.sound
      /\ \A y \in V : \E v \in W : y = U[v]
  BY DEF Answered
<1>b. \A v \in W : v # w => U[v].link = v.link /\ U[v].done = v.done /\ U[v].answer = v.answer
  BY DEF Answered
<1>c. \A v \in W : v # w /\ w.kind \in Changes /\ Late(v, w, x.link) => U[v].missed = v.missed \cup {w.id}
  BY <1>1 DEF Answered
<1>d. \A v \in W : v # w /\ ~ (w.kind \in Changes /\ Late(v, w, x.link)) => U[v].missed = v.missed
  BY <1>1 DEF Answered
<1>e. \A v \in W : v.missed \subseteq U[v].missed \/ v = w
  BY <1>c, <1>d
<1>2. w.sound /\ w.missed = {} /\ w.id \in 0..(c - 1) /\ c \in Nat /\ c <= MaxClicks
  BY DEF LinksHold, WiresShape
<1>3. \A v \in W : w.id \notin v.missed
  BY DEF LinksHold, Order, Pends
<1>4. \A v \in W : v.id = w.id => v = w
  BY DEF LinksHold, WiresShape
<1>5. ASSUME w.kind = "create"
      PROVE  j = w.id /\ Of(s, j) = {} /\ PendingOf(W, j) = {}
  <2>1. j = w.id /\ w.id \in 0..(MaxClicks - 1) /\ Unused(W, c, w.id)
    BY <1>1, <1>2, <1>5, LinksAssumption DEF Unused
  <2> QED
    BY <2>1 DEF LinksHold, FreshIds
<1>6. w.kind \in {"update", "remove"} => Of(s, j) # {}
  BY <1>1, Zenon
<1>7. ASSUME w.kind \in Changes
      PROVE  IsList(r) /\ Of(r, j) = Result(x) /\ \A i : i # j => Of(r, i) = Of(s, i)
  <2>1. /\ IsList(Changed(s, x)) /\ \A i : i # j => Of(Changed(s, x), i) = Of(s, i)
        /\ x.kind = "create" => Of(Changed(s, x), j) = Of(s, j) \cup {x.link}
        /\ x.kind = "update" => Of(Changed(s, x), j) = IF Of(s, j) = {} THEN {} ELSE {x.link}
        /\ x.kind = "remove" => Of(Changed(s, x), j) = {}
    <3>1. IsList(s) /\ x.kind \in Changes /\ x.link.id = j
      BY <1>1, <1>7 DEF LinksHold
    <3>2. PICK q : q = Changed(s, x)
      OBVIOUS
    <3>3. /\ IsList(q) /\ \A i : i # x.link.id => Of(q, i) = Of(s, i)
          /\ x.kind = "create" => Of(q, x.link.id) = Of(s, x.link.id) \cup {x.link}
          /\ x.kind = "update" => Of(q, x.link.id) = IF Of(s, x.link.id) = {} THEN {} ELSE {x.link}
          /\ x.kind = "remove" => Of(q, x.link.id) = {}
      <4>1. IsList(q) /\ \A i : i # x.link.id => Of(q, i) = Of(s, i)
        <5>1. IsList(q)
          BY <3>1, <3>2, ChangedIs
        <5>2. ASSUME NEW i, i # x.link.id
              PROVE  Of(q, i) = Of(s, i)
          BY <3>1, <3>2, <5>2, OthersStay
        <5> QED
          BY <5>1, <5>2
      <4>2. x.kind = "create" => Of(q, x.link.id) = Of(s, x.link.id) \cup {x.link}
        BY <3>1, <3>2, ChangedIs
      <4>3. x.kind = "update" => Of(q, x.link.id) = IF Of(s, x.link.id) = {} THEN {} ELSE {x.link}
        BY <3>1, <3>2, ChangedIs
      <4>4. x.kind = "remove" => Of(q, x.link.id) = {}
        BY <3>1, <3>2, ChangedIs
      <4> QED
        BY <4>1, <4>2, <4>3, <4>4
    <3> QED
      BY <3>1, <3>2, <3>3
  <2>2. r = Changed(s, x)
    BY <1>1, <1>7
  <2> QED
    BY <1>1, <1>5, <1>6, <1>7, <2>1, <2>2 DEF Result, Changes
<1>8. ASSUME NEW i
      PROVE  PendingOf(V, i) = {U[v] : v \in PendingOf(W, i)} \cup
                               (IF w.kind \in Changes /\ i = j THEN {x} ELSE {})
  <2>1. \A v \in W \ {w} : U[v] \in PendingOf(V, i) <=> v \in PendingOf(W, i)
    BY <1>a, <1>b DEF PendingOf, Pends
  <2>2. w \notin PendingOf(W, i) /\ (x \in PendingOf(V, i) <=> w.kind \in Changes /\ i = j)
    BY <1>1 DEF PendingOf, Pends
  <2>3. PICK P, Q : P = PendingOf(W, i) /\ Q = PendingOf(V, i)
    OBVIOUS
  <2>4. Q \in SUBSET V /\ P \in SUBSET W
    BY <2>3 DEF PendingOf
  <2> QED
    BY <1>1, <1>a, <2>1, <2>2, <2>3, <2>4
<1>10. ASSUME w.kind \in Changes, NEW v \in PendingOf(W, j)
       PROVE  v \in W /\ v # w /\ w.id \in U[v].missed /\ w.kind # "create" /\ v.kind # "remove"
  <2>1. v \in W /\ v # w /\ Pends(v) /\ v.link.id = j
    BY DEF PendingOf, Pends
  <2>2. w.id \in U[v].missed
    BY <1>1, <1>c, <1>10, <2>1 DEF Late, Pends
  <2>3. w.kind # "create"
    BY <1>5, <1>10
  <2>4. v.kind # "remove"
    BY <1>6, <1>10, <2>1, <2>3 DEF LinksHold, Removed, Changes
  <2> QED
    BY <2>1, <2>2, <2>3, <2>4
<1>11. WiresShape(V, c)
  <2>1. ASSUME NEW v \in W
        PROVE  /\ IsWire(U[v]) /\ U[v].id \in 0..(c - 1) /\ U[v].done \in BOOLEAN /\ U[v].sound \in BOOLEAN
               /\ U[v].missed \subseteq 0..(c - 1) /\ (~U[v].done => U[v].missed = {} /\ U[v].sound)
               /\ U[v].kind = "create" /\ ~U[v].done => Payload(U[v].link, U[v].id).id = U[v].id
    <3>1. CASE v = w
      BY <1>1, <1>2, <1>a, <3>1
    <3>2. CASE v # w
      <4>1. /\ v.id \in 0..(c - 1) /\ v.done \in BOOLEAN /\ v.sound \in BOOLEAN
            /\ v.missed \subseteq 0..(c - 1) /\ (~v.done => v.missed = {} /\ v.sound)
            /\ v.kind = "create" /\ ~v.done => Payload(v.link, v.id).id = v.id
        BY DEF LinksHold, WiresShape
      <4>2. U[v].missed = v.missed \/ (v.done /\ U[v].missed = v.missed \cup {w.id})
        BY <1>c, <1>d, <3>2 DEF Late
      <4>3. U[v].link = v.link /\ U[v].done = v.done
        BY <1>b, <3>2
      <4> QED
        BY <1>2, <1>a, <4>1, <4>2, <4>3
    <3> QED
      BY <3>1, <3>2
  <2>2. \A u, v \in W : U[u].id = U[v].id => U[u] = U[v]
    BY <1>a DEF LinksHold, WiresShape
  <2>3. \A y, z \in V : y.id = z.id => y = z
    BY <1>a, <2>2
  <2>4. \A y \in V : /\ IsWire(y) /\ y.id \in 0..(c - 1) /\ y.done \in BOOLEAN /\ y.sound \in BOOLEAN
                     /\ y.missed \subseteq 0..(c - 1) /\ (~y.done => y.missed = {} /\ y.sound)
                     /\ y.kind = "create" /\ ~y.done => Payload(y.link, y.id).id = y.id
    BY <1>a, <2>1
  <2> QED
    BY <1>2, <2>3, <2>4 DEF WiresShape
<1>12. ASSUME NEW i, NEW P \in SUBSET PendingOf(W, i), NEW A, Catches(A, P, Of(s, i))
       PROVE  Catches(A, {U[v] : v \in P} \cup (IF w.kind \in Changes /\ i = j THEN {x} ELSE {}), Of(r, i))
  <2>1. PICK Q : Q = {U[v] : v \in P}
    OBVIOUS
  <2>2. \A v \in P : v \in W /\ v # w /\ v.kind \in Changes
    BY DEF PendingOf, Pends
  <2>3. PICK u \in [P -> Q] : \A v \in P : u[v] = U[v]
    <3>1. [v \in P |-> U[v]] \in [P -> Q]
      BY <2>1
    <3> QED
      BY <3>1
  <2>4. /\ \A y \in Q : \E v \in P : y = u[v]
        /\ \A v \in P : /\ u[v].kind = v.kind /\ u[v].id = v.id /\ u[v].link = v.link
                        /\ v.missed \subseteq u[v].missed
    <3>1. \A v \in P : U[v].link = v.link /\ U[v].kind = v.kind /\ U[v].id = v.id /\ v.missed \subseteq U[v].missed
      BY <1>a, <1>b, <1>e, <2>2
    <3> QED
      BY <2>1, <2>3, <3>1
  <2>5. Catches(A, Q, Of(s, i))
    BY <1>12, <2>4, CatchesAlike
  <2>6. CASE ~ (w.kind \in Changes /\ i = j)
    <3>1. Of(r, i) = Of(s, i)
      BY <1>7, <2>6
    <3> QED
      BY <2>1, <2>5, <2>6, <3>1
  <2>7. CASE w.kind \in Changes /\ i = j
    <3>1. \A y \in Q : y.kind \in Changes /\ x.id \in y.missed
      BY <1>1, <1>a, <1>10, <2>1, <2>2, <2>7
    <3>2. IF x.kind = "create" THEN Of(s, i) = {} /\ Q = {} ELSE Of(s, i) # {}
      BY <1>1, <1>5, <1>6, <2>1, <2>7 DEF Changes
    <3>3. x.kind \in Changes /\ Of(r, i) = Result(x)
      BY <1>1, <1>7, <2>7
    <3>4. Catches(A, Q \cup {x}, Of(r, i))
      BY <2>5, <3>1, <3>2, <3>3, CatchesOneMore
    <3> QED
      BY <2>1, <2>7, <3>4
  <2> QED
    BY <2>6, <2>7
<1>13. Order(V)
  <2>0. Order(W)
    BY DEF LinksHold
  <2>1. ASSUME NEW v \in W, NEW y \in W, U[y].id \in U[v].missed
        PROVE  /\ U[v].done /\ U[v].kind \in Changes \cup {"fetch"}
               /\ Pends(U[y]) /\ U[v].id \notin U[y].missed /\ (U[v].sound => U[y].sound)
               /\ U[v].kind \in Changes =>
                    U[v].link.id = U[y].link.id /\ U[y].kind # "create" /\ U[v].kind # "remove"
    <3>1. v # w /\ U[y].id = y.id /\ U[v].id = v.id /\ U[v].link = v.link /\ U[v].done = v.done
      BY <1>1, <1>a, <1>b, <2>1
    <3>2. CASE y.id \in v.missed
      <4>1. y # w
        BY <1>3, <3>2
      <4>2. /\ v.done /\ v.kind \in Changes \cup {"fetch"}
            /\ Pends(y) /\ v.id \notin y.missed /\ (v.sound => y.sound)
            /\ v.kind \in Changes => v.link.id = y.link.id /\ y.kind # "create" /\ v.kind # "remove"
        BY <2>0, <3>2 DEF Order
      <4>3. v.id # w.id /\ (U[y].missed = y.missed \/ U[y].missed = y.missed \cup {w.id})
        BY <1>4, <1>c, <1>d, <3>1, <4>1
      <4>4. U[y].link = y.link /\ U[y].done = y.done /\ U[y].kind = y.kind /\ U[v].kind = v.kind
            /\ U[y].sound = y.sound /\ U[v].sound = v.sound
        BY <1>a, <1>b, <4>1
      <4> QED
        BY <3>1, <4>2, <4>3, <4>4 DEF Pends
    <3>3. CASE y.id \notin v.missed
      <4>1. w.kind \in Changes /\ Late(v, w, x.link) /\ y = w
        BY <1>4, <1>c, <1>d, <2>1, <3>1, <3>3
      <4>2. v.done /\ v.kind \in Changes \cup {"fetch"} /\ Pends(x) /\ x.missed = {} /\ x.sound
        BY <1>1, <1>2, <1>a, <4>1 DEF Late, Pends
      <4>3. v.kind \in Changes => v \in PendingOf(W, j)
        BY <1>1, <4>1, <4>2 DEF Late, PendingOf, Pends, Changes
      <4>4. U[v].kind = v.kind /\ U[v].sound = v.sound /\ U[y] = x
        BY <1>1, <1>a, <4>1
      <4>5. v.kind \in Changes => v.link.id = j /\ w.kind # "create" /\ v.kind # "remove"
        BY <1>10, <4>1, <4>3 DEF PendingOf
      <4> QED
        BY <1>1, <3>1, <4>2, <4>4, <4>5
    <3> QED
      BY <3>2, <3>3
  <2>2. ASSUME NEW u \in W, NEW v \in W, NEW y \in W, U[y].id \in U[v].missed, U[v].id \in U[u].missed
        PROVE  U[y].id \in U[u].missed
    <3>1. v # w /\ u # w /\ U[y].id = y.id /\ U[v].id = v.id
      BY <1>1, <1>a, <2>2
    <3>2. v.id \in u.missed
      BY <1>4, <1>c, <1>d, <2>2, <3>1
    <3>3. u.done /\ Pends(v) /\ (u.kind = "fetch" \/ (u.kind \in Changes /\ u.link.id = v.link.id))
      BY <2>0, <3>2 DEF Order
    <3>4. CASE y.id \in v.missed
      <4>1. y.id \in u.missed
        BY <2>0, <3>2, <3>4 DEF Order
      <4> QED
        BY <1>e, <3>1, <4>1
    <3>5. CASE y.id \notin v.missed
      <4>1. w.kind \in Changes /\ Late(v, w, x.link) /\ y = w
        BY <1>4, <1>c, <1>d, <2>2, <3>1, <3>5
      <4>2. Late(u, w, x.link)
        BY <3>3, <4>1 DEF Late, Pends, Changes
      <4> QED
        BY <1>c, <3>1, <4>1, <4>2
    <3> QED
      BY <3>4, <3>5
  <2>3. ASSUME NEW f \in W, NEW v \in W, NEW y \in W, U[f].kind = "fetch", U[y].id \in U[f].missed,
               Pends(U[v]), U[v].link.id = U[y].link.id, U[v].id \notin U[f].missed
        PROVE  U[y].id \in U[v].missed
    <3>1. f # w /\ f.kind = "fetch" /\ U[y].id = y.id /\ U[v].id = v.id /\ U[v].kind = v.kind
      BY <1>1, <1>a, <2>3
    <3>2. CASE y.id \in f.missed
      <4>1. y # w /\ f.done
        BY <1>3, <2>0, <3>2 DEF Order
      <4>2. v # w
        <5>1. ASSUME v = w
              PROVE  FALSE
          <6>1. w.kind \in Changes /\ Late(f, w, x.link)
            BY <2>3, <3>1, <4>1, <5>1 DEF Late, Pends
          <6> QED
            BY <1>c, <2>3, <3>1, <5>1, <6>1
        <5> QED
          BY <5>1
      <4>3. Pends(v) /\ v.link.id = y.link.id /\ v.id \notin f.missed
        BY <1>b, <1>e, <2>3, <3>1, <4>1, <4>2 DEF Pends
      <4>4. y.id \in v.missed
        BY <2>0, <3>1, <3>2, <4>3 DEF Order
      <4> QED
        BY <1>e, <3>1, <4>2, <4>4
    <3>3. CASE y.id \notin f.missed
      <4>1. w.kind \in Changes /\ y = w
        BY <1>4, <1>c, <1>d, <2>3, <3>1, <3>3
      <4>2. v # w
        BY <2>3, <4>1
      <4>3. Late(v, w, x.link)
        BY <1>1, <1>b, <2>3, <3>1, <4>1, <4>2 DEF Late, Pends
      <4> QED
        BY <1>c, <3>1, <4>1, <4>2, <4>3
    <3> QED
      BY <3>2, <3>3
  <2> QED
    BY <1>a, <2>1, <2>2, <2>3 DEF Order
<1>14. FreshIds(V, r, c)
  <2> SUFFICES ASSUME NEW k \in 0..(MaxClicks - 1), Unused(V, c, k)
               PROVE  Of(r, k) = {} /\ PendingOf(V, k) = {}
    BY DEF FreshIds
  <2>1. k # w.id /\ Unused(W, c, k)
    <3>1. CASE k >= c
      BY <1>2, <3>1, LinksAssumption DEF Unused
    <3>2. CASE \E y \in V : y.id = k /\ y.kind = "create" /\ ~y.done
      <4>1. PICK v \in W : U[v].id = k /\ U[v].kind = "create" /\ ~U[v].done
        BY <1>a, <3>2
      <4>2. v # w /\ v.id = k /\ v.kind = "create" /\ ~v.done
        BY <1>1, <1>a, <1>b, <4>1
      <4> QED
        BY <1>4, <4>2 DEF Unused
    <3> QED
      BY <3>1, <3>2 DEF Unused
  <2>2. Of(s, k) = {} /\ PendingOf(W, k) = {}
    BY <2>1 DEF LinksHold, FreshIds
  <2>3. w.kind \in Changes => k # j
    BY <1>5, <1>6, <2>1, <2>2 DEF Changes
  <2> QED
    BY <1>7, <1>8, <2>2, <2>3
<1>15. Removed(V, r)
  <2> SUFFICES ASSUME NEW v \in W, Pends(U[v]), v.kind = "remove"
               PROVE  Of(r, U[v].link.id) = {}
    BY <1>a DEF Removed
  <2>1. CASE v = w
    BY <1>1, <1>7, <2>1 DEF Result, Changes
  <2>2. CASE v # w
    <3>1. Pends(v) /\ v.link = U[v].link
      BY <1>a, <1>b, <2>2 DEF Pends
    <3>2. Of(s, v.link.id) = {}
      BY <3>1 DEF LinksHold, Removed
    <3>3. w.kind \in Changes => v.link.id # j
      BY <1>10, <3>1 DEF PendingOf
    <3> QED
      BY <1>7, <3>1, <3>2, <3>3
  <2> QED
    BY <2>1, <2>2
<1>16. ServerIs(V, r)
  <2> SUFFICES ASSUME NEW i, Sounds(PendingOf(V, i)) # {}
               PROVE  \E n \in Sounds(PendingOf(V, i)) :
                        ServedLast(n, Sounds(PendingOf(V, i))) /\ Of(r, i) = Result(n)
    BY DEF ServerIs
  <2>1. PICK P, Q : P = PendingOf(W, i) /\ Q = PendingOf(V, i)
    OBVIOUS
  <2>2. Q = {U[v] : v \in P} \cup (IF w.kind \in Changes /\ i = j THEN {x} ELSE {})
    BY <1>8, <2>1
  <2>6. \A v \in P : v \in W /\ v # w
    BY <2>1 DEF PendingOf, Pends
  <2>3. PICK X, Y : X = Sounds(P) /\ Y = Sounds(Q)
    OBVIOUS
  <2>4. CASE w.kind \in Changes /\ i = j
    <3>1. x \in Y
      BY <1>1, <1>2, <1>a, <2>2, <2>3, <2>4 DEF Sounds
    <3>2. \A y \in Y : y = x \/ x.id \in y.missed
      <4>1. \A y \in Q : y = x \/ \E v \in P : y = U[v]
        BY <2>2
      <4> QED
        BY <1>1, <1>10, <2>1, <2>3, <2>4, <4>1 DEF Sounds
    <3> QED
      BY <1>7, <2>1, <2>3, <2>4, <3>1, <3>2 DEF ServedLast
  <2>5. CASE ~ (w.kind \in Changes /\ i = j)
    <3>1. Q = {U[v] : v \in P}
      BY <2>2, <2>5
    <3>2. \A v \in X : v \in W /\ v # w /\ U[v] \in Y
      BY <1>a, <2>3, <2>6, <3>1 DEF Sounds
    <3>3. \A y \in Y : \E v \in X : y = U[v]
      BY <1>a, <2>3, <2>6, <3>1 DEF Sounds
    <3>4. X # {}
      BY <2>1, <2>3, <3>3
    <3>5. PICK n \in X : ServedLast(n, X) /\ Of(s, i) = Result(n)
      BY <2>1, <2>3, <3>4 DEF LinksHold, ServerIs
    <3>6. ServedLast(U[n], Y)
      BY <1>a, <1>e, <3>2, <3>3, <3>5 DEF ServedLast
    <3>7. Result(U[n]) = Result(n)
      BY <1>a, <1>b, <3>2 DEF Result
    <3>8. Of(r, i) = Of(s, i)
      BY <1>7, <2>5
    <3> QED
      BY <2>1, <2>3, <3>2, <3>5, <3>6, <3>7, <3>8
  <2> QED
    BY <2>4, <2>5
<1>17. FetchesCatch(V, r)
  <2> SUFFICES ASSUME NEW f \in W, f.kind = "fetch", U[f].done
               PROVE  /\ IsList(U[f].answer)
                      /\ U[f].sound => \A i : Catches(Of(U[f].answer, i), MissedOf(U[f], V, i), Of(r, i))
    BY <1>a DEF FetchesCatch
  <2>1. CASE f = w
    <3>1. U[f].answer = s /\ r = s /\ IsList(s) /\ U[f].missed = {}
      BY <1>1, <2>1 DEF LinksHold, Changes
    <3>2. \A i : MissedOf(U[f], V, i) = {}
      BY <3>1 DEF MissedOf
    <3> QED
      BY <3>1, <3>2 DEF Catches
  <2>2. CASE f # w
    <3>1. f.done /\ U[f].answer = f.answer /\ IsList(f.answer)
      BY <1>b, <2>2 DEF LinksHold, FetchesCatch
    <3>2. ASSUME f.sound, NEW i
          PROVE  Catches(Of(f.answer, i), MissedOf(U[f], V, i), Of(r, i))
      <4>1. PICK P : P = MissedOf(f, W, i)
        OBVIOUS
      <4>2. P \in SUBSET PendingOf(W, i) /\ Catches(Of(f.answer, i), P, Of(s, i))
        BY <3>1, <3>2, <4>1 DEF MissedOf, LinksHold, FetchesCatch
      <4>3. MissedOf(U[f], V, i) = {U[v] : v \in P} \cup (IF w.kind \in Changes /\ i = j THEN {x} ELSE {})
        <5>1. PICK R, Q : R = PendingOf(W, i) /\ Q = PendingOf(V, i)
          OBVIOUS
        <5>6. \A v \in R : v \in W /\ v # w
          BY <5>1 DEF PendingOf, Pends
        <5>2. \A v \in R : U[v].id \in U[f].missed <=> v.id \in f.missed
          BY <1>4, <1>a, <1>c, <1>d, <2>2, <5>6
        <5>3. w.kind \in Changes => x.id \in U[f].missed
          BY <1>1, <1>c, <2>2, <3>1 DEF Late
        <5>4. Q = {U[v] : v \in R} \cup (IF w.kind \in Changes /\ i = j THEN {x} ELSE {})
          BY <1>8, <5>1
        <5>5. P = {v \in R : v.id \in f.missed} /\ MissedOf(U[f], V, i) = {v \in Q : v.id \in U[f].missed}
          BY <4>1, <5>1 DEF MissedOf
        <5> QED
          BY <5>2, <5>3, <5>4, <5>5
      <4> QED
        BY <1>12, <4>2, <4>3
    <3> QED
      BY <1>a, <3>1, <3>2
  <2> QED
    BY <2>1, <2>2
<1>18. StoreCatches(V, r, l, o)
  <2> SUFFICES ASSUME ~o, NEW i, \A v \in PendingOf(V, i) : v.sound
               PROVE  Catches(Of(l, i), PendingOf(V, i), Of(r, i))
    BY DEF StoreCatches
  <2>1. \A v \in PendingOf(W, i) : v.sound
    <3>1. PICK P, Q : P = PendingOf(W, i) /\ Q = PendingOf(V, i) /\ P \in SUBSET W
      BY DEF PendingOf
    <3>2. \A v \in P : U[v] \in Q
      BY <1>8, <3>1
    <3> QED
      BY <1>a, <3>1, <3>2
  <2>2. Catches(Of(l, i), PendingOf(W, i), Of(s, i))
    BY <2>1 DEF LinksHold, StoreCatches
  <2> QED
    BY <1>8, <1>12, <2>2
<1>19. IsList(r) /\ IsList(l)
  BY <1>7 DEF LinksHold
<1> QED
  BY <1>11, <1>13, <1>14, <1>15, <1>16, <1>17, <1>18, <1>19 DEF LinksHold

(* A pending change w lands, or its answer is lost: what was served before *)
(* it and knows nothing of it is no longer sound.                          *)
Spoiled(W, w, V, U) ==
  /\ U \in [W \ {w} -> V] /\ V = {U[v] : v \in W \ {w}}
  /\ \A v \in W : v # w =>
       /\ IsWire(U[v]) /\ U[v].kind = v.kind /\ U[v].id = v.id /\ U[v].link = v.link
       /\ U[v].done = v.done /\ U[v].missed = v.missed /\ U[v].answer = v.answer
       /\ U[v].sound \in BOOLEAN /\ (U[v].sound <=> v.sound /\ w.id \notin v.missed)

LEMMA LinksHoldSpoiled ==
  ASSUME NEW W, NEW s, NEW l, NEW o, NEW c, LinksHold(W, s, l, o, c),
         NEW w \in W, Pends(w), NEW V, NEW U, Spoiled(W, w, V, U),
         NEW m, NEW p, \/ m = Changed(l, w) /\ p = (o \/ ~w.sound)
                       \/ m = l /\ p = TRUE
  PROVE  LinksHold(V, s, m, p, c)
<1>1. /\ \A v \in W : v # w => U[v] \in V
      /\ \A y \in V : \E v \in W : v # w /\ y = U[v]
  BY DEF Spoiled
<1>2. \A v \in W : v # w =>
        /\ IsWire(U[v]) /\ U[v].kind = v.kind /\ U[v].id = v.id /\ U[v].link = v.link
        /\ U[v].done = v.done /\ U[v].missed = v.missed /\ U[v].answer = v.answer
  BY DEF Spoiled
<1>3. \A v \in W : v # w => U[v].sound \in BOOLEAN /\ (U[v].sound <=> v.sound /\ w.id \notin v.missed)
  BY DEF Spoiled
<1>4. Order(W)
  BY DEF LinksHold
<1>5. \A v \in W : v.id = w.id => v = w
  BY DEF LinksHold, WiresShape
<1>6. WiresShape(V, c)
  <2>1. ASSUME NEW v \in W, v # w
        PROVE  /\ IsWire(U[v]) /\ U[v].id \in 0..(c - 1) /\ U[v].done \in BOOLEAN /\ U[v].sound \in BOOLEAN
               /\ U[v].missed \subseteq 0..(c - 1) /\ (~U[v].done => U[v].missed = {} /\ U[v].sound)
               /\ U[v].kind = "create" /\ ~U[v].done => Payload(U[v].link, U[v].id).id = U[v].id
    <3>1. /\ v.id \in 0..(c - 1) /\ v.done \in BOOLEAN
          /\ v.missed \subseteq 0..(c - 1) /\ (~v.done => v.missed = {} /\ v.sound)
          /\ v.kind = "create" /\ ~v.done => Payload(v.link, v.id).id = v.id
      BY DEF LinksHold, WiresShape
    <3> QED
      BY <1>2, <1>3, <2>1, <3>1
  <2>2. \A u, v \in W : u.id = v.id => u = v
    BY DEF LinksHold, WiresShape
  <2>3. \A y, z \in V : y.id = z.id => y = z
    BY <1>1, <1>2, <2>2
  <2>4. \A y \in V : /\ IsWire(y) /\ y.id \in 0..(c - 1) /\ y.done \in BOOLEAN /\ y.sound \in BOOLEAN
                     /\ y.missed \subseteq 0..(c - 1) /\ (~y.done => y.missed = {} /\ y.sound)
                     /\ y.kind = "create" /\ ~y.done => Payload(y.link, y.id).id = y.id
    BY <1>1, <2>1
  <2>5. c \in Nat /\ c <= MaxClicks
    BY DEF LinksHold, WiresShape
  <2> QED
    BY <2>3, <2>4, <2>5 DEF WiresShape
<1>7. Order(V)
  <2>1. ASSUME NEW v \in W, NEW y \in W, v # w, y # w, U[y].id \in U[v].missed
        PROVE  /\ U[v].done /\ U[v].kind \in Changes \cup {"fetch"}
               /\ Pends(U[y]) /\ U[v].id \notin U[y].missed /\ (U[v].sound => U[y].sound)
               /\ U[v].kind \in Changes =>
                    U[v].link.id = U[y].link.id /\ U[y].kind # "create" /\ U[v].kind # "remove"
    <3>1. y.id \in v.missed
      BY <1>2, <2>1
    <3>2. /\ v.done /\ v.kind \in Changes \cup {"fetch"}
          /\ Pends(y) /\ v.id \notin y.missed /\ (v.sound => y.sound)
          /\ v.kind \in Changes => v.link.id = y.link.id /\ y.kind # "create" /\ v.kind # "remove"
      BY <1>4, <3>1 DEF Order
    <3>3. w.id \in y.missed => w.id \in v.missed
      BY <1>4, <3>1 DEF Order
    <3>4. U[v].sound => U[y].sound
      BY <1>3, <2>1, <3>2, <3>3
    <3> QED
      BY <1>2, <2>1, <3>2, <3>4 DEF Pends
  <2>2. ASSUME NEW u \in W, NEW v \in W, NEW y \in W, u # w, v # w, y # w,
               U[y].id \in U[v].missed, U[v].id \in U[u].missed
        PROVE  U[y].id \in U[u].missed
    BY <1>2, <1>4, <2>2 DEF Order
  <2>3. ASSUME NEW f \in W, NEW v \in W, NEW y \in W, f # w, v # w, y # w,
               U[f].kind = "fetch", U[y].id \in U[f].missed,
               Pends(U[v]), U[v].link.id = U[y].link.id, U[v].id \notin U[f].missed
        PROVE  U[y].id \in U[v].missed
    BY <1>2, <1>4, <2>3 DEF Order, Pends
  <2> QED
    BY <1>1, <2>1, <2>2, <2>3 DEF Order
<1>8. \A i : \A v \in W : v # w => (U[v] \in PendingOf(V, i) <=> v \in PendingOf(W, i))
  BY <1>1, <1>2 DEF PendingOf, Pends
<1>9. \A i : \A y \in PendingOf(V, i) : \E v \in PendingOf(W, i) : v # w /\ y = U[v]
  BY <1>1, <1>8 DEF PendingOf
<1>10. FreshIds(V, s, c)
  <2> SUFFICES ASSUME NEW k \in 0..(MaxClicks - 1), Unused(V, c, k)
               PROVE  Of(s, k) = {} /\ PendingOf(V, k) = {}
    BY DEF FreshIds
  <2>1. Unused(W, c, k)
    BY <1>1, <1>2 DEF Unused
  <2> QED
    BY <1>9, <2>1 DEF LinksHold, FreshIds
<1>11. Removed(V, s)
  BY <1>1, <1>2 DEF LinksHold, Removed, Pends
<1>12. ServerIs(V, s)
  <2> SUFFICES ASSUME NEW i, Sounds(PendingOf(V, i)) # {}
               PROVE  \E n \in Sounds(PendingOf(V, i)) :
                        ServedLast(n, Sounds(PendingOf(V, i))) /\ Of(s, i) = Result(n)
    BY DEF ServerIs
  <2>1. PICK X, Y : X = Sounds(PendingOf(W, i)) /\ Y = Sounds(PendingOf(V, i))
    OBVIOUS
  <2>2. \A y \in Y : \E v \in X : v # w /\ y = U[v] /\ w.id \notin v.missed
    BY <1>3, <1>9, <2>1 DEF Sounds, PendingOf
  <2>3. \A v \in X : v \in W /\ v.sound /\ Pends(v) /\ v.link.id = i
    BY <2>1 DEF Sounds, PendingOf
  <2>4. PICK n \in X : ServedLast(n, X) /\ Of(s, i) = Result(n)
    BY <2>1, <2>2 DEF LinksHold, ServerIs
  <2>5. n # w
    BY <2>1, <2>2, <2>4 DEF ServedLast
  <2>6. w.id \notin n.missed
    <3>1. ASSUME w.id \in n.missed
          PROVE  FALSE
      <4>1. w.sound /\ w.link.id = i /\ n.id \notin w.missed
        BY <1>4, <2>3, <3>1 DEF Order, Pends
      <4>2. w \in X
        BY <2>1, <4>1 DEF Sounds, PendingOf
      <4> QED
        BY <2>4, <2>5, <4>1, <4>2 DEF ServedLast
    <3> QED
      BY <3>1
  <2>7. U[n] \in Y
    BY <1>3, <1>8, <2>1, <2>3, <2>5, <2>6 DEF Sounds
  <2>8. ServedLast(U[n], Y)
    BY <1>2, <2>2, <2>3, <2>4, <2>5, <2>7 DEF ServedLast
  <2>9. Result(U[n]) = Result(n)
    BY <1>2, <2>3, <2>5 DEF Result
  <2> QED
    BY <2>1, <2>4, <2>7, <2>8, <2>9
<1>13. ASSUME NEW i, NEW P \in SUBSET PendingOf(W, i), w \notin P, NEW A, NEW S, Catches(A, P, S)
       PROVE  Catches(A, {U[v] : v \in P}, S)
  <2>1. PICK Q : Q = {U[v] : v \in P}
    OBVIOUS
  <2>2. \A v \in P : v \in W /\ v # w
    BY <1>13 DEF PendingOf
  <2>3. PICK u \in [P -> Q] : \A v \in P : u[v] = U[v]
    <3>1. [v \in P |-> U[v]] \in [P -> Q]
      BY <2>1
    <3> QED
      BY <3>1
  <2>4. /\ \A y \in Q : \E v \in P : y = u[v]
        /\ \A v \in P : /\ u[v].kind = v.kind /\ u[v].id = v.id /\ u[v].link = v.link
                        /\ v.missed \subseteq u[v].missed
    BY <1>2, <2>1, <2>2, <2>3
  <2> QED
    BY <1>13, <2>1, <2>4, CatchesAlike
<1>14. FetchesCatch(V, s)
  <2> SUFFICES ASSUME NEW f \in W, f # w, f.kind = "fetch", f.done
               PROVE  /\ IsList(f.answer)
                      /\ U[f].sound => \A i : Catches(Of(f.answer, i), MissedOf(U[f], V, i), Of(s, i))
    BY <1>1, <1>2 DEF FetchesCatch
  <2>1. IsList(f.answer)
    BY DEF LinksHold, FetchesCatch
  <2>2. ASSUME U[f].sound, NEW i
        PROVE  Catches(Of(f.answer, i), MissedOf(U[f], V, i), Of(s, i))
    <3>1. f.sound /\ w.id \notin f.missed
      BY <1>3, <2>2
    <3>2. PICK P : P = MissedOf(f, W, i)
      OBVIOUS
    <3>3. P \in SUBSET PendingOf(W, i) /\ w \notin P /\ Catches(Of(f.answer, i), P, Of(s, i))
      BY <3>1, <3>2 DEF MissedOf, LinksHold, FetchesCatch
    <3>4. MissedOf(U[f], V, i) = {U[v] : v \in P}
      <4>1. PICK R, Q : R = PendingOf(W, i) /\ Q = PendingOf(V, i)
        OBVIOUS
      <4>2. /\ \A v \in R : v # w => U[v] \in Q /\ U[v].id = v.id
            /\ \A y \in Q : \E v \in R : v # w /\ y = U[v]
        <5>1. \A v \in R : v \in W
          BY <4>1 DEF PendingOf
        <5>2. \A v \in R : v # w => U[v] \in Q
          BY <1>8, <4>1, <5>1
        <5>3. \A y \in Q : \E v \in R : v # w /\ y = U[v]
          BY <1>9, <4>1
        <5> QED
          BY <1>2, <5>1, <5>2, <5>3
      <4>3. P = {v \in R : v.id \in f.missed} /\ MissedOf(U[f], V, i) = {v \in Q : v.id \in f.missed}
        BY <1>2, <3>2, <4>1 DEF MissedOf
      <4> QED
        BY <3>3, <4>2, <4>3
    <3> QED
      BY <1>13, <3>3, <3>4
  <2> QED
    BY <2>1, <2>2
<1>15. IsList(m)
  <2>1. IsList(l) /\ w.kind \in Changes
    BY DEF LinksHold, Pends
  <2>2. IsList(Changed(l, w))
    BY <2>1, ChangedIs, Zenon
  <2> QED
    BY <2>1, <2>2
<1>16. StoreCatches(V, s, m, p)
  <2> SUFFICES ASSUME ~p, NEW i, \A v \in PendingOf(V, i) : v.sound
               PROVE  Catches(Of(m, i), PendingOf(V, i), Of(s, i))
    BY DEF StoreCatches
  <2>1. m = Changed(l, w) /\ ~o /\ w.sound /\ w.kind \in Changes /\ IsList(l)
    BY DEF LinksHold, Pends
  <2>2. PICK X : X = PendingOf(W, i)
    OBVIOUS
  <2>3. \A v \in X : v \in W /\ Pends(v) /\ v.link.id = i /\ (v # w => v.sound /\ w.id \notin v.missed)
    <3>1. \A v \in X : v \in W /\ Pends(v) /\ v.link.id = i
      BY <2>2 DEF PendingOf
    <3>2. \A v \in X : v # w => U[v].sound
      BY <1>8, <2>2, <3>1
    <3> QED
      BY <1>3, <3>1, <3>2
  <2>4. Catches(Of(l, i), X, Of(s, i))
    BY <2>1, <2>2, <2>3 DEF LinksHold, StoreCatches
  <2>5. PICK P : P = X \ {w}
    OBVIOUS
  <2>6. PendingOf(V, i) = {U[v] : v \in P}
    BY <1>8, <1>9, <2>2, <2>3, <2>5
  <2>7. Catches(Of(m, i), P, Of(s, i))
    <3>1. CASE i # w.link.id
      <4>1. P = X
        BY <2>3, <2>5, <3>1
      <4>2. Of(m, i) = Of(l, i)
        BY <2>1, <3>1, OthersStay
      <4> QED
        BY <2>4, <4>1, <4>2
    <3>2. CASE i = w.link.id
      <4>0. w \in X
        BY <2>2, <3>2 DEF PendingOf
      <4>1. PICK n \in X : ServedLast(n, X) /\ Of(s, i) = Result(n) /\ Fits(Of(l, i), n, X)
        BY <2>4, <4>0 DEF Catches
      <4>2. /\ w.kind = "create" => Of(m, i) = Of(l, i) \cup {w.link}
            /\ w.kind = "update" => Of(m, i) = IF Of(l, i) = {} THEN {} ELSE {w.link}
            /\ w.kind = "remove" => Of(m, i) = {}
        BY <2>1, <3>2, ChangedIs
      <4>3. CASE n = w
        <5>1. X = {w} /\ P = {}
          BY <2>3, <2>5, <4>0, <4>1, <4>3 DEF ServedLast
        <5>2. Of(m, i) = Result(w)
          <6>1. CASE w.kind = "create"
            BY <4>1, <4>2, <4>3, <6>1 DEF Fits, Result
          <6>2. CASE w.kind = "update"
            BY <4>1, <4>2, <4>3, <5>1, <6>2 DEF Fits, Result
          <6>3. CASE w.kind = "remove"
            BY <4>2, <6>3 DEF Result
          <6> QED
            BY <2>1, <6>1, <6>2, <6>3 DEF Changes
        <5> QED
          BY <4>1, <4>3, <5>1, <5>2 DEF Catches
      <4>4. CASE n # w
        <5>1. n \in P /\ ServedLast(n, P)
          BY <2>5, <4>1, <4>4 DEF ServedLast
        <5>2. n.id \in w.missed
          BY <4>0, <4>1, <4>4 DEF ServedLast
        <5>3. n.kind # "create" /\ w.kind # "remove"
          BY <1>4, <2>1, <2>3, <5>2 DEF Order
        <5>4. ASSUME n.kind = "update"
              PROVE  Of(m, i) # {} \/ \E v \in P : v.kind = "create"
          <6>1. CASE w.kind = "create"
            BY <4>2, <6>1
          <6>2. CASE w.kind = "update" /\ Of(l, i) # {}
            BY <4>2, <6>2
          <6>3. CASE w.kind = "update" /\ Of(l, i) = {}
            BY <2>5, <4>1, <5>4, <6>3 DEF Fits
          <6> QED
            BY <2>1, <5>3, <6>1, <6>2, <6>3 DEF Changes
        <5>5. Fits(Of(m, i), n, P)
          BY <5>3, <5>4 DEF Fits
        <5> QED
          BY <4>1, <5>1, <5>5 DEF Catches
      <4> QED
        BY <4>3, <4>4
    <3> QED
      BY <3>1, <3>2
  <2>8. P \in SUBSET PendingOf(W, i) /\ w \notin P
    BY <2>2, <2>5
  <2> QED
    BY <1>13, <2>6, <2>7, <2>8
<1> QED
  BY <1>6, <1>7, <1>10, <1>11, <1>12, <1>14, <1>15, <1>16 DEF LinksHold

(* A list is answered. *)
LEMMA LinksHoldFetched ==
  ASSUME NEW W, NEW s, NEW l, NEW o, NEW c, LinksHold(W, s, l, o, c),
         NEW f \in W, f.kind = "fetch", f.done
  PROVE  LinksHold(W \ {f}, s, f.answer, ~f.sound, c)
<1>1. PICK V : V = W \ {f}
  OBVIOUS
<1>2. ~Pends(f)
  BY DEF Pends, Changes
<1>3. LinksHold(V, s, l, o, c)
  BY <1>1, <1>2, LinksHoldWithout
<1>4. \A i : PendingOf(V, i) = PendingOf(W, i)
  BY <1>1, <1>2 DEF PendingOf
<1>5. IsList(f.answer)
  BY DEF LinksHold, FetchesCatch
<1>6. StoreCatches(V, s, f.answer, ~f.sound)
  <2> SUFFICES ASSUME f.sound, NEW i, \A w \in PendingOf(W, i) : w.sound
               PROVE  Catches(Of(f.answer, i), PendingOf(W, i), Of(s, i))
    BY <1>4 DEF StoreCatches
  <2>1. PICK X, R : X = PendingOf(W, i) /\ R = MissedOf(f, W, i)
    OBVIOUS
  <2>2. R = {v \in X : v.id \in f.missed} /\ \A v \in X : v \in W /\ Pends(v) /\ v.link.id = i
    BY <2>1 DEF MissedOf, PendingOf
  <2>3. Catches(Of(f.answer, i), R, Of(s, i))
    BY <2>1 DEF LinksHold, FetchesCatch
  <2>4. CASE R = {} /\ X = {}
    BY <2>1, <2>3, <2>4 DEF Catches
  <2>5. CASE R = {} /\ X # {}
    <3>1. Of(f.answer, i) = Of(s, i)
      BY <2>3, <2>5 DEF Catches
    <3>2. Sounds(X) = X
      BY <2>1 DEF Sounds
    <3>3. PICK n \in X : ServedLast(n, X) /\ Of(s, i) = Result(n)
      BY <2>1, <2>5, <3>2 DEF LinksHold, ServerIs
    <3>4. Fits(Of(f.answer, i), n, X)
      BY <3>1, <3>3 DEF Fits, Result
    <3> QED
      BY <2>1, <2>5, <3>3, <3>4 DEF Catches
  <2>6. CASE R # {}
    <3>1. PICK n \in R : ServedLast(n, R) /\ Of(s, i) = Result(n) /\ Fits(Of(f.answer, i), n, R)
      BY <2>3, <2>6 DEF Catches
    <3>2. ASSUME NEW v \in X, v \notin R
          PROVE  n.id \in v.missed
      <4>1. v \in W /\ Pends(v) /\ v.link.id = n.link.id /\ v.id \notin f.missed /\ n \in W /\ n.id \in f.missed
        BY <2>2, <3>2
      <4> QED
        BY <4>1 DEF LinksHold, Order
    <3>3. ServedLast(n, X)
      BY <2>2, <3>1, <3>2 DEF ServedLast
    <3>4. Fits(Of(f.answer, i), n, X)
      BY <2>2, <3>1 DEF Fits
    <3> QED
      BY <2>1, <2>2, <2>6, <3>1, <3>3, <3>4 DEF Catches
  <2> QED
    BY <2>4, <2>5, <2>6
<1> QED
  BY <1>1, <1>3, <1>5, <1>6 DEF LinksHold

LEMMA LinksHoldLater ==
  ASSUME NEW W, NEW s, NEW l, NEW o, NEW c, LinksHold(W, s, l, o, c), NEW d \in Nat, c <= d, d <= MaxClicks
  PROVE  LinksHold(W, s, l, o, d)
<1>1. WiresShape(W, d)
  <2>1. c \in Nat /\ \A k \in 0..(c - 1) : k \in 0..(d - 1)
    BY DEF LinksHold, WiresShape
  <2> QED
    BY <2>1 DEF LinksHold, WiresShape
<1>2. FreshIds(W, s, d)
  <2>1. ASSUME NEW k \in 0..(MaxClicks - 1), Unused(W, d, k)
        PROVE  Unused(W, c, k)
    <3>1. c \in Int /\ k \in Int
      BY LinksAssumption DEF LinksHold, WiresShape
    <3> QED
      BY <2>1, <3>1 DEF Unused
  <2> QED
    BY <2>1 DEF LinksHold, FreshIds
<1> QED
  BY <1>1, <1>2 DEF LinksHold

LEMMA UnmountedHold ==
  ASSUME NEW W, NEW s, NEW l, NEW o, NEW c, LinksHold(W, s, l, o, c)
  PROVE  LinksHold(Unmounted(W), s, l, o, c)
<1>1. PICK V : V = Unmounted(W)
  OBVIOUS
<1>2. PICK U \in [W -> V] : \A w \in W : U[w] = [w EXCEPT !.dialog = FALSE]
  <2>1. [w \in W |-> [w EXCEPT !.dialog = FALSE]] \in [W -> V]
    BY <1>1 DEF Unmounted
  <2> QED
    BY <2>1
<1>3. \A v \in V : \E w \in W : v = U[w]
  BY <1>1, <1>2 DEF Unmounted
<1>4. \A w \in W : /\ IsWire(U[w]) /\ U[w].kind = w.kind /\ U[w].id = w.id /\ U[w].link = w.link
                   /\ U[w].done = w.done /\ U[w].missed = w.missed /\ U[w].sound = w.sound
                   /\ U[w].answer = w.answer
  <2>1. \A w \in W : IsWire(w)
    BY DEF LinksHold, WiresShape
  <2> QED
    BY <1>2, <2>1 DEF IsWire
<1> QED
  BY <1>1, <1>3, <1>4, LinksHoldAlike

LinksInv == LinksHold(wires, saved, links, outdated, clicks) /\ outdated \in BOOLEAN
Still == saved' = saved /\ links' = links /\ outdated' = outdated

LEMMA ClicksKeep ==
  ASSUME LinksInv, Clicks, Still, wires' = wires \/ wires' = Unmounted(wires)
  PROVE  LinksInv'
<1>1. clicks \in Nat /\ clicks + 1 \in Nat /\ clicks <= clicks + 1 /\ clicks + 1 <= MaxClicks
  BY LinksAssumption DEF LinksInv, LinksHold, WiresShape, Clicks
<1>2. LinksHold(wires, saved, links, outdated, clicks + 1)
  BY <1>1, LinksHoldLater DEF LinksInv
<1>3. LinksHold(Unmounted(wires), saved, links, outdated, clicks + 1)
  BY <1>2, UnmountedHold
<1> QED
  BY <1>2, <1>3 DEF LinksInv, Clicks, Still

LEMMA SendingKeeps ==
  ASSUME LinksInv, Clicks, Still, NEW w, IsWire(w), w.id = clicks, w.done = FALSE, w.missed = {},
         w.sound = TRUE, w.kind = "create" => Payload(w.link, w.id).id = w.id, wires' = wires \cup {w}
  PROVE  LinksInv'
<1>1. clicks \in Nat /\ clicks + 1 \in Nat /\ clicks <= clicks + 1 /\ clicks + 1 <= MaxClicks
  BY LinksAssumption DEF LinksInv, LinksHold, WiresShape, Clicks
<1>2. \A v \in wires : v.id # w.id /\ w.id \notin v.missed
  BY <1>1 DEF LinksInv, LinksHold, WiresShape
<1>3. Unused(wires, clicks, w.id) /\ w.id \in 0..((clicks + 1) - 1)
  BY <1>1 DEF Unused
<1>4. LinksHold(wires \cup {w}, saved, links, outdated, clicks + 1)
  BY <1>1, <1>2, <1>3, LinksHoldWith DEF LinksInv
<1> QED
  BY <1>4 DEF LinksInv, Clicks, Still

LEMMA FollowingsKeep ==
  ASSUME LinksInv, Followings
  PROVE  LinksInv'
<1>1. ASSUME NEW end, NEW value, Clicks, Still, OpenLinkEnd(end, value)
      PROVE  LinksInv'
  <2>1. CASE end.kind = "redis"
    <3>1. PICK w : w = [Wire("type") EXCEPT !.at = end.conn, !.to = BuildRedisKey(end.scope, value)]
      OBVIOUS
    <3>2. IsWire(w) /\ w.id = clicks /\ w.done = FALSE /\ w.missed = {} /\ w.sound = TRUE /\ w.kind = "type"
      BY <3>1 DEF Wire, IsWire
    <3>3. wires' = wires \cup {w}
      BY <1>1, <2>1, <3>1 DEF OpenLinkEnd
    <3> QED
      BY <1>1, <3>2, <3>3, SendingKeeps
  <2>2. CASE end.kind # "redis"
    BY <1>1, <2>2, ClicksKeep DEF OpenLinkEnd
  <2> QED
    BY <2>1, <2>2
<1>2. ASSUME NEW l, NEW g, FollowFromHeader(g, l) \/ FollowFromElement(g, l)
      PROVE  LinksInv'
  BY <1>1, <1>2 DEF FollowFromHeader, FollowFromElement, Still
<1>3. ASSUME NEW l, FollowFromPicker(l)
      PROVE  LinksInv'
  BY <1>1, <1>3 DEF FollowFromPicker, Still
<1>4. ASSUME NEW m, NEW f, NEW token, OpenElementMenu(m, f, token)
      PROVE  LinksInv'
  BY <1>4, ClicksKeep DEF OpenElementMenu, Still
<1>5. ASSUME NEW g, ShowAll(g)
      PROVE  LinksInv'
  BY <1>5, ClicksKeep DEF ShowAll, Still
<1>6. ASSUME CloseMenus
      PROVE  LinksInv'
  BY <1>6 DEF CloseMenus, LinksInv
<1>7. ASSUME NEW k, Visit(k)
      PROVE  LinksInv'
  <2>1. Clicks /\ Still
    BY <1>7 DEF Visit, Still
  <2>2. PICK w : w = Wire("fetch")
    OBVIOUS
  <2>3. IsWire(w) /\ w.id = clicks /\ w.done = FALSE /\ w.missed = {} /\ w.sound = TRUE /\ w.kind = "fetch"
    BY <2>2 DEF Wire, IsWire
  <2>4. wires' = wires \cup {w} \/ wires' = Unmounted(wires) \/ wires' = wires
    BY <1>7, <2>2 DEF Visit
  <2> QED
    BY <2>1, <2>3, <2>4, SendingKeeps, ClicksKeep
<1> QED
  BY <1>2, <1>3, <1>4, <1>5, <1>6, <1>7 DEF Followings

LEMMA EditingsKeep ==
  ASSUME LinksInv, Editings
  PROVE  LinksInv'
<1>1. ASSUME OpenForm
      PROVE  LinksInv'
  BY <1>1, ClicksKeep DEF OpenForm, Still
<1>2. ASSUME CloseForm
      PROVE  LinksInv'
  BY <1>2 DEF CloseForm, LinksInv
<1>3. ASSUME NEW d \in Drafts, HandleSave(d)
      PROVE  LinksInv'
  <2>1. PICK w : w = [Wire("create") EXCEPT !.link = d]
    OBVIOUS
  <2>2. IsWire(w) /\ w.id = clicks /\ w.done = FALSE /\ w.missed = {} /\ w.sound = TRUE /\ w.link = d
    BY <2>1 DEF Wire, IsWire
  <2>3. Payload(d, clicks).id = clicks
    BY LinksAssumption DEF Payload, IsLink
  <2>4. Clicks /\ Still /\ wires' = wires \cup {w}
    BY <1>3, <2>1 DEF HandleSave, Sends, Still
  <2> QED
    BY <2>2, <2>3, <2>4, SendingKeeps
<1>4. ASSUME NEW m, NEW d, UpdateLink(m, d)
      PROVE  LinksInv'
  <2>1. PICK w : w = [Wire("update") EXCEPT !.link = [d EXCEPT !.id = m.id]]
    OBVIOUS
  <2>2. IsWire(w) /\ w.id = clicks /\ w.done = FALSE /\ w.missed = {} /\ w.sound = TRUE /\ w.kind = "update"
    BY <2>1 DEF Wire, IsWire
  <2>3. Clicks /\ Still /\ wires' = wires \cup {w}
    BY <1>4, <2>1 DEF UpdateLink, Sends, Still
  <2> QED
    BY <2>2, <2>3, SendingKeeps
<1>5. ASSUME NEW m, RemoveLink(m)
      PROVE  LinksInv'
  <2>1. PICK w : w = [Wire("remove") EXCEPT !.link = m]
    OBVIOUS
  <2>2. IsWire(w) /\ w.id = clicks /\ w.done = FALSE /\ w.missed = {} /\ w.sound = TRUE /\ w.kind = "remove"
    BY <2>1 DEF Wire, IsWire
  <2>3. Clicks /\ Still /\ wires' = wires \cup {w}
    BY <1>5, <2>1 DEF RemoveLink, Sends, Still
  <2> QED
    BY <2>2, <2>3, SendingKeeps
<1> QED
  BY <1>1, <1>2, <1>3, <1>4, <1>5 DEF Editings

LEMMA ServingLinksKeeps ==
  ASSUME LinksInv, NEW w \in wires, ServeLinks(w)
  PROVE  LinksInv'
<1>1. PICK link : link = IF w.kind = "create" THEN Payload(w.link, w.id) ELSE w.link
  OBVIOUS
<1>2. PICK found :
        wires' = {IF w.kind \in Changes /\ Late(v, w, link)
                  THEN [v EXCEPT !.missed = @ \cup {w.id}] ELSE v : v \in wires \ {w}} \cup
                 {[w EXCEPT !.done = TRUE, !.link = link,
                     !.answer = CASE w.kind = "fetch" -> saved
                                  [] w.kind = "type" /\ found -> w.to [] OTHER -> NoValue]}
  BY <1>1 DEF ServeLinks
<1>3. PICK z : z = CASE w.kind = "fetch" -> saved [] w.kind = "type" /\ found -> w.to [] OTHER -> NoValue
  OBVIOUS
<1>4. PICK x : x = [w EXCEPT !.done = TRUE, !.link = link, !.answer = z]
  OBVIOUS
<1>5. wires' = {IF w.kind \in Changes /\ Late(v, w, link)
                THEN [v EXCEPT !.missed = @ \cup {w.id}] ELSE v : v \in wires \ {w}} \cup {x}
  BY <1>2, <1>3, <1>4
<1>6. PICK U : U = [v \in wires |-> IF v = w THEN x ELSE
                                    IF w.kind \in Changes /\ Late(v, w, link)
                                    THEN [v EXCEPT !.missed = @ \cup {w.id}] ELSE v]
  OBVIOUS
<1>7. U \in [wires -> wires'] /\ wires' = {U[v] : v \in wires}
  BY <1>5, <1>6
<1>8. ~w.done /\ \A v \in wires : IsWire(v)
  BY DEF ServeLinks, LinksInv, LinksHold, WiresShape
<1>9. /\ IsWire(x) /\ x.kind = w.kind /\ x.id = w.id /\ x.sound = w.sound /\ x.done = TRUE
      /\ x.missed = w.missed /\ x.link = link /\ x.answer = z
  <2>1. w = [kind |-> w.kind, id |-> w.id, link |-> w.link, at |-> w.at, to |-> w.to, answer |-> w.answer,
             dialog |-> w.dialog, done |-> w.done, missed |-> w.missed, sound |-> w.sound]
    BY <1>8 DEF IsWire
  <2>2. x = [kind |-> w.kind, id |-> w.id, link |-> link, at |-> w.at, to |-> w.to, answer |-> z,
             dialog |-> w.dialog, done |-> TRUE, missed |-> w.missed, sound |-> w.sound]
    BY <1>4, <2>1
  <2> QED
    BY <2>2 DEF IsWire
<1>10. U[w] = x /\ x.missed = {}
  BY <1>6, <1>8, <1>9 DEF LinksInv, LinksHold, WiresShape
<1>11. ASSUME NEW v \in wires, v # w
       PROVE  /\ IsWire(U[v]) /\ U[v].kind = v.kind /\ U[v].id = v.id /\ U[v].sound = v.sound
              /\ U[v].link = v.link /\ U[v].done = v.done /\ U[v].answer = v.answer
              /\ U[v].missed = IF w.kind \in Changes /\ Late(v, w, link) THEN v.missed \cup {w.id} ELSE v.missed
  <2>1. CASE w.kind \in Changes /\ Late(v, w, link)
    <3>1. U[v] = [v EXCEPT !.missed = v.missed \cup {w.id}] /\ IsWire(v)
      BY <1>6, <1>8, <1>11, <2>1
    <3> QED
      BY <2>1, <3>1 DEF IsWire
  <2>2. CASE ~ (w.kind \in Changes /\ Late(v, w, link))
    <3>1. U[v] = v
      BY <1>6, <1>11, <2>2
    <3> QED
      BY <1>8, <2>2, <3>1
  <2> QED
    BY <2>1, <2>2
<1>12. Answered(wires, w, wires', U)
  BY <1>7, <1>9, <1>10, <1>11 DEF Answered
<1>13. saved' = IF w.kind \in Changes THEN Changed(saved, x) ELSE saved
  <2>1. PICK y : y = [w EXCEPT !.link = link]
    OBVIOUS
  <2>2. y.kind = x.kind /\ y.link = x.link
    BY <1>8, <1>9, <2>1 DEF IsWire
  <2>3. Changed(saved, y) = Changed(saved, x)
    BY <2>2 DEF Changed
  <2>4. saved' = IF w.kind \in Changes THEN Changed(saved, y) ELSE saved
    BY <1>1, <2>1 DEF ServeLinks
  <2> QED
    BY <2>3, <2>4
<1>14. w.kind = "fetch" => x.answer = saved
  BY <1>3, <1>9
<1>15. w.kind = "create" => x.link.id = w.id
  BY <1>1, <1>8, <1>9 DEF LinksInv, LinksHold, WiresShape
<1>16. w.kind \in {"update", "remove"} => Of(saved, x.link.id) # {}
  <2> SUFFICES ASSUME w.kind \in {"update", "remove"}
               PROVE  Of(saved, x.link.id) # {}
    OBVIOUS
  <2>1. x.link = w.link
    BY <1>1, <1>9
  <2>2. PICK n \in DOMAIN saved : saved[n].id = w.link.id
    BY DEF ServeLinks
  <2>3. saved[n] \in Of(saved, x.link.id)
    BY <2>1, <2>2 DEF Of, Range
  <2> QED
    BY <2>3
<1>17. LinksHold(wires', saved', links, outdated, clicks)
  BY <1>8, <1>10, <1>12, <1>13, <1>14, <1>15, <1>16, LinksHoldServed DEF LinksInv
<1> QED
  BY <1>17 DEF ServeLinks, LinksInv

LEMMA SpoilsSpoil ==
  ASSUME LinksInv, NEW w \in wires, Pends(w), wires' = Spoils(w),
         NEW m, NEW p, \/ m = Changed(links, w) /\ p = (outdated \/ ~w.sound)
                       \/ m = links /\ p = TRUE
  PROVE  LinksHold(wires', saved, m, p, clicks)
<1>1. PICK U : U = [v \in wires \ {w} |-> IF w.id \in v.missed THEN [v EXCEPT !.sound = FALSE] ELSE v]
  OBVIOUS
<1>2. U \in [wires \ {w} -> wires'] /\ wires' = {U[v] : v \in wires \ {w}}
  BY <1>1 DEF Spoils
<1>3. ASSUME NEW v \in wires, v # w
      PROVE  /\ IsWire(U[v]) /\ U[v].kind = v.kind /\ U[v].id = v.id /\ U[v].link = v.link
             /\ U[v].done = v.done /\ U[v].missed = v.missed /\ U[v].answer = v.answer
             /\ U[v].sound \in BOOLEAN /\ (U[v].sound <=> v.sound /\ w.id \notin v.missed)
  <2>1. IsWire(v) /\ v.sound \in BOOLEAN
    BY DEF LinksInv, LinksHold, WiresShape
  <2>2. CASE w.id \in v.missed
    <3>1. U[v] = [v EXCEPT !.sound = FALSE]
      BY <1>1, <1>3, <2>2
    <3> QED
      BY <2>1, <2>2, <3>1 DEF IsWire
  <2>3. CASE w.id \notin v.missed
    <3>1. U[v] = v
      BY <1>1, <1>3, <2>3
    <3> QED
      BY <2>1, <2>3, <3>1
  <2> QED
    BY <2>2, <2>3
<1>4. Spoiled(wires, w, wires', U)
  BY <1>2, <1>3 DEF Spoiled
<1> QED
  BY <1>4, LinksHoldSpoiled DEF LinksInv

LEMMA WiresMoveKeeps ==
  ASSUME LinksInv, WiresMove
  PROVE  LinksInv'
<1>1. PICK w \in wires :
        ServeLinks(w) \/ FetchLands(w) \/ ChangeLands(w) \/ TypeLands(w) \/ WireBreaks(w) \/ ChangeRefused(w)
  BY DEF WiresMove
<1>2. w.sound \in BOOLEAN
  BY DEF LinksInv, LinksHold, WiresShape
<1>3. CASE ServeLinks(w)
  BY <1>3, ServingLinksKeeps
<1>4. CASE FetchLands(w)
  <2>1. LinksHold(wires \ {w}, saved, w.answer, ~w.sound, clicks)
    BY <1>4, LinksHoldFetched DEF FetchLands, LinksInv
  <2> QED
    BY <1>4, <2>1 DEF FetchLands, LinksInv
<1>5. CASE ChangeLands(w)
  <2>1. Pends(w) /\ wires' = Spoils(w) /\ links' = Changed(links, w) /\ outdated' = (outdated \/ ~w.sound)
    BY <1>5 DEF ChangeLands, Pends, ChangedInStore
  <2>2. LinksHold(wires', saved, links', outdated', clicks)
    BY <2>1, SpoilsSpoil
  <2> QED
    BY <1>5, <2>1, <2>2 DEF ChangeLands, LinksInv
<1>6. CASE TypeLands(w)
  <2>1. PICK V : V = wires \ {w}
    OBVIOUS
  <2>2. ~Pends(w)
    BY <1>6 DEF TypeLands, Pends, Changes
  <2>3. LinksHold(V, saved, links, outdated, clicks)
    BY <2>1, <2>2, LinksHoldWithout DEF LinksInv
  <2>4. LinksHold(Unmounted(V), saved, links, outdated, clicks)
    BY <2>3, UnmountedHold
  <2>5. PICK v : v = [Wire("fetch") EXCEPT !.id = w.id]
    OBVIOUS
  <2>6. LinksHold(V \cup {v}, saved, links, outdated, clicks)
    <3>1. IsWire(v) /\ v.id = w.id /\ v.done = FALSE /\ v.missed = {} /\ v.sound = TRUE /\ v.kind = "fetch"
      BY <2>5 DEF Wire, IsWire
    <3>2. clicks \in Nat /\ clicks <= clicks /\ clicks <= MaxClicks /\ w.id \in 0..(clicks - 1)
      BY DEF LinksInv, LinksHold, WiresShape
    <3>3. \A u \in V : u.id # w.id /\ w.id \notin u.missed
      BY <2>1, <2>2 DEF LinksInv, LinksHold, WiresShape, Order
    <3> QED
      BY <2>3, <3>1, <3>2, <3>3, LinksHoldWith
  <2>7. wires' = Unmounted(V) \/ wires' = V \cup {v} \/ wires' = V
    BY <1>6, <2>1, <2>5 DEF TypeLands
  <2> QED
    BY <1>6, <2>3, <2>4, <2>6, <2>7 DEF TypeLands, LinksInv
<1>7. CASE WireBreaks(w)
  <2>1. CASE Pends(w)
    <3>1. wires' = Spoils(w) /\ links' = links /\ outdated' = TRUE
      BY <1>7, <2>1 DEF WireBreaks, Pends
    <3>2. LinksHold(wires', saved, links', outdated', clicks)
      BY <2>1, <3>1, SpoilsSpoil
    <3> QED
      BY <1>7, <3>1, <3>2 DEF WireBreaks, LinksInv
  <2>2. CASE ~Pends(w)
    <3>1. wires' = wires \ {w} /\ outdated' = outdated
      BY <1>7, <2>2 DEF WireBreaks, Pends, LinksInv
    <3>2. LinksHold(wires \ {w}, saved, links, outdated, clicks)
      BY <2>2, LinksHoldWithout DEF LinksInv
    <3> QED
      BY <1>7, <3>1, <3>2 DEF WireBreaks, LinksInv
  <2> QED
    BY <2>1, <2>2
<1>8. CASE ChangeRefused(w)
  <2>1. ~Pends(w)
    BY <1>8 DEF ChangeRefused, Pends
  <2>2. LinksHold(wires \ {w}, saved, links, outdated, clicks)
    BY <2>1, LinksHoldWithout DEF LinksInv
  <2> QED
    BY <1>8, <2>2 DEF ChangeRefused, LinksInv
<1> QED
  BY <1>1, <1>3, <1>4, <1>5, <1>6, <1>7, <1>8

LEMMA AlwaysLinksInv == LinksSpec => []LinksInv
<1>1. LinksInit => LinksInv
  <2> SUFFICES ASSUME LinksInit
               PROVE  LinksInv
    OBVIOUS
  <2>1. /\ saved \in StoredLinks /\ links = saved /\ wires = {} /\ clicks = 0 /\ outdated = FALSE
        /\ MaxClicks \in Nat
    BY LinksAssumption DEF LinksInit
  <2>2. IsList(saved)
    BY <2>1, LinksAssumption DEF IsList
  <2>3. \A i : PendingOf(wires, i) = {}
    BY <2>1 DEF PendingOf
  <2>4. \A k \in 0..(MaxClicks - 1) : Of(saved, k) = {}
    BY <2>1, LinksAssumption DEF Of, Range
  <2>5. WiresShape(wires, clicks) /\ Order(wires) /\ Removed(wires, saved) /\ FetchesCatch(wires, saved)
    BY <2>1 DEF WiresShape, Order, Removed, FetchesCatch
  <2>6. FreshIds(wires, saved, clicks) /\ ServerIs(wires, saved)
    BY <2>3, <2>4 DEF FreshIds, ServerIs, Sounds
  <2>7. StoreCatches(wires, saved, links, outdated)
    BY <2>1, <2>3 DEF StoreCatches, Catches
  <2> QED
    BY <2>1, <2>2, <2>5, <2>6, <2>7 DEF LinksInv, LinksHold
<1>2. LinksInv /\ [LinksNext]_linkVars => LinksInv'
  <2>1. ASSUME LinksInv, LinksNext
        PROVE  LinksInv'
    BY <2>1, FollowingsKeep, EditingsKeep, WiresMoveKeeps DEF LinksNext
  <2>2. ASSUME LinksInv, UNCHANGED linkVars
        PROVE  LinksInv'
    BY <2>2 DEF LinksInv, linkVars
  <2> QED
    BY <2>1, <2>2
<1> QED
  BY <1>1, <1>2, PTL DEF LinksSpec

(* For any links, drafts and bounds: once nothing is under way the store   *)
(* (useLinksStore) has the links the server has, in whatever order the     *)
(* lists, creations, changes and removals were answered, unless a list or  *)
(* a change was overtaken on its way or the answer to a change was lost.   *)
THEOREM LinksShowTheServerHolds == LinksSpec => []LinksShowTheServer
<1>1. LinksInv => LinksShowTheServer
  <2> SUFFICES ASSUME LinksInv, \A w \in wires : w.kind = "type", ~outdated
               PROVE  Range(links) = Range(saved)
    BY DEF LinksShowTheServer
  <2>1. \A i : PendingOf(wires, i) = {}
    BY DEF PendingOf, Pends, Changes
  <2>2. \A i : Of(links, i) = Of(saved, i)
    BY <2>1 DEF LinksInv, LinksHold, StoreCatches, Catches
  <2>3. \A m : m \in Range(links) <=> m \in Of(links, m.id)
    BY DEF Of
  <2>4. \A m : m \in Range(saved) <=> m \in Of(saved, m.id)
    BY DEF Of
  <2> QED
    BY <2>2, <2>3, <2>4
<1> QED
  BY <1>1, AlwaysLinksInv, PTL
-----------------------------------------------------------------------------
(* A key taken apart and put together. *)

(* A sequence is what begins it, what ends it, and what is between. *)
LEMMA EndsAre ==
  ASSUME NEW S, NEW s \in Seq(S), NEW c \in Seq(S)
  PROVE  IsSuffix(c, s) <=> Len(c) <= Len(s) /\ \A i \in 1..Len(c) : s[Len(s) - Len(c) + i] = c[i]
<1> DEFINE m == Len(c)
           n == Len(s)
           rc == Reverse(c)
           rs == Reverse(s)
<1>1. m \in Nat /\ n \in Nat
  OBVIOUS
<1>2. /\ rc \in Seq(S) /\ Len(rc) = m /\ \A j \in 1..m : rc[j] = c[m - j + 1]
      /\ rs \in Seq(S) /\ Len(rs) = n /\ \A j \in 1..n : rs[j] = s[n - j + 1]
  BY DEF Reverse
<1>3. IsSuffix(c, s) <=> m <= n /\ SubSeq(rc, 1, m) = SubSeq(rs, 1, m)
  BY <1>2 DEF IsSuffix, IsPrefix
<1> HIDE DEF rc, rs
<1>4. ASSUME m <= n
      PROVE  SubSeq(rc, 1, m) = SubSeq(rs, 1, m) <=> \A j \in 1..m : rc[j] = rs[j]
  <2>1. /\ SubSeq(rc, 1, m) = [j \in 1..m |-> rc[j]]
        /\ SubSeq(rs, 1, m) = [j \in 1..m |-> rs[j]]
    BY <1>1, <1>2, <1>4
  <2> QED
    BY <2>1
<1>5. ASSUME m <= n
      PROVE  (\A j \in 1..m : rc[j] = rs[j]) <=> \A i \in 1..m : s[n - m + i] = c[i]
  <2>1. ASSUME \A j \in 1..m : rc[j] = rs[j], NEW i \in 1..m
        PROVE  s[n - m + i] = c[i]
    <3>1. PICK j \in 1..m : j = m - i + 1
      <4>1. m - i + 1 \in 1..m
        BY <1>1
      <4> QED
        BY <4>1
    <3>2. j \in 1..n /\ n - j + 1 = n - m + i /\ m - j + 1 = i
      BY <1>1, <1>5, <3>1
    <3> QED
      BY <1>2, <2>1, <3>2
  <2>2. ASSUME \A i \in 1..m : s[n - m + i] = c[i], NEW j \in 1..m
        PROVE  rc[j] = rs[j]
    <3>1. PICK i \in 1..m : i = m - j + 1
      <4>1. m - j + 1 \in 1..m
        BY <1>1
      <4> QED
        BY <4>1
    <3>2. j \in 1..n /\ n - j + 1 = n - m + i
      BY <1>1, <1>5, <3>1
    <3> QED
      BY <1>2, <2>2, <3>1, <3>2
  <2> QED
    BY <2>1, <2>2
<1> QED
  BY <1>3, <1>4, <1>5

LEMMA BeginsAre ==
  ASSUME NEW S, NEW s \in Seq(S), NEW a \in Seq(S)
  PROVE  IsPrefix(a, s) <=> Len(a) <= Len(s) /\ \A i \in 1..Len(a) : s[i] = a[i]
<1>1. ASSUME Len(a) <= Len(s)
      PROVE  SubSeq(a, 1, Len(a)) = SubSeq(s, 1, Len(a)) <=> \A i \in 1..Len(a) : s[i] = a[i]
  <2>1. /\ SubSeq(a, 1, Len(a)) = [j \in 1..Len(a) |-> a[j]]
        /\ SubSeq(s, 1, Len(a)) = [j \in 1..Len(a) |-> s[j]]
    BY <1>1
  <2> QED
    BY <2>1
<1> QED
  BY <1>1 DEF IsPrefix

(* What is put together is taken apart again. *)
LEMMA JoinedIs ==
  ASSUME NEW S, NEW a \in Seq(S), NEW b \in Seq(S), NEW c \in Seq(S)
  PROVE  LET s == a \o b \o c
         IN /\ s \in Seq(S) /\ Len(s) = Len(a) + Len(b) + Len(c)
            /\ IsPrefix(a, s) /\ IsSuffix(c, s)
            /\ SubSeq(s, Len(a) + 1, Len(s) - Len(c)) = b
<1> DEFINE s == a \o b \o c
           n == Len(s)
<1>1. Len(a) \in Nat /\ Len(b) \in Nat /\ Len(c) \in Nat
  OBVIOUS
<1>2. s \in Seq(S) /\ n = Len(a) + Len(b) + Len(c)
  OBVIOUS
<1>3. \A i \in 1..Len(a) : s[i] = a[i]
  OBVIOUS
<1>4. \A i \in 1..Len(b) : s[Len(a) + i] = b[i]
  <2>1. \A i \in 1..Len(b) : (a \o b)[Len(a) + i] = b[i] /\ Len(a) + i \in 1..Len(a \o b)
    OBVIOUS
  <2>2. a \o b \in Seq(S)
    OBVIOUS
  <2> QED
    BY <2>1, <2>2
<1>5. \A i \in 1..Len(c) : s[Len(a) + Len(b) + i] = c[i]
  <2>1. a \o b \in Seq(S) /\ Len(a \o b) = Len(a) + Len(b)
    OBVIOUS
  <2> QED
    BY <1>1, <2>1
<1> HIDE DEF s
<1>6. IsPrefix(a, s)
  BY <1>1, <1>2, <1>3, BeginsAre
<1>7. IsSuffix(c, s)
  <2>1. n - Len(c) = Len(a) + Len(b) /\ Len(c) <= n
    BY <1>1, <1>2
  <2>2. \A i \in 1..Len(c) : s[n - Len(c) + i] = c[i]
    BY <1>5, <2>1
  <2> QED
    BY <1>2, <2>1, <2>2, EndsAre
<1>8. SubSeq(s, Len(a) + 1, n - Len(c)) = b
  <2>1. n - Len(c) = Len(a) + Len(b)
    BY <1>1, <1>2
  <2>2. SubSeq(s, Len(a) + 1, Len(a) + Len(b)) = [i \in 1..Len(b) |-> s[Len(a) + i]]
    BY <1>1, <1>2
  <2>3. b = [i \in 1..Len(b) |-> b[i]]
    OBVIOUS
  <2> QED
    BY <1>4, <2>1, <2>2, <2>3
<1> QED
  BY <1>2, <1>6, <1>7, <1>8 DEF s

(* What is taken apart is put together again. *)
LEMMA ApartIs ==
  ASSUME NEW S, NEW s \in Seq(S), NEW a \in Seq(S), NEW c \in Seq(S),
         Len(s) >= Len(a) + Len(c), IsPrefix(a, s), IsSuffix(c, s)
  PROVE  LET b == SubSeq(s, Len(a) + 1, Len(s) - Len(c))
         IN b \in Seq(S) /\ a \o b \o c = s
<1> DEFINE n == Len(s)
           b == SubSeq(s, Len(a) + 1, n - Len(c))
           t == a \o b \o c
<1>1. Len(a) \in Nat /\ n \in Nat /\ Len(c) \in Nat
  OBVIOUS
<1>2. b \in Seq(S) /\ Len(b) = n - Len(c) - Len(a) /\ \A i \in 1..Len(b) : b[i] = s[Len(a) + i]
  BY <1>1
<1>3. \A i \in 1..Len(a) : s[i] = a[i]
  BY BeginsAre
<1>4. \A i \in 1..Len(c) : s[n - Len(c) + i] = c[i]
  BY EndsAre
<1> HIDE DEF b
<1>5. t \in Seq(S) /\ Len(t) = n
  BY <1>1, <1>2
<1>6. ASSUME NEW i \in 1..n
      PROVE  t[i] = s[i]
  <2>1. a \o b \in Seq(S) /\ Len(a \o b) = Len(a) + Len(b)
    BY <1>2
  <2>2. CASE i \in 1..Len(a)
    BY <1>2, <1>3, <2>1, <2>2
  <2>3. CASE i > Len(a) /\ i <= Len(a) + Len(b)
    <3>1. PICK j \in 1..Len(b) : i = Len(a) + j
      <4>1. i - Len(a) \in 1..Len(b) /\ i = Len(a) + (i - Len(a))
        BY <1>1, <1>2, <2>3
      <4> QED
        BY <4>1
    <3>2. (a \o b)[i] = b[j]
      BY <1>2, <3>1
    <3> QED
      BY <1>2, <2>1, <2>3, <3>1, <3>2
  <2>4. CASE i > Len(a) + Len(b)
    <3>1. PICK j \in 1..Len(c) : i = Len(a) + Len(b) + j /\ n - Len(c) + j = i
      <4> DEFINE j == i - (Len(a) + Len(b))
      <4>1. j \in 1..Len(c) /\ i = Len(a) + Len(b) + j /\ n - Len(c) + j = i
        BY <1>1, <1>2, <2>4
      <4> QED
        BY <4>1
    <3>2. c[j] = s[i]
      BY <1>4, <3>1
    <3>3. t[Len(a \o b) + j] = c[j]
      BY <2>1, <3>1
    <3> QED
      BY <2>1, <3>1, <3>2, <3>3
  <2>5. i \in 1..Len(a) \/ (i > Len(a) /\ i <= Len(a) + Len(b)) \/ i > Len(a) + Len(b)
    BY <1>1, <1>2
  <2> QED
    BY <2>2, <2>3, <2>4, <2>5
<1> HIDE DEF t
<1>7. t = s
  <2>1. t = [i \in 1..n |-> t[i]]
    BY <1>5
  <2>2. s = [i \in 1..n |-> s[i]]
    OBVIOUS
  <2> QED
    BY <1>6, <2>1, <2>2, Zenon
<1> QED
  BY <1>2, <1>7 DEF t, b

(* A sequence of which all is left stays as it is. *)
LEMMA AllIsLeft ==
  ASSUME NEW S, NEW s \in Seq(S)
  PROVE  Filtered(s, DOMAIN s) = s
<1> DEFINE n == Len(s)
<1>1. n \in Nat /\ DOMAIN s = 1..n /\ s = [k \in 1..n |-> s[k]]
  OBVIOUS
<1>2. /\ IsFiniteSet(1..n) /\ Cardinality(1..n) = n
      /\ \A i \in 1..n : Cardinality(1..(i - 1)) = i - 1
  <2>1. \A m \in Nat : IsFiniteSet(1..m) /\ Cardinality(1..m) = m
    BY FS_Interval
  <2>2. \A i \in 1..n : i - 1 \in Nat
    BY <1>1
  <2> QED
    BY <1>1, <2>1, <2>2
<1>3. \A i \in 1..n : Rank(1..n, i) = i - 1
  <2> SUFFICES ASSUME NEW i \in 1..n
               PROVE  Rank(1..n, i) = i - 1
    OBVIOUS
  <2>1. {j \in 1..n : j < i} = 1..(i - 1)
    BY <1>1
  <2> QED
    BY <1>2, <2>1 DEF Rank
<1>4. \A k \in 1..n : Nth(1..n, k) = k
  BY <1>1, <1>3 DEF Nth
<1> QED
  BY <1>1, <1>2, <1>4 DEF Filtered

(* A value without two dollars in a row is put in as it is. *)
LEMMA PlainStays ==
  ASSUME NEW S, NEW v \in Seq(S), Plain(v)
  PROVE  Replacement(v) = v
<1> DEFINE n == Len(v)
<1>1. n \in Nat /\ DOMAIN v = 1..n
  OBVIOUS
<1>2. \A i \in 1..(n - 1) : v[i] # Dollar \/ v[i + 1] # Dollar
  <2> SUFFICES ASSUME NEW i \in 1..(n - 1), v[i] = Dollar, v[i + 1] = Dollar
               PROVE  FALSE
    OBVIOUS
  <2> QED
    BY DEF Plain
<1>3. ASSUME NEW i \in 1..n, v[i] = Dollar
      PROVE  Cardinality(DollarsUpTo(v, i)) % 2 = 1
  <2>1. ASSUME NEW j \in 1..i, \A m \in j..i : v[m] = Dollar
        PROVE  j = i
    <3> SUFFICES ASSUME j # i
                 PROVE  FALSE
      OBVIOUS
    <3>1. i - 1 \in 1..(n - 1) /\ i - 1 \in j..i /\ i \in j..i /\ (i - 1) + 1 = i
      BY <1>1, <2>1
    <3> QED
      BY <1>2, <2>1, <3>1
  <2>2. i \in 1..i /\ \A m \in i..i : m = i
    BY <1>1
  <2>3. DollarsUpTo(v, i) = {i}
    BY <1>3, <2>1, <2>2 DEF DollarsUpTo
  <2>4. Cardinality({i}) = 1
    BY FS_Singleton
  <2> QED
    BY <2>3, <2>4
<1>4. {i \in DOMAIN v : v[i] # Dollar \/ Cardinality(DollarsUpTo(v, i)) % 2 = 1} = DOMAIN v
  BY <1>1, <1>3
<1> QED
  BY <1>4, AllIsLeft DEF Replacement

(* The sides of a pattern. *)
LEMMA SidesAre ==
  ASSUME NEW S, NEW p \in Seq(S), Stars(p) # {}
  PROVE  Prefix(p) \in Seq(S) /\ Suffix(p) \in Seq(S)
<1>1. \E i \in Stars(p) : \A m \in Stars(p) : i <= m
  <2> DEFINE I == Stars(p)
             c == Cardinality(I)
  <2>1. IsFiniteSet(1..Len(p)) /\ I \in SUBSET (1..Len(p))
    BY FS_Interval DEF Stars
  <2>2. IsFiniteSet(I) /\ I \in SUBSET Int
    BY <2>1, FS_Subset
  <2>3. c \in Nat /\ c # 0
    BY <2>2, FS_CardinalityType, FS_EmptySet
  <2> HIDE DEF I
  <2>4. 1 \in 1..c /\ Nth(I, 1) \in I
    BY <2>2, <2>3, NthIs
  <2>5. ASSUME NEW m \in I
        PROVE  Nth(I, 1) <= m
    <3>1. PICK k \in 1..c : Nth(I, k) = m
      BY <2>2, NthIs
    <3>2. Nth(I, 1) \in Int /\ m \in Int
      BY <2>2, <2>4
    <3>3. k = 1 \/ Nth(I, 1) < Nth(I, k)
      BY <2>2, <2>3, <2>4, NthIs
    <3> QED
      BY <3>1, <3>2, <3>3
  <2> QED
    BY <2>4, <2>5 DEF I
<1>2. FirstStar(p) \in Stars(p)
  BY <1>1 DEF FirstStar
<1>3. FirstStar(p) \in 1..Len(p) /\ Len(p) \in Nat
  BY <1>2 DEF Stars
<1> QED
  BY <1>3 DEF Prefix, Suffix

(* A key that matches a pattern is the two sides of it and what it captures. *)
LEMMA CapturedIs ==
  ASSUME NEW S, NEW p \in Seq(S), NEW k \in Seq(S), Stars(p) # {}, RedisKeyMatchesPattern(p, k)
  PROVE  CaptureFromKey(p, k) \in Seq(S) /\ Prefix(p) \o CaptureFromKey(p, k) \o Suffix(p) = k
<1>1. Prefix(p) \in Seq(S) /\ Suffix(p) \in Seq(S)
  BY SidesAre
<1>2. Len(k) >= Len(Prefix(p)) + Len(Suffix(p)) /\ IsPrefix(Prefix(p), k) /\ IsSuffix(Suffix(p), k)
  BY DEF RedisKeyMatchesPattern
<1>3. CaptureFromKey(p, k) = SubSeq(k, Len(Prefix(p)) + 1, Len(k) - Len(Suffix(p)))
  BY DEF CaptureFromKey
<1> QED
  BY <1>1, <1>2, <1>3, ApartIs

(* What is built from a plain value is matched by its pattern, and gives the
   value back. *)
LEMMA BuiltIs ==
  ASSUME NEW S, NEW p \in Seq(S), NEW v \in Seq(S), Stars(p) # {}, Plain(v)
  PROVE  LET built == BuildRedisKey(p, v)
         IN /\ built = Prefix(p) \o v \o Suffix(p)
            /\ RedisKeyMatchesPattern(p, built) /\ CaptureFromKey(p, built) = v
<1> DEFINE a == Prefix(p)
           c == Suffix(p)
           built == a \o v \o c
<1>1. a \in Seq(S) /\ c \in Seq(S)
  BY SidesAre
<1>2. BuildRedisKey(p, v) = built
  BY PlainStays DEF BuildRedisKey
<1> HIDE DEF a, c
<1>3. /\ built \in Seq(S) /\ Len(built) = Len(a) + Len(v) + Len(c)
      /\ IsPrefix(a, built) /\ IsSuffix(c, built)
      /\ SubSeq(built, Len(a) + 1, Len(built) - Len(c)) = v
  BY <1>1, JoinedIs
<1>4. Len(built) >= Len(a) + Len(c)
  BY <1>1, <1>3
<1> HIDE DEF built
<1>5. RedisKeyMatchesPattern(p, built)
  BY <1>3, <1>4 DEF RedisKeyMatchesPattern, a, c
<1>6. CaptureFromKey(p, built) = v
  BY <1>3, <1>5 DEF CaptureFromKey, a, c
<1> QED
  BY <1>2, <1>5, <1>6 DEF built, a, c

(* A link that captures part of a key leads to a pattern, by patterns. *)
Leads(l) ==
  l.source.kind = "redis" /\ l.extract = "key_capture" /\ l.target.kind = "redis" =>
    /\ Stars(l.source.scope) # {} /\ l.source.scope \in Seq(Range(l.source.scope))
    /\ Stars(l.target.scope) # {} /\ l.target.scope \in Seq(Range(l.target.scope))
AllLead(s) == \A l \in Range(s) : Leads(l)

WireLeads(w) ==
  /\ w.kind \in {"create", "update"} => IsLink(w.link) /\ Leads(w.link)
  /\ w.kind = "fetch" /\ w.done => AllLead(w.answer)
LinksLead == AllLead(saved) /\ AllLead(links) /\ \A w \in wires : WireLeads(w)

LEMMA LeadsBack ==
  ASSUME NEW l, Leads(l), NEW k \in Keys, IsRedisEnd(l.source, k), l.extract = "key_capture",
         l.target.kind = "redis", Plain(ExtractRedisValue(l, k))
  PROVE  LET built == BuildRedisKey(l.target.scope, ExtractRedisValue(l, k))
         IN /\ RedisKeyMatchesPattern(l.target.scope, built)
            /\ BuildRedisKey(l.source.scope, CaptureFromKey(l.target.scope, built)) = k
<1> DEFINE p == l.source.scope
           q == l.target.scope
           S == Range(p) \cup Range(q) \cup Range(k)
           v == CaptureFromKey(p, k)
<1>1. ExtractRedisValue(l, k) = v
  BY DEF ExtractRedisValue
<1>2. Stars(p) # {} /\ Stars(q) # {} /\ p \in Seq(Range(p)) /\ q \in Seq(Range(q)) /\ k \in Seq(Range(k))
  BY LinksAssumption DEF Leads, IsRedisEnd
<1>3. p \in Seq(S) /\ q \in Seq(S) /\ k \in Seq(S)
  BY <1>2
<1>4. RedisKeyMatchesPattern(p, k)
  BY DEF IsRedisEnd
<1> HIDE DEF S, v, p, q
<1>5. v \in Seq(S) /\ Prefix(p) \o v \o Suffix(p) = k
  BY <1>2, <1>3, <1>4, CapturedIs DEF v
<1>6. Plain(v)
  BY <1>1
<1>7. RedisKeyMatchesPattern(q, BuildRedisKey(q, v)) /\ CaptureFromKey(q, BuildRedisKey(q, v)) = v
  BY <1>2, <1>3, <1>5, <1>6, BuiltIs
<1>8. BuildRedisKey(p, v) = k
  BY <1>2, <1>3, <1>5, <1>6, BuiltIs
<1> QED
  BY <1>1, <1>7, <1>8 DEF p, q

(* What the dialog lets through leads. *)
LEMMA ValidLeads ==
  ASSUME NEW l, IsLink(l), ~Invalid(l)
  PROVE  Leads(l)
<1>1. Cardinality(Stars(l.source.scope)) = 1 => Stars(l.source.scope) # {}
  BY FS_EmptySet
<1> QED
  BY <1>1 DEF Leads, IsLink, IsEnd, Invalid

(* What is written into a link on its way changes neither end. *)
LEMMA RewrittenLeads ==
  ASSUME NEW l, IsLink(l), Leads(l), NEW i
  PROVE  /\ IsLink([l EXCEPT !.id = i]) /\ Leads([l EXCEPT !.id = i])
         /\ IsLink(Payload(l, i)) /\ Leads(Payload(l, i))
<1>1. IsLink([l EXCEPT !.id = i]) /\ Leads([l EXCEPT !.id = i])
  BY DEF IsLink, IsEnd, Leads
<1>2. PICK x : Payload(l, i) = [l EXCEPT !.id = i, !.source.field = x]
  BY DEF Payload
<1>3. IsLink([l EXCEPT !.id = i, !.source.field = x]) /\ Leads([l EXCEPT !.id = i, !.source.field = x])
  BY DEF IsLink, IsEnd, Leads
<1> QED
  BY <1>1, <1>2, <1>3

LEMMA ChangedLeads ==
  ASSUME NEW s, IsList(s), AllLead(s), NEW w, w.kind \in Changes, w.kind # "remove" => Leads(w.link)
  PROVE  AllLead(Changed(s, w))
<1> SUFFICES ASSUME NEW l \in Range(Changed(s, w))
             PROVE  Leads(l)
  BY DEF AllLead
<1>1. l \in Of(Changed(s, w), l.id)
  BY DEF Of
<1>2. l \in Of(s, l.id) \/ (w.kind # "remove" /\ l = w.link)
  <2>1. CASE l.id # w.link.id
    BY <1>1, <2>1, ChangedIs
  <2>2. CASE l.id = w.link.id
    <3>1. l \in Of(Changed(s, w), w.link.id) /\ Of(s, w.link.id) = Of(s, l.id)
      BY <1>1, <2>2
    <3>2. CASE w.kind = "create"
      <4>1. Of(Changed(s, w), w.link.id) = Of(s, w.link.id) \cup {w.link}
        BY <3>2, ChangedIs
      <4> QED
        BY <3>1, <3>2, <4>1
    <3>3. CASE w.kind = "update"
      <4>1. Of(Changed(s, w), w.link.id) = IF Of(s, w.link.id) = {} THEN {} ELSE {w.link}
        BY <3>3, ChangedIs
      <4> QED
        BY <3>1, <3>3, <4>1
    <3>4. CASE w.kind = "remove"
      BY <3>1, <3>4, ChangedIs
    <3> QED
      BY <3>2, <3>3, <3>4 DEF Changes
  <2> QED
    BY <2>1, <2>2
<1> QED
  BY <1>2 DEF AllLead, Of

(* Requests that are marked, or leave, or ask for other things. *)
LEMMA MarkedLead ==
  ASSUME LinksInv, LinksLead
  PROVE  /\ \A w \in Unmounted(wires) : WireLeads(w)
         /\ \A w \in wires : \A v \in Unmounted(wires \ {w}) \cup Spoils(w) : WireLeads(v)
<1>1. \A w \in wires : IsWire(w) /\ WireLeads(w)
  BY DEF LinksInv, LinksHold, WiresShape, LinksLead
<1>2. ASSUME NEW w \in wires
      PROVE  WireLeads([w EXCEPT !.dialog = FALSE]) /\ WireLeads([w EXCEPT !.sound = FALSE])
  BY <1>1 DEF IsWire, WireLeads
<1>3. \A w \in Unmounted(wires) : WireLeads(w)
  BY <1>2 DEF Unmounted
<1>4. \A w \in wires : \A v \in Unmounted(wires \ {w}) : WireLeads(v)
  BY <1>2 DEF Unmounted
<1>5. \A w \in wires : \A v \in Spoils(w) : WireLeads(v)
  BY <1>1, <1>2 DEF Spoils
<1> QED
  BY <1>3, <1>4, <1>5

LEMMA WiresOnlyLead ==
  ASSUME LinksLead, saved' = saved, links' = links, \A w \in wires' : WireLeads(w)
  PROVE  LinksLead'
BY DEF LinksLead, AllLead, WireLeads

LEMMA NewWiresLead ==
  ASSUME NEW end, NEW value, NEW i, NEW m
  PROVE  /\ WireLeads([Wire("type") EXCEPT !.at = end.conn, !.to = BuildRedisKey(end.scope, value)])
         /\ WireLeads(Wire("fetch")) /\ WireLeads([Wire("fetch") EXCEPT !.id = i])
         /\ WireLeads([Wire("remove") EXCEPT !.link = m])
BY DEF Wire, WireLeads

LEMMA FollowingsLead ==
  ASSUME LinksInv, LinksLead, Followings
  PROVE  LinksLead'
<1>1. \A w \in wires : WireLeads(w)
  BY DEF LinksLead
<1>2. ASSUME NEW end, NEW value, Still, OpenLinkEnd(end, value)
      PROVE  LinksLead'
  <2>1. CASE end.kind = "redis"
    <3>1. PICK w : w = [Wire("type") EXCEPT !.at = end.conn, !.to = BuildRedisKey(end.scope, value)]
      OBVIOUS
    <3>2. WireLeads(w)
      BY <3>1, NewWiresLead
    <3>3. wires' = wires \cup {w}
      BY <1>2, <2>1, <3>1 DEF OpenLinkEnd
    <3>4. \A v \in wires' : WireLeads(v)
      BY <1>1, <3>2, <3>3
    <3> QED
      BY <1>2, <3>4, WiresOnlyLead DEF Still
  <2>2. CASE end.kind # "redis"
    <3>1. \A w \in wires' : WireLeads(w)
      BY <1>2, <2>2, MarkedLead DEF OpenLinkEnd
    <3> QED
      BY <1>2, <3>1, WiresOnlyLead DEF Still
  <2> QED
    BY <2>1, <2>2
<1>3. ASSUME NEW l, NEW g, FollowFromHeader(g, l) \/ FollowFromElement(g, l)
      PROVE  LinksLead'
  BY <1>2, <1>3 DEF FollowFromHeader, FollowFromElement, Still
<1>4. ASSUME NEW l, FollowFromPicker(l)
      PROVE  LinksLead'
  BY <1>2, <1>4 DEF FollowFromPicker, Still
<1>5. ASSUME NEW m, NEW f, NEW token, OpenElementMenu(m, f, token)
      PROVE  LinksLead'
  BY <1>5 DEF OpenElementMenu, LinksLead
<1>6. ASSUME NEW g, ShowAll(g)
      PROVE  LinksLead'
  BY <1>6 DEF ShowAll, LinksLead
<1>7. ASSUME CloseMenus
      PROVE  LinksLead'
  BY <1>7 DEF CloseMenus, LinksLead
<1>8. ASSUME NEW k, Visit(k)
      PROVE  LinksLead'
  <2>1. \A w \in wires' : WireLeads(w)
    BY <1>1, <1>8, NewWiresLead, MarkedLead DEF Visit
  <2> QED
    BY <1>8, <2>1, WiresOnlyLead DEF Visit
<1> QED
  BY <1>3, <1>4, <1>5, <1>6, <1>7, <1>8 DEF Followings

LEMMA EditingsLead ==
  ASSUME LinksLead, Editings
  PROVE  LinksLead'
<1>1. \A w \in wires : WireLeads(w)
  BY DEF LinksLead
<1>2. ASSUME NEW w, Sends(w), WireLeads(w)
      PROVE  LinksLead'
  <2>1. \A v \in wires' : WireLeads(v)
    BY <1>1, <1>2 DEF Sends
  <2> QED
    BY <1>2, <2>1, WiresOnlyLead DEF Sends
<1>3. ASSUME OpenForm \/ CloseForm
      PROVE  LinksLead'
  BY <1>3 DEF OpenForm, CloseForm, LinksLead
<1>4. ASSUME NEW d \in Drafts, HandleSave(d)
      PROVE  LinksLead'
  <2>1. IsLink(d) /\ Leads(d)
    BY <1>4, LinksAssumption, ValidLeads DEF HandleSave
  <2>2. WireLeads([Wire("create") EXCEPT !.link = d])
    BY <2>1 DEF Wire, WireLeads
  <2> QED
    BY <1>2, <1>4, <2>2 DEF HandleSave
<1>5. ASSUME NEW m, NEW d \in Drafts, UpdateLink(m, d)
      PROVE  LinksLead'
  <2>1. IsLink(d) /\ Leads(d)
    BY <1>5, LinksAssumption, ValidLeads DEF UpdateLink
  <2>2. IsLink([d EXCEPT !.id = m.id]) /\ Leads([d EXCEPT !.id = m.id])
    BY <2>1, RewrittenLeads
  <2>3. WireLeads([Wire("update") EXCEPT !.link = [d EXCEPT !.id = m.id]])
    BY <2>2 DEF Wire, WireLeads
  <2> QED
    BY <1>2, <1>5, <2>3 DEF UpdateLink
<1>6. ASSUME NEW m, RemoveLink(m)
      PROVE  LinksLead'
  BY <1>2, <1>6, NewWiresLead DEF RemoveLink
<1> QED
  BY <1>3, <1>4, <1>5, <1>6 DEF Editings

LEMMA ServingLeads ==
  ASSUME LinksInv, LinksLead, NEW w \in wires, ServeLinks(w)
  PROVE  LinksLead'
<1>1. PICK link : link = IF w.kind = "create" THEN Payload(w.link, w.id) ELSE w.link
  OBVIOUS
<1>2. IsList(saved) /\ \A v \in wires : IsWire(v) /\ WireLeads(v)
  BY DEF LinksInv, LinksHold, WiresShape, LinksLead
<1>3. w.kind \in {"create", "update"} => IsLink(link) /\ Leads(link)
  <2>1. w.kind \in {"create", "update"} => IsLink(w.link) /\ Leads(w.link)
    BY <1>2 DEF WireLeads
  <2> QED
    BY <1>1, <2>1, RewrittenLeads
<1>4. PICK x : x = [w EXCEPT !.link = link]
  OBVIOUS
<1>5. x.kind = w.kind /\ x.link = link
  BY <1>2, <1>4 DEF IsWire
<1>6. saved' = IF w.kind \in Changes THEN Changed(saved, x) ELSE saved
  BY <1>1, <1>4 DEF ServeLinks
<1>7. AllLead(saved')
  <2>1. CASE w.kind \in Changes
    <3>1. w.kind # "remove" => Leads(link)
      BY <1>3, <2>1 DEF Changes
    <3>2. AllLead(Changed(saved, x))
      BY <1>2, <1>5, <2>1, <3>1, ChangedLeads DEF LinksLead
    <3> QED
      BY <1>6, <2>1, <3>2
  <2>2. CASE w.kind \notin Changes
    BY <1>6, <2>2 DEF LinksLead
  <2> QED
    BY <2>1, <2>2
<1>8. \A v \in wires' : WireLeads(v)
  <2>1. PICK answer :
          /\ \A v \in wires' :
               \/ v \in wires \/ (\E u \in wires : v = [u EXCEPT !.missed = @ \cup {w.id}])
               \/ v = [w EXCEPT !.done = TRUE, !.link = link, !.answer = answer]
          /\ w.kind = "fetch" => answer = saved
    <3>1. PICK found : wires' =
             {IF w.kind \in Changes /\ Late(v, w, link) THEN [v EXCEPT !.missed = @ \cup {w.id}] ELSE v
                : v \in wires \ {w}} \cup
             {[w EXCEPT !.done = TRUE, !.link = link,
                 !.answer = CASE w.kind = "fetch" -> saved
                              [] w.kind = "type" /\ found -> w.to [] OTHER -> NoValue]}
      BY <1>1 DEF ServeLinks
    <3>2. PICK answer : answer = CASE w.kind = "fetch" -> saved
                                   [] w.kind = "type" /\ found -> w.to [] OTHER -> NoValue
      OBVIOUS
    <3>3. w.kind = "fetch" => answer = saved
      BY <3>2
    <3>4. wires' =
             {IF w.kind \in Changes /\ Late(v, w, link) THEN [v EXCEPT !.missed = @ \cup {w.id}] ELSE v
                : v \in wires \ {w}} \cup {[w EXCEPT !.done = TRUE, !.link = link, !.answer = answer]}
      BY <3>1, <3>2, Zenon
    <3>5. ASSUME NEW v \in wires'
          PROVE  \/ v \in wires \/ (\E u \in wires : v = [u EXCEPT !.missed = @ \cup {w.id}])
                 \/ v = [w EXCEPT !.done = TRUE, !.link = link, !.answer = answer]
      BY <3>4
    <3> QED
      BY <3>3, <3>5
  <2>2. \A u \in wires : WireLeads([u EXCEPT !.missed = @ \cup {w.id}])
    BY <1>2 DEF IsWire, WireLeads
  <2>3. WireLeads([w EXCEPT !.done = TRUE, !.link = link, !.answer = answer])
    <3>1. PICK y : y = [w EXCEPT !.done = TRUE, !.link = link, !.answer = answer]
      OBVIOUS
    <3>2. y.kind = w.kind /\ y.link = link /\ y.answer = answer
      BY <1>2, <3>1 DEF IsWire
    <3> QED
      BY <1>3, <2>1, <3>1, <3>2 DEF WireLeads, LinksLead
  <2> QED
    BY <1>2, <2>1, <2>2, <2>3
<1>9. links' = links
  BY DEF ServeLinks
<1> QED
  BY <1>7, <1>8, <1>9 DEF LinksLead, AllLead, WireLeads

LEMMA WiresMoveLeads ==
  ASSUME LinksInv, LinksLead, WiresMove
  PROVE  LinksLead'
<1>1. PICK w \in wires :
        ServeLinks(w) \/ FetchLands(w) \/ ChangeLands(w) \/ TypeLands(w) \/ WireBreaks(w) \/ ChangeRefused(w)
  BY DEF WiresMove
<1>2. \A v \in wires : WireLeads(v)
  BY DEF LinksLead
<1>3. CASE ServeLinks(w)
  BY <1>3, ServingLeads
<1>4. CASE FetchLands(w)
  <2>1. AllLead(links')
    BY <1>2, <1>4 DEF FetchLands, WireLeads
  <2>2. \A v \in wires' : WireLeads(v)
    BY <1>2, <1>4 DEF FetchLands
  <2> QED
    BY <1>4, <2>1, <2>2 DEF FetchLands, LinksLead, AllLead, WireLeads
<1>5. CASE ChangeLands(w)
  <2>1. w.kind \in Changes /\ (w.kind # "remove" => Leads(w.link))
    BY <1>2, <1>5 DEF ChangeLands, WireLeads, Changes
  <2>2. IsList(links)
    BY DEF LinksInv, LinksHold
  <2>3. AllLead(links')
    BY <1>5, <2>1, <2>2, ChangedLeads DEF ChangeLands, ChangedInStore, LinksLead
  <2>4. \A v \in wires' : WireLeads(v)
    BY <1>5, MarkedLead DEF ChangeLands
  <2> QED
    BY <1>5, <2>3, <2>4 DEF ChangeLands, LinksLead, AllLead, WireLeads
<1>6. CASE TypeLands(w)
  <2>1. \A v \in wires' : WireLeads(v)
    BY <1>2, <1>6, MarkedLead, NewWiresLead DEF TypeLands
  <2> QED
    BY <1>6, <2>1, WiresOnlyLead DEF TypeLands
<1>7. CASE WireBreaks(w)
  <2>1. \A v \in wires' : WireLeads(v)
    BY <1>2, <1>7, MarkedLead DEF WireBreaks
  <2> QED
    BY <1>7, <2>1, WiresOnlyLead DEF WireBreaks
<1>8. CASE ChangeRefused(w)
  <2>1. \A v \in wires' : WireLeads(v)
    BY <1>2, <1>8 DEF ChangeRefused
  <2> QED
    BY <1>8, <2>1, WiresOnlyLead DEF ChangeRefused
<1> QED
  BY <1>1, <1>3, <1>4, <1>5, <1>6, <1>7, <1>8

(* For any keys, patterns, links and drafts the dialog lets through: what a
   key captures builds a key that the link leads back from, to that key
   (lib/links.ts: buildRedisKey, captureFromKey), also after links were made
   and changed, unless it holds two dollars in a row. *)
THEOREM ThereAndBackHolds == LinksSpec => []ThereAndBack
<1>1. LinksInit => LinksLead
  <2> SUFFICES ASSUME LinksInit
               PROVE  LinksLead
    OBVIOUS
  <2>1. saved \in StoredLinks /\ links = saved /\ wires = {}
    BY DEF LinksInit
  <2>2. \A n \in DOMAIN saved : IsLink(saved[n]) /\ ~Invalid(saved[n])
    BY <2>1, LinksAssumption, AcceptedAssumption
  <2>3. AllLead(saved)
    BY <2>2, ValidLeads DEF AllLead, Range
  <2> QED
    BY <2>1, <2>3 DEF LinksLead
<1>2. LinksInv /\ LinksLead /\ [LinksNext]_linkVars => LinksLead'
  <2>1. ASSUME LinksInv, LinksLead, LinksNext
        PROVE  LinksLead'
    BY <2>1, FollowingsLead, EditingsLead, WiresMoveLeads DEF LinksNext
  <2>2. ASSUME LinksLead, UNCHANGED linkVars
        PROVE  LinksLead'
    BY <2>2 DEF LinksLead, linkVars
  <2> QED
    BY <2>1, <2>2
<1>3. LinksLead => ThereAndBack
  <2> SUFFICES ASSUME LinksLead, NEW l \in Range(links), NEW k \in Keys,
                      IsRedisEnd(l.source, k), l.extract = "key_capture", l.target.kind = "redis",
                      Plain(ExtractRedisValue(l, k))
               PROVE  LET built == BuildRedisKey(l.target.scope, ExtractRedisValue(l, k))
                      IN /\ RedisKeyMatchesPattern(l.target.scope, built)
                         /\ BuildRedisKey(l.source.scope, CaptureFromKey(l.target.scope, built)) = k
    BY DEF ThereAndBack
  <2>1. Leads(l)
    BY DEF LinksLead, AllLead
  <2> QED
    BY <2>1, LeadsBack
<1> QED
  BY <1>1, <1>2, <1>3, AlwaysLinksInv, PTL DEF LinksSpec
=============================================================================

----------------------------- MODULE KafkaProofs ----------------------------
(* Theorems about paging through a topic.  Of KafkaReader, for any topic, page
   size, bounds, changes and failures; those about what the tab was given leave
   out only a partition whose end could not be listed.  Of KafkaClient, for any
   log, page size, conditions, bounds and number of requests under way. *)
EXTENDS KafkaReader, KafkaClient, SubsequenceProofs, FiniteSetTheorems, SequenceTheorems, WellFoundedInduction, TLAPS

-----------------------------------------------------------------------------
(* The reader. *)

(* Where a mark stands, the browse has this offset behind it. *)
Past(o, mark) == IF Oldest THEN o < mark ELSE o >= mark

(* The mark right behind a row. *)
Behind(r) == IF Oldest THEN r[3] + 1 ELSE r[3]

(* The rows read so far hold what partition p has from where the request began
   to a mark. *)
Covered(p, mark) ==
  \A o \in log[p] : ~ Past(o, Beginning(p)) /\ Past(o, mark) => <<inc, p, o>> \in rows

Asking == pc \in {"round", "consume", "answer"}

(* A topic holds records between its ends only. *)
TopicInv ==
  /\ inc \in 1..(changes + 1)
  /\ \A p \in Parts : lo[p] <= hi[p] /\ log[p] \subseteq lo[p]..(hi[p] - 1)

(* What the browse has met is a present or former topic; before it met one it
   has neither a listing nor a place in it. *)
SeenInv ==
  /\ seen \subseteq 1..inc
  /\ seen = {} => /\ starts = Unset /\ ends = Unset
                  /\ \A p \in Parts : edge[p] = Unset /\ cursor[p] = Unset

(* Between two calls of consumeWindows there is none. *)
NoCall == windows = Everywhere(NoWindow) /\ landed = {} /\ found = {}

(* What a request works with. *)
RequestInv ==
  /\ pc # "consume" => NoCall
  /\ Asking => starts # Unset /\ ends # Unset
  /\ pc = "consume" => round < MaxRounds
  /\ ~ more => pc = "idle" /\ starts # Unset /\ ends # Unset
  /\ pc # "idle" => resume = IF retried THEN Everywhere(Unset) ELSE cursor
  /\ \A p \in Parts \ query.scope : edge[p] = Unset /\ cursor[p] = Unset

(* Windows lie within the listed offsets, and rows within their windows. *)
WindowInv ==
  /\ Oldest => /\ \A r \in rows : r[3] < ends[r[2]]
               /\ \A p \in Parts : far[p] # NoWindow => far[p].upper <= ends[p]
               /\ pc # "answer" => \A p \in Windowed : floor[p] <= ends[p]
  /\ \A r \in rows : r[2] \in held
  /\ \A r \in rows : r[1] \in seen
  /\ landed \subseteq Asked
  /\ Asked \subseteq Windowed
  /\ pc = "consume" => \A p \in Asked : /\ windows[p].from < windows[p].upper
                          /\ IF Oldest THEN windows[p].from = floor[p] /\ windows[p].upper <= ends[p]
                             ELSE windows[p].upper = floor[p]
  /\ \A r \in found : r[1] \in seen /\ r[2] \in landed /\ r[3] \in Within(windows[r[2]])

(* What was listed of the topic is still there, or was. *)
ListedInv ==
  /\ starts # Unset => \A p \in Parts : starts[p] <= lo[p]
  /\ ends # Unset => \A p \in Parts : ends[p] <= hi[p]

(* The browse began, and stands, within the topic and its seek. *)
BrowseInv ==
  \A p \in Parts : edge[p] # Unset =>
    IF Oldest
    THEN /\ query.seek # Unset => edge[p] >= query.seek
         /\ cursor[p] # Unset => cursor[p] <= hi[p]
    ELSE /\ edge[p] <= hi[p]
         /\ ends # Unset /\ p \notin unlisted => edge[p] <= ends[p]
         /\ query.seek # Unset => edge[p] <= query.seek + 1

(* Rounds leave no gap: not up to a row, not over a window that was read to its
   end, and not up to where the next window begins. *)
CoverInv ==
  /\ \A r \in rows : Covered(r[2], Behind(r))
  /\ \A p \in Parts : far[p] # NoWindow => Covered(p, FarSide(far[p]))
  /\ pc # "answer" => \A p \in Windowed : Covered(p, floor[p])
  /\ \A p \in landed : /\ windows[p].upper <= hi[p]
                       /\ \A o \in log[p] \cap Within(windows[p]) : <<inc, p, o>> \in found

ReaderInv ==
  /\ ReaderTypeOK /\ TopicInv /\ SeenInv /\ RequestInv
  /\ Asking => WindowInv
  /\ SameTopic => ListedInv /\ BrowseInv /\ (Asking => CoverInv)
  /\ NeverSkips /\ ExhaustedMeansAll

-----------------------------------------------------------------------------
(* A set of offsets that is not empty has a least and a greatest offset, which
   is what Min and Max choose. *)
LEMMA LeastNat ==
  ASSUME NEW S, S \subseteq Nat, S # {}
  PROVE \E x \in S : \A y \in S : x <= y
<1>1. PICK x \in S : \A y \in S : ~ (<<y, x>> \in OpToRel(<, Nat))
  BY NatLessThanWellFounded, WFMin
<1>2. \A y \in S : x <= y
  <2>1. SUFFICES ASSUME NEW y \in S, y < x PROVE FALSE
    OBVIOUS
  <2>2. <<y, x>> \in OpToRel(<, Nat)
    BY <2>1 DEF OpToRel
  <2>3. QED BY <1>1, <2>2
<1>3. QED BY <1>2

LEMMA MinOfOffsets ==
  ASSUME NEW S, S \subseteq Offsets, S # {}
  PROVE Min(S) \in S /\ \A y \in S : Min(S) <= y
<1>1. S \subseteq Nat
  BY ReaderAssumption DEF Offsets
<1>2. PICK x \in S : \A y \in S : x <= y
  BY <1>1, LeastNat
<1>3. QED
  BY <1>2 DEF Min

LEMMA MaxOfOffsets ==
  ASSUME NEW S, S \subseteq Offsets, S # {}
  PROVE Max(S) \in S /\ \A y \in S : Max(S) >= y
<1> DEFINE T == {MaxOffset - x : x \in S}
<1>1. T \subseteq Nat /\ T # {}
  <2>1. \A x \in S : MaxOffset - x \in Nat
    BY ReaderAssumption DEF Offsets
  <2>2. PICK x \in S : TRUE
    OBVIOUS
  <2>3. MaxOffset - x \in T
    BY <2>2
  <2>4. QED BY <2>1, <2>3
<1>2. PICK t \in T : \A y \in T : t <= y
  BY <1>1, LeastNat
<1>3. PICK x \in S : t = MaxOffset - x
  BY <1>2
<1>4. \A y \in S : x >= y
  <2>1. SUFFICES ASSUME NEW y \in S PROVE x >= y
    OBVIOUS
  <2>2. MaxOffset - x <= MaxOffset - y
    BY <1>2, <1>3
  <2>3. x \in Int /\ y \in Int /\ MaxOffset \in Int
    BY ReaderAssumption DEF Offsets
  <2>4. QED BY <2>2, <2>3
<1>5. QED
  BY <1>4 DEF Max

LEMMA MinOfTwo ==
  ASSUME NEW a \in Int, NEW b \in Int
  PROVE Min({a, b}) = IF a <= b THEN a ELSE b
BY DEF Min

LEMMA MaxOfTwo ==
  ASSUME NEW a \in Int, NEW b \in Int
  PROVE Max({a, b}) = IF a >= b THEN a ELSE b
BY DEF Max
-----------------------------------------------------------------------------
(* Where a request begins in a partition: at the bound that is furthest along,
   and before the listed end of it exactly when there is something to read. *)
LEMMA WhereItBegins ==
  ASSUME starts \in [Parts -> Offsets], ends \in [Parts -> Offsets], query \in Query,
         resume \in Marks, NEW p \in Parts
  PROVE /\ Beginning(p) \in Offsets
        /\ Oldest => /\ Beginning(p) >= starts[p]
                     /\ query.seek # Unset => Beginning(p) >= query.seek
                     /\ \/ Beginning(p) = starts[p]
                        \/ Beginning(p) = query.seek /\ query.seek # Unset
                        \/ Beginning(p) = resume[p] /\ resume[p] # Unset
                     /\ p \in query.scope => (p \in Windowed <=> Beginning(p) < ends[p])
        /\ ~ Oldest => /\ Beginning(p) <= ends[p]
                       /\ query.seek # Unset => Beginning(p) <= query.seek + 1
                       /\ \/ Beginning(p) = ends[p]
                          \/ Beginning(p) = query.seek + 1 /\ query.seek # Unset
                          \/ Beginning(p) = resume[p] /\ resume[p] # Unset
                       /\ p \in query.scope => (p \in Windowed <=> starts[p] < Beginning(p))
        /\ p \in Windowed => p \in query.scope
<1>0. /\ starts[p] \in Offsets /\ ends[p] \in Offsets /\ resume[p] \in Offsets \cup {Unset}
      /\ query.seek \in Offsets \cup {Unset} /\ query.scope \subseteq Parts
  BY DEF Query, Marks
<1>1. Offsets \subseteq Int /\ Unset \notin Int /\ MaxOffset \in Nat
  BY ReaderAssumption DEF Offsets
<1>a. starts[p] \in Int /\ ends[p] \in Int /\ query.seek \in Int \cup {Unset} /\ resume[p] \in Int \cup {Unset}
  BY <1>0, <1>1
<1>2. CASE Oldest
  <2> DEFINE k == query.seek
  <2>0. k \in Int \cup {Unset}
    BY <1>a
  <2> HIDE DEF k
  <2> DEFINE S == {starts[p], k, resume[p]} \ {Unset}
  <2>s. S \subseteq Int /\ starts[p] \in S
    BY <1>a, <1>1, <2>0
  <2>t. \E x \in S : \A y \in S : x >= y
    <3>1. \E x \in {starts[p], k} \ {Unset} : \A y \in {starts[p], k} \ {Unset} : x >= y
      BY <1>a, <1>1, <2>0
    <3>2. PICK x \in {starts[p], k} \ {Unset} : \A y \in {starts[p], k} \ {Unset} : x >= y
      BY <3>1
    <3>3. CASE resume[p] = Unset \/ x >= resume[p]
      BY <2>s, <3>2, <3>3
    <3>4. CASE ~(resume[p] = Unset \/ x >= resume[p])
      <4>1. resume[p] \in S /\ x \in Int /\ resume[p] \in Int /\ resume[p] > x
        BY <1>a, <1>1, <2>0, <3>4
      <4>2. \A y \in S : y \in Int /\ (y = resume[p] \/ x >= y)
        BY <2>s, <3>2
      <4>3. \A y \in S : resume[p] >= y
        BY <4>1, <4>2
      <4>4. QED BY <4>1, <4>3
    <3>5. QED BY <3>3, <3>4
  <2>m. PICK m : m = Max(S)
    OBVIOUS
  <2>n. m \in S /\ \A y \in S : m >= y
    BY <2>t, <2>m DEF Max
  <2>1. /\ m \in Int /\ m >= starts[p] /\ (k # Unset => m >= k)
        /\ m = starts[p] \/ (m = k /\ k # Unset) \/ (m = resume[p] /\ resume[p] # Unset)
    BY <1>a, <2>0, <2>s, <2>n
  <2> USE DEF k
  <2>2. Beginning(p) = m /\ Lower(p, resume[p]) = m /\ Upper(p, resume[p]) = ends[p]
    BY <1>2, <2>m DEF Beginning, Lower, Upper
  <2>3. m \in Offsets
    BY <1>0, <2>1
  <2>4. QED
    BY <1>2, <2>1, <2>2, <2>3 DEF Windowed
<1>3. CASE ~ Oldest
  <2> DEFINE c == IF query.seek = Unset THEN Unset ELSE query.seek + 1
  <2>0. c \in Int \cup {Unset} /\ (c # Unset <=> query.seek # Unset)
    BY <1>a, <1>1
  <2> HIDE DEF c
  <2> DEFINE S == {ends[p], c, resume[p]} \ {Unset}
  <2>s. S \subseteq Int /\ ends[p] \in S
    BY <1>a, <1>1, <2>0
  <2>t. \E x \in S : \A y \in S : x <= y
    <3>1. \E x \in {ends[p], c} \ {Unset} : \A y \in {ends[p], c} \ {Unset} : x <= y
      BY <1>a, <1>1, <2>0
    <3>2. PICK x \in {ends[p], c} \ {Unset} : \A y \in {ends[p], c} \ {Unset} : x <= y
      BY <3>1
    <3>3. CASE resume[p] = Unset \/ x <= resume[p]
      BY <2>s, <3>2, <3>3
    <3>4. CASE ~(resume[p] = Unset \/ x <= resume[p])
      <4>1. resume[p] \in S /\ x \in Int /\ resume[p] \in Int /\ resume[p] < x
        BY <1>a, <1>1, <2>0, <3>4
      <4>2. \A y \in S : y \in Int /\ (y = resume[p] \/ x <= y)
        BY <2>s, <3>2
      <4>3. \A y \in S : resume[p] <= y
        BY <4>1, <4>2
      <4>4. QED BY <4>1, <4>3
    <3>5. QED BY <3>3, <3>4
  <2>m. PICK m : m = Min(S)
    OBVIOUS
  <2>n. m \in S /\ \A y \in S : m <= y
    BY <2>t, <2>m DEF Min
  <2>1. /\ m \in Int /\ m <= ends[p] /\ (c # Unset => m <= c)
        /\ m = ends[p] \/ (m = c /\ c # Unset) \/ (m = resume[p] /\ resume[p] # Unset)
    BY <1>a, <2>0, <2>s, <2>n
  <2>2. Beginning(p) = m /\ Lower(p, resume[p]) = starts[p] /\ Upper(p, resume[p]) = m
    BY <1>3, <2>m DEF Beginning, Lower, Upper, SeekCeiling, c
  <2>3. m \in Offsets
    <3>1. CASE m = c /\ c # Unset
      BY <1>0, <1>1, <2>0, <2>1, <3>1 DEF Offsets, c
    <3>2. CASE ~(m = c /\ c # Unset)
      BY <1>0, <2>1, <3>2
    <3>3. QED BY <3>1, <3>2
  <2>4. /\ query.seek # Unset => m <= query.seek + 1
        /\ m = ends[p] \/ (m = query.seek + 1 /\ query.seek # Unset) \/ (m = resume[p] /\ resume[p] # Unset)
    BY <2>0, <2>1 DEF c
  <2>5. p \in query.scope => (p \in Windowed <=> starts[p] < Beginning(p))
    BY <2>2 DEF Windowed
  <2>6. p \in Windowed => p \in query.scope
    BY DEF Windowed
  <2>7. QED
    BY <1>3, <2>1, <2>2, <2>3, <2>4, <2>5, <2>6
<1>4. QED
  BY <1>2, <1>3

(* A quota is a row at least. *)
LEMMA SomeQuota ==
  ASSUME query \in Query
  PROVE Quota \in Nat \ {0}
<1>1. IsFiniteSet(query.scope) /\ query.scope # {}
  <2>1. query.scope \subseteq Parts /\ query.scope # {}
    BY DEF Query
  <2>2. QED BY <2>1, ReaderAssumption, FS_Subset
<1>2. Cardinality(query.scope) \in Nat \ {0}
  BY <1>1, FS_CardinalityType, FS_EmptySet
<1>3. Target \in Nat \ {0}
  BY ReaderAssumption DEF Target
<1>4. \A t, n \in Nat \ {0} : (t + n - 1) \div n \in Nat \ {0}
  <2>1. SUFFICES ASSUME NEW t \in Nat \ {0}, NEW n \in Nat \ {0}
                 PROVE  (t + n - 1) \div n \in Nat \ {0}
    OBVIOUS
  <2> DEFINE a == t + n - 1
  <2>2. a \in Nat /\ a >= n
    OBVIOUS
  <2> HIDE DEF a
  <2>3. a \div n \in Int /\ a = n * (a \div n) + (a % n) /\ a % n \in 0..(n - 1)
    BY <2>2
  <2>4. a \div n > 0
    BY <2>2, <2>3
  <2>5. QED BY <2>3, <2>4 DEF a
<1>5. QED
  BY <1>2, <1>3, <1>4 DEF Quota

-----------------------------------------------------------------------------
(* What a step of a request that gives the tab nothing leaves alone. *)
LEMMA TheTabIsLeftAlone ==
  ASSUME ReaderInv, more, UNCHANGED <<topicVars, tabVars>>, seen \subseteq seen', unlisted \subseteq unlisted'
  PROVE /\ TopicInv' /\ NeverSkips' /\ ExhaustedMeansAll'
        /\ SameTopic' => SameTopic
<1> USE DEF ReaderInv, topicVars, tabVars
<1>1. SameTopic' => SameTopic
  BY DEF SameTopic
<1>2. TopicInv'
  BY DEF TopicInv
<1>3. NeverSkips'
  BY <1>1 DEF NeverSkips, Passed, Unseen, Oldest
<1>4. ExhaustedMeansAll'
  BY DEF ExhaustedMeansAll
<1>5. QED
  BY <1>1, <1>2, <1>3, <1>4

LEMMA AskPreserves ==
  ASSUME ReaderInv, Ask
  PROVE ReaderInv'
<1> USE DEF ReaderInv, Ask, topicVars, tabVars, roundVars, callVars, historyVars
<1>0. /\ TopicInv' /\ NeverSkips' /\ ExhaustedMeansAll'
      /\ SameTopic' => SameTopic
  BY TheTabIsLeftAlone
<1>1. ReaderTypeOK'
  BY DEF ReaderTypeOK
<1>2. SeenInv'
  BY DEF SeenInv
<1>3. RequestInv' /\ ~ Asking'
  BY DEF RequestInv, NoCall, Asking
<1>4. SameTopic' => ListedInv' /\ BrowseInv'
  BY <1>0 DEF ListedInv, BrowseInv, Oldest
<1>5. QED
  BY <1>0, <1>1, <1>2, <1>3, <1>4

LEMMA ListStartsPreserves ==
  ASSUME ReaderInv, NEW failed, failed \subseteq Parts, ListStarts(failed)
  PROVE ReaderInv'
<1> USE DEF ReaderInv, ListStarts, MayFail, topicVars, tabVars, roundVars, callVars, historyVars
<1>0. /\ TopicInv' /\ NeverSkips' /\ ExhaustedMeansAll'
      /\ SameTopic' => SameTopic
  BY TheTabIsLeftAlone DEF RequestInv
<1>a. \A p \in Parts : starts'[p] <= lo[p]
  BY DEF WasListed, ReaderTypeOK, Offsets
<1>1. ReaderTypeOK'
  <2>1. starts' \in [Parts -> Offsets]
    BY ReaderAssumption DEF WasListed, ReaderTypeOK, Offsets
  <2>2. failures' \in 0..MaxFailures
    BY ReaderAssumption DEF ReaderTypeOK
  <2>3. QED BY <2>1, <2>2 DEF ReaderTypeOK, Incs
<1>2. SeenInv'
  BY DEF SeenInv, TopicInv
<1>3. RequestInv' /\ ~ Asking'
  BY DEF RequestInv, NoCall, Asking
<1>4. SameTopic' => ListedInv' /\ BrowseInv'
  BY <1>0, <1>a DEF ListedInv, BrowseInv, SameTopic, Oldest, ReaderTypeOK, Offsets
<1>5. QED
  BY <1>0, <1>1, <1>2, <1>3, <1>4

LEMMA ListEndsPreserves ==
  ASSUME ReaderInv, NEW failed, failed \subseteq Parts, ListEnds(failed)
  PROVE ReaderInv'
<1> USE DEF ReaderInv, ListEnds, MayFail, topicVars, tabVars, roundVars, callVars, historyVars
<1>0. /\ TopicInv' /\ NeverSkips' /\ ExhaustedMeansAll'
      /\ SameTopic' => SameTopic
  BY TheTabIsLeftAlone DEF RequestInv
<1>a. \A p \in Parts : /\ ends'[p] <= hi[p]
                       /\ p \notin unlisted' => ends'[p] = hi[p]
  BY DEF WasListed, ReaderTypeOK, Offsets
<1>1. ReaderTypeOK'
  <2>1. ends' \in [Parts -> Offsets]
    BY ReaderAssumption DEF WasListed, ReaderTypeOK, Offsets
  <2>2. failures' \in 0..MaxFailures
    BY ReaderAssumption DEF ReaderTypeOK
  <2>3. QED BY <2>1, <2>2 DEF ReaderTypeOK, Incs
<1>2. SeenInv'
  <2>1. seen' = seen \cup {inc} /\ inc' = inc /\ inc \in 1..inc
    BY DEF TopicInv
  <2>2. QED BY ONLY <2>1, SeenInv DEF SeenInv
<1>3. RequestInv' /\ ~ Asking'
  BY DEF RequestInv, NoCall, Asking
<1>4. SameTopic' => ListedInv' /\ BrowseInv'
  BY <1>0, <1>a DEF ListedInv, BrowseInv, SameTopic, Oldest, ReaderTypeOK, Offsets
<1>5. QED
  BY <1>0, <1>1, <1>2, <1>3, <1>4

-----------------------------------------------------------------------------
(* While no other topic takes its name, a topic loses records, and gains some
   at its end: what was covered stays covered, and so do browses and requests. *)
LEMMA TheEndIsAhead ==
  ASSUME ReaderTypeOK, Asking, starts # Unset, ends # Unset, ListedInv,
         UNCHANGED <<inc, query, listVars, rows>>,
         NEW p \in Parts, NEW mark \in Int, Covered(p, mark), Oldest => mark <= ends[p],
         log'[p] \subseteq Int, \A o \in log'[p] : o \in log[p] \/ o >= hi[p]
  PROVE Covered(p, mark)'
<1>0. /\ starts \in [Parts -> Offsets] /\ ends \in [Parts -> Offsets] /\ query \in Query /\ resume \in Marks
      /\ hi[p] \in Int /\ ends[p] \in Int /\ ends[p] <= hi[p]
  BY ReaderAssumption DEF ReaderTypeOK, ListedInv, Offsets
<1>1. Beginning(p)' = Beginning(p) /\ Oldest' = Oldest
  BY DEF listVars, Beginning, Lower, Upper, SeekCeiling, Oldest
<1>2. Beginning(p) \in Int /\ (~ Oldest => Beginning(p) <= ends[p])
  BY <1>0, WhereItBegins DEF Offsets
<1>3. SUFFICES ASSUME NEW o \in log'[p], ~ Past(o, Beginning(p)), Past(o, mark)
               PROVE  <<inc, p, o>> \in rows
  BY <1>1 DEF Covered, Past
<1>4. ~ (o >= hi[p])
  <2>1. CASE Oldest
    BY <1>0, <1>3, <2>1 DEF Past
  <2>2. CASE ~ Oldest
    BY <1>0, <1>2, <1>3, <2>2 DEF Past
  <2>3. QED BY <2>1, <2>2
<1>5. QED
  BY <1>3, <1>4 DEF Covered

LEMMA TopicMovesOn ==
  ASSUME ReaderInv, ReaderTypeOK', TopicInv',
         UNCHANGED <<inc, pc, tabVars, listVars, roundVars, callVars, seen, unlisted>>,
         \A p \in Parts : /\ lo[p] <= lo'[p] /\ hi[p] <= hi'[p]
                          /\ \A o \in log'[p] : o \in log[p] \/ o >= hi[p]
  PROVE ReaderInv'
<1> USE DEF ReaderInv, tabVars, listVars, roundVars, callVars, historyVars
<1>0. SameTopic' = SameTopic /\ Oldest' = Oldest /\ Asking' = Asking /\ Asked' = Asked
  BY DEF SameTopic, Oldest, Asking, Asked
<1>a. Windowed' = Windowed /\ \A p \in Parts : Beginning(p)' = Beginning(p)
  BY DEF Windowed, Beginning, Lower, Upper, SeekCeiling, Oldest
<1>b. \A p \in Parts : /\ log[p] \subseteq Int /\ log'[p] \subseteq Int
                       /\ hi[p] \in Int /\ lo[p] \in Int /\ hi'[p] \in Int /\ lo'[p] \in Int
  BY DEF ReaderTypeOK, Offsets
<1>1. SeenInv'
  BY DEF SeenInv
<1>2. RequestInv'
  BY <1>0 DEF RequestInv, NoCall
<1>3. Asking => WindowInv'
  BY <1>0, <1>a DEF WindowInv, Within
<1>4. SameTopic => ListedInv' /\ BrowseInv'
  <2> SUFFICES ASSUME SameTopic PROVE ListedInv' /\ BrowseInv'
    OBVIOUS
  <2>1. ListedInv'
    BY <1>b DEF ListedInv, ReaderTypeOK, Offsets
  <2>2. BrowseInv'
    <3> SUFFICES ASSUME NEW p \in Parts, edge[p] # Unset
                 PROVE  IF Oldest
                        THEN /\ query.seek # Unset => edge[p] >= query.seek
                             /\ cursor[p] # Unset => cursor[p] <= hi'[p]
                        ELSE /\ edge[p] <= hi'[p]
                             /\ ends # Unset /\ p \notin unlisted => edge[p] <= ends[p]
                             /\ query.seek # Unset => edge[p] <= query.seek + 1
      BY <1>0 DEF BrowseInv
    <3>1. /\ edge[p] \in Int /\ (cursor[p] # Unset => cursor[p] \in Int)
          /\ hi[p] \in Int /\ hi'[p] \in Int /\ hi[p] <= hi'[p]
      BY <1>b DEF ReaderTypeOK, Marks, Offsets
    <3>2. QED BY <3>1 DEF BrowseInv
  <2>3. QED BY <2>1, <2>2
<1>5. SameTopic /\ Asking => CoverInv'
  <2> SUFFICES ASSUME SameTopic, Asking PROVE CoverInv'
    OBVIOUS
  <2>0. starts # Unset /\ ends # Unset
    BY DEF RequestInv
  <2>1. ASSUME NEW p \in Parts, NEW mark \in Int, Covered(p, mark), Oldest => mark <= ends[p]
        PROVE  Covered(p, mark)'
    BY <2>0, <2>1, <1>b, TheEndIsAhead
  <2>2. \A r \in rows : Covered(r[2], Behind(r))'
    <3> SUFFICES ASSUME NEW r \in rows PROVE Covered(r[2], Behind(r))'
      OBVIOUS
    <3>1. r[2] \in Parts /\ r[3] \in Int
      BY DEF ReaderTypeOK, Rows, Offsets
    <3>2. Behind(r) \in Int /\ Behind(r)' = Behind(r)
      BY <3>1 DEF Behind, Oldest
    <3>3. Oldest => Behind(r) <= ends[r[2]]
      BY <2>0, <3>1 DEF WindowInv, Behind, ReaderTypeOK, Offsets
    <3>4. Covered(r[2], Behind(r))
      BY DEF CoverInv
    <3>5. QED BY <2>1, <3>1, <3>2, <3>3, <3>4 DEF Covered
  <2>3. \A p \in Parts : far[p] # NoWindow => Covered(p, FarSide(far[p]))'
    <3> SUFFICES ASSUME NEW p \in Parts, far[p] # NoWindow PROVE Covered(p, FarSide(far[p]))'
      OBVIOUS
    <3>1. FarSide(far[p]) \in Int /\ FarSide(far[p])' = FarSide(far[p])
      BY DEF ReaderTypeOK, ReadWindows, FarSide, Offsets, Oldest
    <3>2. Covered(p, FarSide(far[p])) /\ (Oldest => FarSide(far[p]) <= ends[p])
      BY DEF CoverInv, WindowInv, FarSide
    <3>3. QED BY <2>1, <3>1, <3>2 DEF Covered
  <2>4. pc # "answer" => \A p \in Windowed : Covered(p, floor[p])'
    <3> SUFFICES ASSUME pc # "answer", NEW p \in Windowed PROVE Covered(p, floor[p])'
      OBVIOUS
    <3>1. p \in Parts /\ floor[p] \in Int
      BY DEF ReaderTypeOK, Windowed, Query, Offsets
    <3>2. Covered(p, floor[p]) /\ (Oldest => floor[p] <= ends[p])
      BY DEF CoverInv, WindowInv
    <3>3. QED BY <2>1, <3>1, <3>2
  <2>5. \A p \in landed : /\ windows[p].upper <= hi'[p]
                          /\ \A o \in log'[p] \cap Within(windows[p]) : <<inc, p, o>> \in found
    <3> SUFFICES ASSUME NEW p \in landed
                 PROVE  /\ windows[p].upper <= hi'[p]
                        /\ \A o \in log'[p] \cap Within(windows[p]) : <<inc, p, o>> \in found
      OBVIOUS
    <3>1. p \in Parts /\ windows[p].upper \in Int /\ windows[p].from \in Int /\ windows[p].upper <= hi[p]
      BY DEF ReaderTypeOK, CoverInv, ReadWindows, Offsets
    <3>2. \A o \in log'[p] \cap Within(windows[p]) : o \in log[p]
      BY <3>1, <1>b DEF Within
    <3>3. QED BY <3>1, <3>2, <1>b DEF CoverInv
  <2>6. QED BY <2>2, <2>3, <2>4, <2>5, <1>0, <1>a DEF CoverInv, Within
<1>6. NeverSkips'
  <2> SUFFICES ASSUME SameTopic, NEW p \in Parts \ unlisted, NEW o \in Passed(p), o \in log'[p], <<inc, p, o>> \notin shown
               PROVE  FALSE
    BY <1>0 DEF NeverSkips, Passed, Unseen
  <2>1. /\ edge[p] # Unset /\ cursor[p] # Unset /\ edge[p] \in Int /\ cursor[p] \in Int /\ o \in Int
        /\ IF Oldest THEN o >= edge[p] /\ o < cursor[p] ELSE o >= cursor[p] /\ o < edge[p]
    BY DEF Passed, ReaderTypeOK, Marks, Offsets
  <2>2. ~ (o >= hi[p])
    BY <2>1, <1>b DEF BrowseInv
  <2>3. o \in log[p]
    BY <2>2
  <2>4. QED BY <2>3 DEF NeverSkips, Unseen
<1>7. ExhaustedMeansAll'
  <2> SUFFICES ASSUME ~ more, SameTopic, NEW p \in query.scope \ unlisted, NEW o \in Offsets, o \in log'[p],
                      <<inc, p, o>> \notin shown
               PROVE  edge[p] = Unset \/ (IF Oldest THEN o < edge[p] \/ o >= ends[p] ELSE o >= edge[p])
    BY <1>0 DEF ExhaustedMeansAll, Unseen
  <2>1. p \in Parts /\ ends # Unset
    BY DEF ReaderTypeOK, Query, RequestInv
  <2>2. CASE o \in log[p]
    BY <2>2 DEF ExhaustedMeansAll, Unseen
  <2>3. CASE o >= hi[p]
    <3>1. ends[p] <= hi[p] /\ ends[p] \in Int /\ o \in Int /\ hi[p] \in Int
      BY <2>1, <1>b DEF ListedInv, ReaderTypeOK, Offsets
    <3>2. edge[p] # Unset => edge[p] \in Int /\ (~ Oldest => edge[p] <= hi[p])
      BY <2>1 DEF BrowseInv, ReaderTypeOK, Offsets
    <3>3. QED BY <2>3, <3>1, <3>2
  <2>4. QED BY <2>1, <2>2, <2>3
<1>8. QED
  BY <1>0, <1>1, <1>2, <1>3, <1>4, <1>5, <1>6, <1>7

-----------------------------------------------------------------------------
(* The topic's own steps. *)
LEMMA AChangeKeepsTypes ==
  ASSUME ReaderTypeOK, Change, inc' = inc, log' \in [Parts -> SUBSET Offsets],
         lo' \in [Parts -> Offsets], hi' \in [Parts -> Offsets]
  PROVE ReaderTypeOK'
<1>1. changes' \in 0..MaxChanges
  BY ReaderAssumption DEF Change, ReaderTypeOK
<1>2. QED
  BY <1>1 DEF Change, ReaderTypeOK, tabVars, listVars, roundVars, callVars, historyVars

LEMMA ProducePreserves ==
  ASSUME ReaderInv, NEW p \in Parts, Produce(p)
  PROVE ReaderInv'
<1> USE DEF Produce, Change
<1>1. ReaderTypeOK'
  <2>1. hi[p] \in Offsets /\ hi[p] + 1 \in Offsets
    BY ReaderAssumption DEF ReaderInv, ReaderTypeOK, Offsets
  <2>2. /\ hi' \in [Parts -> Offsets] /\ lo' \in [Parts -> Offsets] /\ inc' = inc
        /\ log' \in [Parts -> SUBSET Offsets]
    BY <2>1 DEF ReaderInv, ReaderTypeOK
  <2>3. QED BY <2>2, AChangeKeepsTypes DEF ReaderInv
<1>2. /\ \A q \in Parts : lo[q] \in Int /\ hi[q] \in Int /\ log[q] \subseteq Int
      /\ lo' = lo /\ inc' = inc /\ changes \in Int
  BY DEF ReaderInv, ReaderTypeOK, Offsets
<1>3. \A q \in Parts : /\ hi'[q] = IF q = p THEN hi[q] + 1 ELSE hi[q]
                       /\ log'[q] = IF q = p THEN log[q] \cup {hi[q]} ELSE log[q]
  BY DEF ReaderInv, ReaderTypeOK
<1>4. TopicInv'
  <2>1. inc' \in 1..(changes' + 1)
    BY <1>2 DEF ReaderInv, TopicInv
  <2>2. ASSUME NEW q \in Parts PROVE lo'[q] <= hi'[q] /\ log'[q] \subseteq lo'[q]..(hi'[q] - 1)
    <3>1. lo[q] <= hi[q] /\ log[q] \subseteq lo[q]..(hi[q] - 1)
      BY DEF ReaderInv, TopicInv
    <3>2. CASE q = p
      BY <3>1, <3>2, <1>2, <1>3
    <3>3. CASE q # p
      BY <3>1, <3>3, <1>2, <1>3
    <3>4. QED BY <3>2, <3>3
  <2>3. QED BY <2>1, <2>2 DEF TopicInv
<1>5. \A q \in Parts : /\ lo[q] <= lo'[q] /\ hi[q] <= hi'[q]
                       /\ \A o \in log'[q] : o \in log[q] \/ o >= hi[q]
  BY <1>2, <1>3
<1>6. QED
  BY <1>1, <1>4, <1>5, TopicMovesOn DEF historyVars

LEMMA RetainPreserves ==
  ASSUME ReaderInv, NEW p \in Parts, NEW start \in Offsets, Retain(p, start)
  PROVE ReaderInv'
<1> USE DEF Retain, Change
<1>1. ReaderTypeOK'
  <2>2. /\ hi' \in [Parts -> Offsets] /\ lo' \in [Parts -> Offsets] /\ inc' = inc
        /\ log' \in [Parts -> SUBSET Offsets]
    BY DEF ReaderInv, ReaderTypeOK
  <2>3. QED BY <2>2, AChangeKeepsTypes DEF ReaderInv
<1>2. /\ \A q \in Parts : lo[q] \in Int /\ hi[q] \in Int /\ log[q] \subseteq Int
      /\ hi' = hi /\ inc' = inc /\ changes \in Int /\ start \in Int
  BY DEF ReaderInv, ReaderTypeOK, Offsets
<1>3. \A q \in Parts : /\ lo'[q] = IF q = p THEN start ELSE lo[q]
                       /\ log'[q] = IF q = p THEN {o \in log[q] : o >= start} ELSE log[q]
  BY DEF ReaderInv, ReaderTypeOK
<1>4. TopicInv'
  <2>1. inc' \in 1..(changes' + 1)
    BY <1>2 DEF ReaderInv, TopicInv
  <2>2. ASSUME NEW q \in Parts PROVE lo'[q] <= hi'[q] /\ log'[q] \subseteq lo'[q]..(hi'[q] - 1)
    <3>1. lo[q] <= hi[q] /\ log[q] \subseteq lo[q]..(hi[q] - 1)
      BY DEF ReaderInv, TopicInv
    <3>2. CASE q = p
      <4>1. lo'[q] = start /\ hi'[q] = hi[q] /\ start <= hi[q] /\ log'[q] = {o \in log[q] : o >= start}
        BY <3>2, <1>2, <1>3
      <4>2. lo[q] \in Int /\ hi[q] \in Int
        BY <1>2
      <4>3. QED BY <3>1, <4>1, <4>2, <1>2
    <3>3. CASE q # p
      BY <3>1, <3>3, <1>2, <1>3
    <3>4. QED BY <3>2, <3>3
  <2>3. QED BY <2>1, <2>2 DEF TopicInv
<1>5. \A q \in Parts : /\ lo[q] <= lo'[q] /\ hi[q] <= hi'[q]
                       /\ \A o \in log'[q] : o \in log[q] \/ o >= hi[q]
  BY <1>2, <1>3
<1>6. QED
  BY <1>1, <1>4, <1>5, TopicMovesOn DEF historyVars

LEMMA CompactPreserves ==
  ASSUME ReaderInv, NEW p \in Parts, NEW o \in Offsets, Compact(p, o)
  PROVE ReaderInv'
<1> USE DEF Compact, Change
<1>1. ReaderTypeOK'
  <2>2. /\ hi' \in [Parts -> Offsets] /\ lo' \in [Parts -> Offsets] /\ inc' = inc
        /\ log' \in [Parts -> SUBSET Offsets]
    BY DEF ReaderInv, ReaderTypeOK
  <2>3. QED BY <2>2, AChangeKeepsTypes DEF ReaderInv
<1>2. /\ \A q \in Parts : lo[q] \in Int /\ hi[q] \in Int /\ log'[q] \subseteq log[q]
      /\ hi' = hi /\ lo' = lo /\ inc' = inc /\ changes \in Int
  BY DEF ReaderInv, ReaderTypeOK, Offsets
<1>3. TopicInv'
  BY <1>2 DEF ReaderInv, TopicInv
<1>4. QED
  BY <1>1, <1>2, <1>3, TopicMovesOn DEF historyVars

LEMMA OtherTabRenewsPreserves ==
  ASSUME ReaderInv, OtherTabRenews
  PROVE ReaderInv'
<1> USE DEF OtherTabRenews
<1>1. ReaderTypeOK'
  BY DEF ReaderInv, ReaderTypeOK, topicVars, tabVars, listVars, roundVars, callVars, historyVars
<1>2. TopicInv' /\ inc' = inc /\ lo' = lo /\ hi' = hi /\ log' = log
  BY DEF ReaderInv, TopicInv, topicVars
<1>3. \A q \in Parts : lo[q] <= lo[q] /\ hi[q] <= hi[q]
  BY DEF ReaderInv, ReaderTypeOK, Offsets
<1>4. QED
  BY <1>1, <1>2, <1>3, TopicMovesOn DEF historyVars

(* A topic that takes the name of another is met by nobody yet. *)
LEMMA RecreatePreserves ==
  ASSUME ReaderInv, Recreate
  PROVE ReaderInv'
<1> USE DEF Recreate, Change
<1>0. inc \in 1..(changes + 1) /\ seen \subseteq 1..inc /\ changes \in 0..MaxChanges /\ MaxChanges \in Nat
  BY ReaderAssumption DEF ReaderInv, ReaderTypeOK, TopicInv, SeenInv
<1>1. ReaderTypeOK'
  BY <1>0, ReaderAssumption DEF ReaderInv, ReaderTypeOK, Offsets, tabVars, listVars, roundVars, callVars, historyVars, Incs, Everywhere
<1>2. TopicInv'
  BY <1>0 DEF TopicInv, Everywhere
<1>3. SeenInv'
  BY <1>0 DEF ReaderInv, SeenInv, tabVars, listVars, historyVars
<1>4. RequestInv'
  BY DEF ReaderInv, RequestInv, NoCall, Asking, tabVars, listVars, roundVars, callVars, historyVars
<1>5. Asking' => WindowInv'
  BY DEF ReaderInv, WindowInv, Asking, tabVars, listVars, roundVars, callVars, historyVars, Oldest, Windowed, Lower, Upper, SeekCeiling, Asked, Within
<1>6. SameTopic' => seen = {}
  BY <1>0 DEF SameTopic, historyVars
<1>7. seen = {} => /\ starts = Unset /\ ends = Unset /\ ~ Asking /\ more
                   /\ \A p \in Parts : edge[p] = Unset /\ cursor[p] = Unset
  BY DEF ReaderInv, SeenInv, RequestInv
<1>8. SameTopic' => ListedInv' /\ BrowseInv' /\ ~ Asking'
  BY <1>6, <1>7 DEF ListedInv, BrowseInv, Asking, tabVars, listVars
<1>9. NeverSkips' /\ ExhaustedMeansAll'
  BY <1>6, <1>7 DEF NeverSkips, ExhaustedMeansAll, Passed, tabVars
<1>10. QED
  BY <1>1, <1>2, <1>3, <1>4, <1>5, <1>8, <1>9 DEF ReaderInv

-----------------------------------------------------------------------------
(* A step that leaves the request at idle or listing has nothing to keep but
   the browse. *)
LEMMA GivenUpPreserves ==
  ASSUME ReaderInv, pc = "consume", UNCHANGED <<topicVars, tabVars, starts, ends, seen, unlisted>>, ReaderTypeOK', EndCall,
         pc' = "idle" \/ (pc' = "listing" /\ resume' = Everywhere(Unset) /\ retried')
  PROVE ReaderInv'
<1> USE DEF ReaderInv, EndCall, topicVars, tabVars
<1>0. /\ TopicInv' /\ NeverSkips' /\ ExhaustedMeansAll'
      /\ SameTopic' => SameTopic
  BY TheTabIsLeftAlone DEF RequestInv
<1>2. SeenInv'
  BY DEF SeenInv
<1>3. RequestInv' /\ ~ Asking'
  BY DEF RequestInv, NoCall, Asking
<1>4. SameTopic' => ListedInv' /\ BrowseInv'
  BY <1>0 DEF ListedInv, BrowseInv, Oldest
<1>5. QED
  BY <1>0, <1>2, <1>3, <1>4

(* A step of the rounds keeps the listings, and the browse. *)
LEMMA ReadingPreserves ==
  ASSUME ReaderInv, Asking, UNCHANGED <<topicVars, tabVars, listVars>>, ReaderTypeOK', Asking',
         seen \subseteq seen', seen' \subseteq seen \cup {inc}, unlisted' = unlisted,
         pc' = "consume" => round' < MaxRounds, pc' # "consume" => NoCall', WindowInv', SameTopic => CoverInv'
  PROVE ReaderInv'
<1> USE DEF ReaderInv, topicVars, tabVars, listVars
<1>0. /\ TopicInv' /\ NeverSkips' /\ ExhaustedMeansAll'
      /\ SameTopic' => SameTopic
  BY TheTabIsLeftAlone DEF RequestInv, NoCall, Asking, historyVars
<1>2. SeenInv'
  BY DEF SeenInv, TopicInv, RequestInv, Asking
<1>3. RequestInv'
  BY DEF RequestInv, NoCall, Asking
<1>4. SameTopic' => ListedInv' /\ BrowseInv'
  BY <1>0 DEF ListedInv, BrowseInv, Oldest, historyVars
<1>5. QED
  BY <1>0, <1>2, <1>3, <1>4

(* Where a request begins, and what it reads, does not change under way. *)
LEMMA TheRequestStays ==
  ASSUME UNCHANGED <<query, starts, ends, resume>>
  PROVE /\ Oldest' = Oldest /\ Windowed' = Windowed
        /\ \A p \in Parts : Beginning(p)' = Beginning(p)
        /\ \A p : Upper(p, resume[p])' = Upper(p, resume[p]) /\ Lower(p, resume[p])' = Lower(p, resume[p])
BY DEF Windowed, Beginning, Lower, Upper, SeekCeiling, Oldest

LEMMA StopRoundsPreserves ==
  ASSUME ReaderInv, StopRounds
  PROVE ReaderInv'
<1> USE DEF StopRounds
<1>1. ReaderTypeOK'
  <2>1. failures' \in 0..MaxFailures
    BY ReaderAssumption DEF ReaderInv, ReaderTypeOK
  <2>2. QED BY <2>1 DEF ReaderInv, ReaderTypeOK, topicVars, tabVars, listVars, roundVars, callVars, historyVars
<1>2. Asking /\ Asking'
  BY DEF Asking
<1>3. UNCHANGED <<query, starts, ends, resume>>
  BY DEF tabVars, listVars
<1>4. WindowInv'
  BY <1>2, <1>3, TheRequestStays DEF ReaderInv, WindowInv, roundVars, callVars, historyVars, Asked, Within
<1>5. SameTopic => CoverInv'
  BY <1>2, <1>3, TheRequestStays
     DEF ReaderInv, CoverInv, Covered, Past, Behind, FarSide, Oldest, topicVars, roundVars, callVars, historyVars, Within, Windowed, Query, ReaderTypeOK, Rows
<1>6. QED
  BY <1>1, <1>2, <1>4, <1>5, ReadingPreserves DEF ReaderInv, RequestInv, NoCall, callVars, historyVars

LEMMA BeginAttemptPreserves ==
  ASSUME ReaderInv, BeginAttempt
  PROVE ReaderInv'
<1> USE DEF BeginAttempt
<1>0. /\ starts \in [Parts -> Offsets] /\ ends \in [Parts -> Offsets] /\ query \in Query /\ resume \in Marks
  BY DEF ReaderInv, ReaderTypeOK
<1>1. \A p \in Parts : /\ Beginning(p) \in Offsets
                       /\ p \in Windowed => p \in Parts /\ (Oldest => Beginning(p) <= ends[p])
  <2>1. SUFFICES ASSUME NEW p \in Parts
                 PROVE  Beginning(p) \in Offsets /\ (p \in Windowed /\ Oldest => Beginning(p) <= ends[p])
    OBVIOUS
  <2>2. Beginning(p) \in Int /\ ends[p] \in Int
    BY <1>0, WhereItBegins DEF Offsets
  <2>3. QED BY <1>0, <2>2, WhereItBegins
<1>a. Windowed \subseteq Parts /\ UNCHANGED <<query, starts, ends, resume>>
  BY <1>0 DEF Windowed, Query, tabVars, listVars
<1>2. ReaderTypeOK'
  <2>1. 0 \in Offsets /\ 0 \in 0..MaxRounds
    BY ReaderAssumption DEF Offsets
  <2>2. floor' \in [Parts -> Offsets]
    BY <1>1, <2>1
  <2>3. far' \in ReadWindows
    BY <2>1 DEF ReadWindows, Everywhere, NoWindow
  <2>4. widen' \in Nat \ {0}
    BY <1>0, SomeQuota
  <2>5. QED BY <2>1, <2>2, <2>3, <2>4 DEF ReaderInv, ReaderTypeOK, topicVars, tabVars, listVars, callVars, historyVars
<1>3. TopicInv' /\ NeverSkips' /\ ExhaustedMeansAll' /\ (SameTopic' => SameTopic)
  BY TheTabIsLeftAlone DEF ReaderInv, RequestInv, historyVars
<1>4. SeenInv' /\ RequestInv'
  BY DEF ReaderInv, SeenInv, RequestInv, NoCall, Asking, topicVars, tabVars, listVars, callVars, historyVars
<1>5. SameTopic' => ListedInv' /\ BrowseInv'
  BY <1>3 DEF ReaderInv, ListedInv, BrowseInv, Oldest, topicVars, tabVars, listVars, historyVars
<1>b. /\ rows' = {} /\ pc' = "round" /\ windows' = Everywhere(NoWindow) /\ landed' = {} /\ found' = {}
      /\ far' = Everywhere(NoWindow)
      /\ \A p \in Parts : floor'[p] = IF p \in Windowed THEN Beginning(p) ELSE 0
      /\ Windowed' = Windowed /\ ends' = ends /\ Oldest' = Oldest
      /\ \A p \in Parts : Beginning(p)' = Beginning(p)
  BY <1>a, TheRequestStays DEF ReaderInv, RequestInv, NoCall, callVars, historyVars
<1>c. Asked' = {}
  BY <1>b DEF Asked, Everywhere
<1>6. WindowInv'
  BY <1>1, <1>a, <1>b, <1>c DEF WindowInv, Everywhere
<1>7. CoverInv'
  <2>1. ASSUME NEW p \in Windowed PROVE Covered(p, floor[p])'
    <3>1. p \in Parts /\ floor'[p] = Beginning(p) /\ Beginning(p)' = Beginning(p)
      BY <1>a, <1>b
    <3>2. ~ (\E o : ~ Past(o, Beginning(p))' /\ Past(o, floor[p])')
      BY <3>1 DEF Past
    <3>3. QED BY <3>2 DEF Covered, Past
  <2>2. QED BY <1>b, <2>1 DEF CoverInv, Everywhere
<1>8. QED
  BY <1>2, <1>3, <1>4, <1>5, <1>6, <1>7 DEF ReaderInv

-----------------------------------------------------------------------------
(* A round. *)
LEMMA StartRoundPreserves ==
  ASSUME ReaderInv, StartRound
  PROVE ReaderInv'
<1> USE DEF StartRound
<1>0. /\ starts \in [Parts -> Offsets] /\ ends \in [Parts -> Offsets] /\ query \in Query /\ resume \in Marks
      /\ floor \in [Parts -> Offsets] /\ widen \in Nat \ {0}
  BY DEF ReaderInv, ReaderTypeOK, RequestInv, Asking
<1>a. Windowed \subseteq Parts /\ Readable \subseteq Windowed /\ UNCHANGED <<query, starts, ends, resume>>
  BY <1>0 DEF Windowed, Query, Readable, tabVars, listVars
<1>1. ASSUME NEW p \in Readable
      PROVE  /\ NextWindow(p) \in [from : Offsets, upper : Offsets]
             /\ NextWindow(p).from < NextWindow(p).upper
             /\ IF Oldest THEN NextWindow(p).from = floor[p] /\ NextWindow(p).upper <= ends[p]
                ELSE NextWindow(p).upper = floor[p]
  <2>1. /\ p \in Parts /\ floor[p] \in Offsets /\ starts[p] \in Offsets /\ ends[p] \in Offsets
        /\ floor[p] \in Int /\ starts[p] \in Int /\ ends[p] \in Int
        /\ widen \in Int /\ widen > 0
    BY <1>0, <1>a DEF Offsets
  <2>2. CASE Oldest
    <3>1. floor[p] < ends[p]
      BY <2>2 DEF Readable
    <3>2. Min({floor[p] + widen, ends[p]}) = IF floor[p] + widen <= ends[p] THEN floor[p] + widen ELSE ends[p]
      BY <2>1, MinOfTwo
    <3>3. Min({floor[p] + widen, ends[p]}) \in Offsets /\ floor[p] < Min({floor[p] + widen, ends[p]})
          /\ Min({floor[p] + widen, ends[p]}) <= ends[p]
      BY <2>1, <3>1, <3>2, ReaderAssumption DEF Offsets
    <3>4. NextWindow(p) = [from |-> floor[p], upper |-> Min({floor[p] + widen, ends[p]})]
      BY <2>2 DEF NextWindow
    <3>5. QED BY <2>1, <2>2, <3>3, <3>4
  <2>3. CASE ~ Oldest
    <3>1. floor[p] > starts[p]
      BY <2>3 DEF Readable
    <3>2. Max({floor[p] - widen, starts[p]}) = IF floor[p] - widen >= starts[p] THEN floor[p] - widen ELSE starts[p]
      BY <2>1, MaxOfTwo
    <3>3. Max({floor[p] - widen, starts[p]}) \in Offsets /\ Max({floor[p] - widen, starts[p]}) < floor[p]
      BY <2>1, <3>1, <3>2, ReaderAssumption DEF Offsets
    <3>4. NextWindow(p) = [from |-> Max({floor[p] - widen, starts[p]}), upper |-> floor[p]]
      BY <2>3 DEF NextWindow
    <3>5. QED BY <2>1, <2>3, <3>3, <3>4
  <2>4. QED BY <2>2, <2>3
<1>2. \A p \in Parts : windows'[p] = IF p \in Readable THEN NextWindow(p) ELSE NoWindow
  OBVIOUS
<1>3. ReaderTypeOK'
  <2>1. NoWindow \in [from : Offsets, upper : Offsets]
    BY ReaderAssumption DEF NoWindow, Offsets
  <2>2. windows' \in ReadWindows
    BY <1>1, <2>1 DEF ReadWindows
  <2>3. QED BY <2>2 DEF ReaderInv, ReaderTypeOK, topicVars, tabVars, listVars, roundVars, historyVars
<1>4. Asking /\ Asking'
  BY DEF Asking
<1>5. Asked' \subseteq Readable
  BY <1>2 DEF Asked
<1>6. WindowInv'
  <2>1. Windowed' = Windowed /\ Oldest' = Oldest /\ ends' = ends /\ floor' = floor
    BY <1>a, TheRequestStays DEF roundVars
  <2>2. ASSUME NEW p \in Asked'
        PROVE  /\ windows'[p].from < windows'[p].upper
               /\ IF Oldest THEN windows'[p].from = floor[p] /\ windows'[p].upper <= ends[p]
                  ELSE windows'[p].upper = floor[p]
    BY <1>1, <1>2, <1>5, <1>a
  <2>3. /\ rows' = rows /\ far' = far /\ held' = held /\ seen' = seen /\ landed' = {} /\ found' = {}
        /\ pc' # "answer" /\ pc # "answer" /\ Asked' \subseteq Windowed
    BY <1>5, <1>a DEF roundVars, historyVars
  <2>4. QED BY <1>4, <2>1, <2>2, <2>3 DEF ReaderInv, WindowInv
<1>7. SameTopic => CoverInv'
  <2>1. /\ inc' = inc /\ log' = log /\ rows' = rows /\ far' = far /\ floor' = floor /\ query' = query
        /\ landed' = {} /\ Windowed' = Windowed /\ \A p \in Parts : Beginning(p)' = Beginning(p)
    BY <1>a, TheRequestStays DEF roundVars, topicVars
  <2>2. \A p \in Parts : \A mark : Covered(p, mark) => Covered(p, mark)'
    BY <2>1 DEF Covered, Past, Oldest
  <2>3. \A r \in rows : r[2] \in Parts
    BY DEF ReaderInv, ReaderTypeOK, Rows
  <2>4. QED
    BY <1>4, <1>a, <2>1, <2>2, <2>3 DEF ReaderInv, CoverInv, Behind, FarSide, Oldest
<1>8. QED
  BY <1>3, <1>4, <1>6, <1>7, ReadingPreserves DEF roundVars, historyVars

LEMMA PartitionLandsPreserves ==
  ASSUME ReaderInv, NEW p \in Parts, PartitionLands(p)
  PROVE ReaderInv'
<1> USE DEF PartitionLands, MayLand
<1> DEFINE new == {<<inc, p, o>> : o \in log[p] \cap Within(windows[p])}
<1>0. /\ pc = "consume" /\ Asking /\ Asking' /\ p \in Asked /\ hi[p] >= windows[p].upper
      /\ found' = found \cup new /\ landed' = landed \cup {p} /\ seen' = seen \cup {inc}
      /\ \A r \in new : r[1] = inc /\ r[2] = p /\ r[3] \in log[p] \cap Within(windows[p])
      /\ \A o \in log[p] \cap Within(windows[p]) : <<inc, p, o>> \in new
  BY DEF Asking
<1> HIDE DEF new
<1>1. ReaderTypeOK'
  <2>1. new \subseteq Rows /\ inc \in Incs
    BY DEF ReaderInv, ReaderTypeOK, Rows, new
  <2>2. QED BY <1>0, <2>1 DEF ReaderInv, ReaderTypeOK, topicVars, tabVars, listVars, roundVars
<1>2. UNCHANGED <<query, starts, ends, resume>>
  BY DEF tabVars, listVars
<1>3. /\ Windowed' = Windowed /\ Oldest' = Oldest /\ Asked' = Asked /\ pc' = pc
      /\ \A q \in Parts : Beginning(q)' = Beginning(q) /\ Within(windows[q])' = Within(windows[q])
  BY <1>2, TheRequestStays DEF Asked, Within
<1>4. WindowInv'
  <2>1. \A r \in found' : r[1] \in seen' /\ r[2] \in landed' /\ r[3] \in Within(windows[r[2]])
    BY <1>0 DEF ReaderInv, WindowInv
  <2>2. landed' \subseteq Asked /\ \A r \in rows : r[1] \in seen'
    BY <1>0 DEF ReaderInv, WindowInv
  <2>3. QED
    BY <1>0, <1>3, <2>1, <2>2 DEF ReaderInv, WindowInv, roundVars, listVars, Within
<1>5. SameTopic => CoverInv'
  <2>1. \A q \in Parts : \A mark : Covered(q, mark) => Covered(q, mark)'
    BY <1>3 DEF Covered, Past, topicVars, roundVars
  <2>2. \A r \in rows : r[2] \in Parts
    BY DEF ReaderInv, ReaderTypeOK, Rows
  <2>3. Windowed \subseteq Parts
    BY DEF ReaderInv, ReaderTypeOK, Query, Windowed
  <2>4. ASSUME SameTopic, NEW q \in landed'
        PROVE  windows[q].upper <= hi[q] /\ \A o \in log[q] \cap Within(windows[q]) : <<inc, q, o>> \in found'
    <3>1. CASE q = p
      <4>1. windows[p].upper \in Int /\ hi[p] \in Int
        BY DEF ReaderInv, ReaderTypeOK, ReadWindows, Offsets
      <4>2. QED BY <1>0, <3>1, <4>1
    <3>2. CASE q \in landed
      BY <1>0, <2>4, <3>2 DEF ReaderInv, CoverInv
    <3>3. QED BY <1>0, <3>1, <3>2
  <2>5. QED
    BY <1>0, <1>3, <2>1, <2>2, <2>3, <2>4 DEF ReaderInv, CoverInv, Behind, FarSide, topicVars, roundVars, Within
<1>6. QED
  BY <1>0, <1>1, <1>4, <1>5, ReadingPreserves DEF ReaderInv, RequestInv, topicVars, roundVars

(* What a round read is counted. *)
LEMMA ScannedIsACount ==
  ASSUME ReaderTypeOK
  PROVE Scanned \in Nat
<1> DEFINE S == UNION {{<<p, o>> : o \in Within(windows[p])} : p \in Asked}
<1>1. S \subseteq Parts \X Offsets
  <2>1. ASSUME NEW p \in Asked, NEW o \in Within(windows[p]) PROVE p \in Parts /\ o \in Offsets
    BY ReaderAssumption DEF ReaderTypeOK, Asked, ReadWindows, Within, Offsets
  <2>2. QED BY <2>1
<1>2. IsFiniteSet(Parts \X Offsets)
  <2>1. IsFiniteSet(Parts) /\ IsFiniteSet(Offsets)
    BY ReaderAssumption, FS_Interval DEF Offsets
  <2>2. QED BY <2>1, FS_Product
<1>3. IsFiniteSet(S)
  BY <1>1, <1>2, FS_Subset
<1>4. Cardinality(S) \in Nat
  BY <1>3, FS_CardinalityType
<1>5. QED
  BY <1>4 DEF Scanned, ReaderTypeOK

(* A page that is full ends a browse's request. *)
LEMMA RowsAreFinite ==
  ASSUME NEW R, R \subseteq Rows, NEW S, S \subseteq R
  PROVE /\ Cardinality(R) \in Nat /\ Cardinality(S) \in Nat
        /\ Cardinality(S) <= Cardinality(R)
<1>1. IsFiniteSet(Incs) /\ IsFiniteSet(Parts) /\ IsFiniteSet(Offsets)
  BY ReaderAssumption, FS_Interval DEF Offsets, Incs
<1>2. IsFiniteSet(Rows)
  <2> DEFINE T == Incs \X (Parts \X Offsets)
             g == [t \in T |-> <<t[1], t[2][1], t[2][2]>>]
  <2>1. IsFiniteSet(T)
    BY <1>1, FS_Product
  <2>2. g \in Surjection(T, Rows)
    <3>1. \A t \in T : g[t] \in Rows
      BY DEF Rows
    <3>2. ASSUME NEW r \in Rows PROVE \E t \in T : g[t] = r
      <4>1. <<r[1], <<r[2], r[3]>>>> \in T /\ r = <<r[1], r[2], r[3]>>
        BY DEF Rows
      <4>2. g[<<r[1], <<r[2], r[3]>>>>] = r
        BY <4>1
      <4>3. QED BY <4>1, <4>2
    <3>3. QED BY <3>1, <3>2 DEF Surjection
  <2>3. QED BY <2>1, <2>2, FS_Surjection
<1>3. IsFiniteSet(R) /\ IsFiniteSet(S)
  <2>1. IsFiniteSet(R)
    BY <1>2, FS_Subset
  <2>2. QED BY <2>1, FS_Subset
<1>4. QED
  BY <1>3, FS_Subset, FS_CardinalityType

LEMMA EndRoundKeepsTypes ==
  ASSUME ReaderInv, pc = "consume", NEW cut \in BOOLEAN, EndRound(cut), failures' \in 0..MaxFailures
  PROVE ReaderTypeOK'
<1> USE DEF ReaderInv, ReaderTypeOK
<1>1. rows' \subseteq Rows /\ completed' \subseteq Parts /\ held' \subseteq Parts /\ partial' \in BOOLEAN
  <2>1. \A r \in found : r[2] \in Parts
    BY DEF Rows
  <2>2. QED BY <2>1 DEF EndRound, Completed, Held
<1>2. far' \in ReadWindows
  BY DEF EndRound, ReadWindows
<1>3. floor' \in [Parts -> Offsets]
  <2>1. \A p \in Parts : FarSide(windows[p]) \in Offsets
    BY DEF FarSide, ReadWindows
  <2>2. QED BY <2>1 DEF EndRound
<1>4. scanned' \in Nat
  BY ScannedIsACount DEF EndRound
<1>5. widen' \in Nat \ {0} /\ round' \in 0..MaxRounds /\ pc' \in {"round", "answer"}
  <2>1. round < MaxRounds /\ MaxRounds \in Nat
    BY ReaderAssumption DEF RequestInv
  <2>2. QED BY <2>1 DEF EndRound
<1>6. windows' \in ReadWindows /\ landed' = {} /\ found' = {}
  BY ReaderAssumption DEF EndRound, EndCall, Everywhere, NoWindow, ReadWindows, Offsets
<1>7. /\ UNCHANGED <<inc, log, lo, hi, changes, known, query, cursor, more, shown, edge>>
      /\ UNCHANGED <<starts, ends, resume, retried, seen, unlisted>>
  BY DEF EndRound, topicVars, tabVars, listVars, historyVars
<1>8. QED
  BY <1>1, <1>2, <1>3, <1>4, <1>5, <1>6, <1>7

(* A window that was read to its end, next to what was covered, leaves no gap up
   to a mark in it. *)
LEMMA AWindowIsCovered ==
  ASSUME ReaderTypeOK, NEW p \in Parts, Covered(p, floor[p]), windows[p] \in [from : Offsets, upper : Offsets],
         IF Oldest THEN windows[p].from = floor[p] ELSE windows[p].upper = floor[p],
         \A o \in log[p] \cap Within(windows[p]) : <<inc, p, o>> \in found,
         NEW mark \in Int,
         IF Oldest THEN mark <= windows[p].upper ELSE windows[p].from <= mark,
         NEW o \in log[p], ~ Past(o, Beginning(p)), Past(o, mark)
  PROVE <<inc, p, o>> \in rows \cup found
<1>1. o \in Int /\ windows[p].from \in Int /\ windows[p].upper \in Int
  BY DEF ReaderTypeOK, Offsets
<1>2. CASE Past(o, floor[p])
  BY <1>2 DEF Covered
<1>3. CASE ~ Past(o, floor[p])
  <2>1. o \in Within(windows[p])
    BY <1>1, <1>3 DEF Past, Within
  <2>2. QED BY <2>1
<1>4. QED
  BY <1>2, <1>3

LEMMA EndRoundPreserves ==
  ASSUME ReaderInv, pc = "consume", NEW cut \in BOOLEAN, EndRound(cut), failures' \in 0..MaxFailures,
         pc' = "round" => landed = Asked
  PROVE ReaderInv'
<1>0. /\ ReaderTypeOK' /\ pc' \in {"round", "answer"} /\ Asking /\ Asking'
      /\ rows' = rows \cup found /\ held' = held \cup {r[2] : r \in found}
      /\ \A p \in Parts : far'[p] = IF p \in landed THEN windows[p] ELSE far[p]
      /\ \A p \in Parts : floor'[p] = IF p \in Asked THEN FarSide(windows[p]) ELSE floor[p]
      /\ windows' = Everywhere(NoWindow) /\ landed' = {} /\ found' = {}
      /\ UNCHANGED <<topicVars, tabVars, listVars, seen, unlisted>>
  BY EndRoundKeepsTypes DEF EndRound, EndCall, Asking, Held, historyVars
<1>1. UNCHANGED <<query, starts, ends, resume>>
  BY <1>0 DEF tabVars, listVars
<1>2. /\ Windowed' = Windowed /\ Oldest' = Oldest /\ Asked' = {}
      /\ \A p \in Parts : Beginning(p)' = Beginning(p)
  BY <1>0, <1>1, TheRequestStays DEF Asked, Everywhere
<1>3. /\ landed \subseteq Asked /\ Asked \subseteq Windowed /\ Windowed \subseteq Parts
      /\ \A p \in Asked : /\ windows[p].from < windows[p].upper
                          /\ IF Oldest THEN windows[p].from = floor[p] /\ windows[p].upper <= ends[p]
                             ELSE windows[p].upper = floor[p]
      /\ \A r \in found : r[1] \in seen /\ r[2] \in landed /\ r[3] \in Within(windows[r[2]])
      /\ \A p \in Parts : windows[p] \in [from : Offsets, upper : Offsets]
      /\ ends \in [Parts -> Offsets]
  BY <1>0 DEF ReaderInv, WindowInv, Windowed, ReaderTypeOK, Query, ReadWindows, RequestInv
<1>4. WindowInv'
  <2>1. ASSUME Oldest, NEW r \in rows' PROVE r[3] < ends[r[2]]
    <3>1. CASE r \in rows
      BY <1>0, <2>1, <3>1 DEF ReaderInv, WindowInv
    <3>2. CASE r \in found
      <4>1. r[2] \in Asked /\ r[2] \in Parts /\ r[3] \in Within(windows[r[2]])
        BY <1>3, <3>2
      <4>2. windows[r[2]].upper <= ends[r[2]] /\ windows[r[2]].upper \in Int /\ ends[r[2]] \in Int
            /\ windows[r[2]].from \in Int
        BY <1>3, <2>1, <4>1 DEF Offsets
      <4>3. r[3] \in Int /\ r[3] < windows[r[2]].upper
        BY <4>1, <4>2 DEF Within
      <4>4. QED BY <4>2, <4>3
    <3>3. QED BY <1>0, <2>1, <3>1, <3>2
  <2>2. ASSUME Oldest, NEW p \in Parts, far'[p] # NoWindow PROVE far'[p].upper <= ends[p]
    BY <1>0, <1>3, <2>2 DEF ReaderInv, WindowInv
  <2>3. ASSUME Oldest, pc' # "answer", NEW p \in Windowed PROVE floor'[p] <= ends[p]
    BY <1>0, <1>3, <2>3 DEF ReaderInv, WindowInv, FarSide
  <2>4. \A r \in rows' : r[2] \in held' /\ r[1] \in seen
    BY <1>0, <1>3 DEF ReaderInv, WindowInv
  <2>5. QED BY <1>0, <1>1, <1>2, <2>1, <2>2, <2>3, <2>4 DEF WindowInv
<1>5. SameTopic => CoverInv'
  <2> SUFFICES ASSUME SameTopic PROVE CoverInv'
    OBVIOUS
  <2>0. /\ inc' = inc /\ log' = log /\ query' = query
        /\ ReaderTypeOK /\ CoverInv
    BY <1>0 DEF ReaderInv, topicVars, tabVars
  <2>1. \A p \in Parts : \A mark : Covered(p, mark) => Covered(p, mark)'
    BY <1>0, <1>2, <2>0 DEF Covered, Past
  <2>2. ASSUME NEW p \in landed, NEW mark \in Int,
               IF Oldest THEN mark <= windows[p].upper ELSE windows[p].from <= mark
        PROVE  Covered(p, mark)'
    <3>1. p \in Parts /\ p \in Asked /\ p \in Windowed
      BY <1>3
    <3>2. Covered(p, floor[p]) /\ \A o \in log[p] \cap Within(windows[p]) : <<inc, p, o>> \in found
      BY <2>0, <3>1 DEF CoverInv
    <3>3. ASSUME NEW o \in log[p], ~ Past(o, Beginning(p)), Past(o, mark)
          PROVE  <<inc, p, o>> \in rows \cup found
      BY <1>3, <2>0, <2>2, <3>1, <3>2, <3>3, AWindowIsCovered
    <3>4. QED BY <1>0, <1>2, <2>0, <3>1, <3>3 DEF Covered, Past
  <2>3. ASSUME NEW r \in rows' PROVE Covered(r[2], Behind(r))'
    <3>0. r[2] \in Parts /\ r[3] \in Int /\ Behind(r)' = Behind(r)
      BY <1>0, <1>2 DEF ReaderTypeOK, Rows, Offsets, Behind
    <3>1. CASE r \in rows
      <4>1. Covered(r[2], Behind(r))
        BY <2>0, <3>1 DEF CoverInv
      <4>2. QED BY <2>1, <3>0, <4>1 DEF Covered
    <3>2. CASE r \in found
      <4>1. r[2] \in landed /\ r[3] \in Within(windows[r[2]]) /\ windows[r[2]].from \in Int /\ windows[r[2]].upper \in Int
        BY <1>3, <3>0, <3>2 DEF Offsets
      <4>2. Behind(r) \in Int /\ IF Oldest THEN Behind(r) <= windows[r[2]].upper ELSE windows[r[2]].from <= Behind(r)
        BY <3>0, <4>1 DEF Behind, Within
      <4>3. Covered(r[2], Behind(r))'
        BY <2>2, <3>0, <4>1, <4>2 DEF Covered
      <4>4. QED BY <4>3
    <3>3. QED BY <1>0, <2>3, <3>1, <3>2
  <2>4. ASSUME NEW p \in landed, NEW mark, mark = FarSide(windows[p]) PROVE Covered(p, mark)'
    <3>1. mark \in Int /\ p \in Asked /\ windows[p].from \in Int /\ windows[p].upper \in Int
      BY <1>3, <2>4 DEF FarSide, Offsets
    <3>2. IF Oldest THEN mark <= windows[p].upper ELSE windows[p].from <= mark
      BY <2>4, <3>1 DEF FarSide
    <3>3. QED BY <2>2, <3>1, <3>2
  <2>5. ASSUME NEW p \in Parts, far'[p] # NoWindow PROVE Covered(p, FarSide(far[p]))'
    <3>1. CASE p \in landed
      <4>1. FarSide(far[p])' = FarSide(windows[p])
        BY <1>0, <1>2, <3>1 DEF FarSide
      <4>2. QED BY <2>4, <3>1, <4>1 DEF Covered
    <3>2. CASE p \notin landed
      <4>1. far'[p] = far[p] /\ FarSide(far[p])' = FarSide(far[p])
        BY <1>0, <1>2, <3>2 DEF FarSide
      <4>2. Covered(p, FarSide(far[p]))
        BY <2>0, <2>5, <4>1 DEF CoverInv
      <4>3. QED BY <2>1, <4>1, <4>2 DEF Covered
    <3>3. QED BY <3>1, <3>2
  <2>6. ASSUME pc' # "answer", NEW p \in Windowed PROVE Covered(p, floor[p])'
    <3>1. p \in Parts /\ landed = Asked
      BY <1>0, <1>3, <2>6
    <3>2. CASE p \in Asked
      <4>1. floor'[p] = FarSide(windows[p])
        BY <1>0, <3>1, <3>2
      <4>2. QED BY <2>4, <3>1, <3>2, <4>1 DEF Covered
    <3>3. CASE p \notin Asked
      <4>1. floor'[p] = floor[p] /\ Covered(p, floor[p])
        BY <1>0, <2>0, <3>1, <3>3 DEF CoverInv
      <4>2. QED BY <2>1, <3>1, <4>1 DEF Covered
    <3>4. QED BY <3>2, <3>3
  <2>7. QED
    BY <1>0, <1>2, <2>3, <2>5, <2>6 DEF CoverInv
<1>6. QED
  BY <1>0, <1>4, <1>5, ReadingPreserves DEF NoCall

(* A round that is dropped leaves what the rounds before it read. *)
LEMMA DroppedRoundPreserves ==
  ASSUME ReaderInv, pc = "consume", pc' = "answer", EndCall, failures' \in 0..MaxFailures,
         completed' \subseteq completed, partial' \in BOOLEAN,
         UNCHANGED <<topicVars, known, tabVars, listVars, floor, widen, round, scanned, rows, far, held, seen, unlisted>>
  PROVE ReaderInv'
<1>0. /\ Asking /\ Asking' /\ UNCHANGED <<query, starts, ends, resume>>
      /\ windows' = Everywhere(NoWindow) /\ landed' = {} /\ found' = {}
      /\ inc' = inc /\ log' = log
  BY DEF Asking, EndCall, tabVars, listVars, topicVars
<1>1. ReaderTypeOK'
  <2>1. windows' \in ReadWindows
    BY <1>0, ReaderAssumption DEF Everywhere, NoWindow, ReadWindows, Offsets
  <2>2. QED BY <1>0, <2>1 DEF ReaderInv, ReaderTypeOK, topicVars, tabVars, listVars
<1>2. /\ Windowed' = Windowed /\ Oldest' = Oldest /\ Asked' = {}
      /\ \A p \in Parts : Beginning(p)' = Beginning(p)
  BY <1>0, TheRequestStays DEF Asked, Everywhere
<1>3. WindowInv'
  BY <1>0, <1>2 DEF ReaderInv, WindowInv
<1>4. SameTopic => CoverInv'
  <2>1. \A p \in Parts : \A mark : Covered(p, mark) => Covered(p, mark)'
    BY <1>0, <1>2 DEF Covered, Past
  <2>2. \A r \in rows : r[2] \in Parts
    BY DEF ReaderInv, ReaderTypeOK, Rows
  <2>3. QED BY <1>0, <1>2, <2>1, <2>2 DEF ReaderInv, CoverInv, Behind, FarSide, Oldest
<1>5. QED
  BY <1>0, <1>1, <1>3, <1>4, ReadingPreserves DEF NoCall

LEMMA FailRequestPreserves ==
  ASSUME ReaderInv, pc = "consume", FailRequest, failures' \in 0..MaxFailures
  PROVE ReaderInv'
<1>1. ReaderTypeOK'
  <2>1. 0 \in Offsets /\ 0 \in 0..MaxRounds
    BY ReaderAssumption DEF Offsets
  <2>a. Everywhere(0) \in [Parts -> Offsets] /\ Everywhere(NoWindow) \in ReadWindows
    BY <2>1 DEF Everywhere, NoWindow, ReadWindows
  <2>2. /\ floor' \in [Parts -> Offsets] /\ far' \in ReadWindows /\ windows' \in ReadWindows
        /\ rows' = {} /\ completed' = {} /\ held' = {} /\ landed' = {} /\ found' = {}
        /\ partial' = FALSE /\ widen' = 1 /\ round' = 0 /\ scanned' = 0 /\ pc' = "idle"
    <3>1. floor' = Everywhere(0) /\ far' = Everywhere(NoWindow) /\ windows' = Everywhere(NoWindow)
      BY DEF FailRequest, NoRounds, EndCall
    <3>2. /\ rows' = {} /\ completed' = {} /\ held' = {} /\ landed' = {} /\ found' = {}
          /\ partial' = FALSE /\ widen' = 1 /\ round' = 0 /\ scanned' = 0 /\ pc' = "idle"
      BY DEF FailRequest, NoRounds, EndCall
    <3>3. QED BY <2>a, <3>1, <3>2
  <2>3. /\ UNCHANGED <<inc, log, lo, hi, changes, known, query, cursor, more, shown, edge>>
        /\ UNCHANGED <<starts, ends, resume, retried, seen, unlisted>>
    BY DEF FailRequest, topicVars, tabVars, listVars, historyVars
  <2>4. /\ rows' \subseteq Rows /\ found' \subseteq Rows /\ completed' \subseteq Parts /\ held' \subseteq Parts
        /\ landed' \subseteq Parts /\ widen' \in Nat \ {0} /\ round' \in 0..MaxRounds /\ scanned' \in Nat
        /\ pc' \in {"idle", "listing", "round", "consume", "answer"}
        /\ floor' \in [Parts -> Offsets] /\ far' \in ReadWindows /\ windows' \in ReadWindows
    BY <2>1, <2>2
  <2>5. partial' \in BOOLEAN
    BY <2>2
  <2>6. QED BY <2>3, <2>4, <2>5 DEF ReaderInv, ReaderTypeOK
<1>2. QED
  BY <1>1, GivenUpPreserves DEF FailRequest, listVars, historyVars

(* The ends of a round. *)
LEMMA AllLandedPreserves ==
  ASSUME ReaderInv, AllLanded
  PROVE ReaderInv'
<1>1. failures' \in 0..MaxFailures /\ pc = "consume" /\ EndRound(FALSE) /\ landed = Asked
  BY DEF AllLanded, ReaderInv, ReaderTypeOK
<1>2. QED
  BY <1>1, EndRoundPreserves

LEMMA PageSatisfiedPreserves ==
  ASSUME ReaderInv, PageSatisfied
  PROVE ReaderInv'
<1>1. failures' \in 0..MaxFailures /\ pc = "consume" /\ EndRound(FALSE) /\ Cardinality(found) >= Target
  BY DEF PageSatisfied, ReaderInv, ReaderTypeOK
<1>2. pc' # "round"
  <2>1. CASE query.scan
    BY <1>1, <2>1 DEF EndRound
  <2>2. CASE ~ query.scan
    <3>1. rows' = rows \cup found /\ rows' \subseteq Rows /\ Target = Limit /\ Limit \in Nat
      BY <1>1, <2>2, ReaderAssumption DEF EndRound, ReaderInv, ReaderTypeOK, Target
    <3>2. Cardinality(rows') >= Limit
      <4>1. Cardinality(found) <= Cardinality(rows') /\ Cardinality(found) \in Nat /\ Cardinality(rows') \in Nat
        BY <3>1, RowsAreFinite
      <4>2. QED BY <1>1, <3>1, <4>1
    <3>3. QED BY <1>1, <3>2 DEF EndRound
  <2>3. QED BY <2>1, <2>2
<1>3. QED
  BY <1>1, <1>2, EndRoundPreserves

LEMMA BudgetSpentPreserves ==
  ASSUME ReaderInv, BudgetSpent
  PROVE ReaderInv'
<1>1. failures' \in 0..MaxFailures /\ pc = "consume" /\ EndRound(TRUE)
  <2>1. Expire /\ EndRound(TRUE)
    BY DEF BudgetSpent
  <2>2. failures \in 0..MaxFailures /\ MaxFailures \in Nat
    BY ReaderAssumption DEF ReaderInv, ReaderTypeOK
  <2>3. failures' \in 0..MaxFailures /\ pc = "consume"
    BY <2>1, <2>2 DEF Expire
  <2>4. QED BY <2>1, <2>3
<1>2. pc' # "round"
  BY <1>1 DEF EndRound
<1>3. QED
  BY <1>1, <1>2, EndRoundPreserves

LEMMA KeepEarlierRoundsPreserves ==
  ASSUME ReaderInv, pc = "consume", KeepEarlierRounds, failures' \in 0..MaxFailures
  PROVE ReaderInv'
BY DroppedRoundPreserves DEF KeepEarlierRounds, historyVars

LEMMA NothingLandedPreserves ==
  ASSUME ReaderInv, NothingLanded
  PROVE ReaderInv'
<1>1. failures' \in 0..MaxFailures /\ pc = "consume"
  BY ReaderAssumption DEF NothingLanded, Expire, ReaderInv, ReaderTypeOK
<1>2. CASE KeepEarlierRounds
  BY <1>1, <1>2, KeepEarlierRoundsPreserves
<1>3. CASE /\ query.scan /\ pc' = "answer" /\ EndCall
           /\ UNCHANGED <<topicVars, known, tabVars, listVars, roundVars, seen, unlisted>>
  <2>1. completed' \subseteq completed /\ partial' \in BOOLEAN
    BY <1>3 DEF ReaderInv, ReaderTypeOK, roundVars
  <2>2. QED BY <1>1, <1>3, <2>1, DroppedRoundPreserves DEF roundVars
<1>4. CASE FailRequest
  BY <1>1, <1>4, FailRequestPreserves
<1>5. QED
  BY <1>2, <1>3, <1>4 DEF NothingLanded, historyVars

LEMMA FetchFailsPreserves ==
  ASSUME ReaderInv, FetchFails
  PROVE ReaderInv'
<1>1. failures' \in 0..MaxFailures /\ pc = "consume"
  BY ReaderAssumption DEF FetchFails, ReaderInv, ReaderTypeOK
<1>2. QED
  BY <1>1, KeepEarlierRoundsPreserves, FailRequestPreserves DEF FetchFails

LEMMA TopicIsGonePreserves ==
  ASSUME ReaderInv, TopicIsGone
  PROVE ReaderInv'
<1>1. failures' \in 0..MaxFailures /\ pc = "consume"
  BY DEF TopicIsGone, ReaderInv, ReaderTypeOK
<1>2. CASE KeepEarlierRounds
  BY <1>1, <1>2, KeepEarlierRoundsPreserves
<1>3. CASE /\ known' = Unset /\ retried' = TRUE /\ resume' = Everywhere(Unset)
           /\ pc' = "listing" /\ EndCall
           /\ UNCHANGED <<topicVars, tabVars, starts, ends, roundVars, seen, unlisted>>
  <2>1. resume' \in Marks /\ windows' \in ReadWindows
    BY <1>3, ReaderAssumption DEF Marks, Everywhere, EndCall, NoWindow, ReadWindows, Offsets
  <2>2. ReaderTypeOK'
    BY <1>1, <1>3, <2>1 DEF ReaderInv, ReaderTypeOK, EndCall, topicVars, tabVars, roundVars
  <2>3. QED BY <1>1, <1>3, <2>2, GivenUpPreserves
<1>4. CASE FailRequest
  BY <1>1, <1>4, FailRequestPreserves
<1>5. QED
  BY <1>2, <1>3, <1>4 DEF TopicIsGone, historyVars

-----------------------------------------------------------------------------
(* The page and its cursor. *)
LEMMA WhatAPageTakes ==
  ASSUME ReaderTypeOK, NEW page, page \subseteq rows, NEW p
  PROVE /\ OffsetsOf(page, p) \subseteq Offsets
        /\ \A x : x \in OffsetsOf(page, p) <=> \E r \in page : r[2] = p /\ r[3] = x
BY DEF OffsetsOf, ReaderTypeOK, Rows

(* The last row that a page takes of a partition. *)
LEMMA LastTaken ==
  ASSUME ReaderTypeOK, NEW page, page \subseteq rows, NEW p, OffsetsOf(page, p) # {}
  PROVE \E r \in page :
          /\ r[2] = p /\ r[3] \in Int
          /\ Behind(r) = IF Oldest THEN Max(OffsetsOf(page, p)) + 1 ELSE Min(OffsetsOf(page, p))
<1> DEFINE S == OffsetsOf(page, p)
           m == IF Oldest THEN Max(S) ELSE Min(S)
<1>1. m \in S
  BY WhatAPageTakes, MinOfOffsets, MaxOfOffsets
<1>2. PICK r \in page : r[2] = p /\ r[3] = m
  BY <1>1, WhatAPageTakes
<1>3. r[3] \in Int
  BY <1>1, <1>2, WhatAPageTakes DEF Offsets
<1>4. QED
  BY <1>2, <1>3 DEF Behind

LEMMA WhatComesFirst ==
  ASSUME NEW page \in Pages, NEW r \in page, NEW q \in rows, Precedes(q, r)
  PROVE q \in page
BY DEF Pages

LEMMA PagesAreOfRows == \A page \in Pages : page \subseteq rows
BY DEF Pages

(* The cursor stays within the listed offsets. *)
LEMMA FrontierIsListed ==
  ASSUME ReaderInv, pc = "answer", NEW page \in Pages, NEW p \in Windowed
  PROVE Frontier(page, p) \in Offsets /\ (Oldest => Frontier(page, p) <= ends[p])
<1> DEFINE S == OffsetsOf(page, p)
<1>0. /\ starts \in [Parts -> Offsets] /\ ends \in [Parts -> Offsets] /\ query \in Query /\ resume \in Marks
      /\ p \in Parts /\ page \subseteq rows /\ ReaderTypeOK /\ WindowInv /\ rows \subseteq Rows
      /\ \A x \in Offsets : x \in Int /\ x >= 0 /\ x <= MaxOffset
      /\ MaxOffset \in Int
  BY PagesAreOfRows, ReaderAssumption DEF ReaderInv, ReaderTypeOK, RequestInv, Asking, Windowed, Query, Offsets
<1>1. CASE S # {} /\ Frontier(page, p) = IF Oldest THEN Max(S) + 1 ELSE Min(S)
  <2>1. CASE Oldest
    <3>1. PICK r \in page : r[2] = p /\ r[3] \in Int /\ Behind(r) = Max(S) + 1
      BY <1>0, <1>1, <2>1, LastTaken
    <3>2. r[3] < ends[p] /\ r[3] >= 0 /\ ends[p] \in Int /\ ends[p] <= MaxOffset
      BY <1>0, <2>1, <3>1 DEF WindowInv, Rows
    <3>3. Frontier(page, p) = r[3] + 1
      BY <1>1, <2>1, <3>1 DEF Behind
    <3>4. r[3] + 1 \in Offsets /\ r[3] + 1 <= ends[p]
      BY <1>0, <3>1, <3>2 DEF Offsets
    <3>5. QED BY <3>3, <3>4
  <2>2. CASE ~ Oldest
    BY <1>0, <1>1, <2>2, WhatAPageTakes, MinOfOffsets
  <2>3. QED BY <2>1, <2>2
<1>2. CASE far[p] # NoWindow /\ Frontier(page, p) = FarSide(far[p])
  BY <1>0, <1>2 DEF ReaderTypeOK, ReadWindows, FarSide, WindowInv
<1>3. CASE Frontier(page, p) = Beginning(p)
  <2>1. Beginning(p) \in Offsets /\ (Oldest => Beginning(p) < ends[p])
    BY <1>0, WhereItBegins
  <2>2. QED BY <1>0, <1>3, <2>1
<1>4. QED
  BY <1>1, <1>2, <1>3 DEF Frontier

(* The cursor passes nothing that the page does not hold. *)
LEMMA FrontierCovers ==
  ASSUME ReaderInv, SameTopic, pc = "answer", NEW page \in Pages, NEW p \in Windowed,
         NEW o \in log[p], ~ Past(o, Beginning(p)), Past(o, Frontier(page, p))
  PROVE <<inc, p, o>> \in page
<1> DEFINE S == OffsetsOf(page, p)
<1>0. /\ p \in Parts /\ page \subseteq rows /\ ReaderTypeOK /\ WindowInv /\ CoverInv /\ rows \subseteq Rows /\ o \in Int
  BY PagesAreOfRows DEF ReaderInv, ReaderTypeOK, Asking, Windowed, Query, Offsets
<1>1. CASE S # {} /\ Frontier(page, p) = IF Oldest THEN Max(S) + 1 ELSE Min(S)
  <2>1. PICK r \in page : r[2] = p /\ r[3] \in Int /\ Behind(r) = Frontier(page, p)
    BY <1>0, <1>1, LastTaken
  <2>2. <<inc, p, o>> \in rows
    BY <1>0, <2>1 DEF CoverInv, Covered
  <2>3. r = <<inc, p, r[3]>>
    <3>1. r[1] = inc
      BY <1>0, <2>1 DEF WindowInv, SameTopic
    <3>2. r = <<r[1], r[2], r[3]>>
      BY <1>0, <2>1 DEF Rows
    <3>3. QED BY <2>1, <3>1, <3>2
  <2>4. CASE o = r[3]
    BY <2>1, <2>3, <2>4
  <2>5. CASE o # r[3]
    <3>1. IF Oldest THEN o < r[3] ELSE o > r[3]
      BY <1>0, <2>1, <2>5 DEF Behind, Past
    <3>2. Precedes(<<inc, p, o>>, r)
      BY <2>1, <3>1 DEF Precedes
    <3>3. QED BY <2>1, <2>2, <3>2, WhatComesFirst
  <2>6. QED BY <2>4, <2>5
<1>2. CASE far[p] # NoWindow /\ p \notin held /\ Frontier(page, p) = FarSide(far[p])
  <2>1. <<inc, p, o>> \in rows
    BY <1>0, <1>2 DEF CoverInv, Covered
  <2>2. <<inc, p, o>>[2] \in held
    BY <1>0, <2>1 DEF WindowInv
  <2>3. QED BY <1>2, <2>2
<1>3. CASE Frontier(page, p) = Beginning(p)
  BY <1>3
<1>4. QED
  BY <1>1, <1>2, <1>3 DEF Frontier

(* Between the place a browse stood at and where its next request begins there
   is nothing. *)
LEMMA NothingBetween ==
  ASSUME ReaderInv, SameTopic, Asking, NEW p \in Parts \ unlisted, resume[p] # Unset, edge[p] # Unset,
         NEW o \in log[p], ~ Past(o, edge[p]), Past(o, Beginning(p))
  PROVE Past(o, resume[p])
<1>0. /\ starts \in [Parts -> Offsets] /\ ends \in [Parts -> Offsets] /\ query \in Query /\ resume \in Marks
      /\ starts[p] \in Int /\ ends[p] \in Int /\ lo[p] \in Int /\ hi[p] \in Int /\ o \in Int /\ edge[p] \in Int
      /\ Beginning(p) \in Int
      /\ query.seek # Unset => query.seek \in Int
      /\ starts[p] <= lo[p] /\ lo[p] <= o
  <2>1. starts \in [Parts -> Offsets] /\ ends \in [Parts -> Offsets] /\ query \in Query /\ resume \in Marks
    BY DEF ReaderInv, ReaderTypeOK, RequestInv
  <2>2. /\ starts[p] \in Int /\ ends[p] \in Int /\ lo[p] \in Int /\ hi[p] \in Int /\ o \in Int /\ edge[p] \in Int
        /\ query.seek # Unset => query.seek \in Int
    BY <2>1 DEF ReaderInv, ReaderTypeOK, Offsets, Query
  <2>3. Beginning(p) \in Int
    BY <2>1, WhereItBegins DEF Offsets
  <2>4. starts[p] <= lo[p] /\ lo[p] <= o
    BY <2>1, <2>2 DEF ReaderInv, ListedInv, TopicInv, RequestInv
  <2>5. QED BY <2>1, <2>2, <2>3, <2>4
<1>1. CASE Oldest
  <2>1. o >= edge[p] /\ o < Beginning(p)
    BY <1>0, <1>1 DEF Past
  <2>2. query.seek # Unset => edge[p] >= query.seek
    BY <1>1 DEF ReaderInv, BrowseInv
  <2>3. \/ Beginning(p) = starts[p]
        \/ Beginning(p) = query.seek /\ query.seek # Unset
        \/ Beginning(p) = resume[p] /\ resume[p] # Unset
    BY <1>0, <1>1, WhereItBegins
  <2>4. Beginning(p) = resume[p]
    BY <1>0, <2>1, <2>2, <2>3
  <2>5. QED BY <2>4
<1>2. CASE ~ Oldest
  <2>1. o < edge[p] /\ o >= Beginning(p)
    BY <1>0, <1>2 DEF Past
  <2>2. edge[p] <= ends[p] /\ (query.seek # Unset => edge[p] <= query.seek + 1)
    BY <1>2 DEF ReaderInv, BrowseInv, RequestInv
  <2>3. \/ Beginning(p) = ends[p]
        \/ Beginning(p) = query.seek + 1 /\ query.seek # Unset
        \/ Beginning(p) = resume[p] /\ resume[p] # Unset
    BY <1>0, <1>2, WhereItBegins
  <2>4. Beginning(p) = resume[p]
    BY <1>0, <2>1, <2>2, <2>3
  <2>5. QED BY <2>4
<1>3. QED
  BY <1>1, <1>2

LEMMA AnswerKeepsTypes ==
  ASSUME ReaderInv, NEW page, AnswerRequest(page)
  PROVE ReaderTypeOK'
<1>0. /\ starts \in [Parts -> Offsets] /\ ends \in [Parts -> Offsets] /\ query \in Query /\ resume \in Marks
      /\ pc = "answer" /\ page \in Pages /\ page \subseteq rows
  BY PagesAreOfRows DEF AnswerRequest, ReaderInv, ReaderTypeOK, RequestInv, Asking
<1>1. cursor' \in Marks
  <2>1. \A p \in Parts : PinnedOffset(p) \in Offsets
    BY <1>0 DEF PinnedOffset
  <2>2. \A p \in Windowed : Frontier(page, p) \in Offsets
    BY <1>0, FrontierIsListed
  <2>3. cursor' = NextCursor(page)
    BY DEF AnswerRequest
  <2>4. QED BY <2>1, <2>2, <2>3 DEF NextCursor, Marks
<1>2. edge' \in [Parts -> Offsets \cup {Unset}]
  <2>1. \A p \in Parts : Beginning(p) \in Offsets
    BY <1>0, WhereItBegins
  <2>2. QED BY <2>1 DEF AnswerRequest, ReaderInv, ReaderTypeOK
<1>3. more' \in BOOLEAN
  BY DEF AnswerRequest
<1>4. shown' \subseteq Rows
  BY <1>0 DEF AnswerRequest, ReaderInv, ReaderTypeOK
<1>5. /\ rows' \subseteq Rows /\ completed' \subseteq Parts /\ held' \subseteq Parts
      /\ widen' \in Nat \ {0} /\ round' \in 0..MaxRounds /\ scanned' \in Nat
      /\ floor' \in [Parts -> Offsets] /\ far' \in ReadWindows
  <2>1. 0 \in Offsets /\ 0 \in 0..MaxRounds
    BY ReaderAssumption DEF Offsets
  <2>2. Everywhere(0) \in [Parts -> Offsets] /\ Everywhere(NoWindow) \in ReadWindows
    BY <2>1 DEF Everywhere, NoWindow, ReadWindows
  <2>3. /\ floor' = Everywhere(0) /\ far' = Everywhere(NoWindow)
        /\ rows' = {} /\ completed' = {} /\ held' = {} /\ widen' = 1 /\ round' = 0 /\ scanned' = 0
    BY DEF AnswerRequest, NoRounds
  <2>4. QED BY <2>1, <2>2, <2>3
<1>6. partial' \in BOOLEAN /\ pc' \in {"idle", "listing", "round", "consume", "answer"}
  BY DEF AnswerRequest, NoRounds
<1>7. /\ UNCHANGED <<inc, log, lo, hi, changes, failures, known, query>>
      /\ UNCHANGED <<starts, ends, resume, retried, windows, landed, found, seen, unlisted>>
  BY DEF AnswerRequest, topicVars, listVars, callVars, historyVars
<1>8. QED
  BY <1>1, <1>2, <1>3, <1>4, <1>5, <1>6, <1>7 DEF ReaderInv, ReaderTypeOK

(* The tab's place after an answer, and what it was given before that place. *)
LEMMA AnswerRequestPreserves ==
  ASSUME ReaderInv, NEW page, AnswerRequest(page)
  PROVE ReaderInv'
<1>0. /\ starts \in [Parts -> Offsets] /\ ends \in [Parts -> Offsets] /\ query \in Query /\ resume \in Marks
      /\ pc = "answer" /\ page \in Pages /\ Asking /\ more /\ seen # {} /\ ReaderTypeOK
      /\ starts # Unset /\ ends # Unset
      /\ resume = IF retried THEN Everywhere(Unset) ELSE cursor
  BY DEF AnswerRequest, ReaderInv, ReaderTypeOK, RequestInv, SeenInv, Asking
<1>a. /\ pc' = "idle" /\ ~ Asking' /\ shown' = IF retried THEN page ELSE shown \cup page
      /\ \A p \in Parts : edge'[p] = IF p \in query.scope /\ resume[p] = Unset THEN Beginning(p) ELSE edge[p]
      /\ \A p \in Parts : cursor'[p] = IF p \in Windowed THEN Frontier(page, p)
                                       ELSE IF p \in query.scope /\ resume[p] # Unset THEN PinnedOffset(p)
                                       ELSE Unset
      /\ more' = \E p \in Windowed : ~ Exhausted(p, Frontier(page, p))
      /\ UNCHANGED <<topicVars, query, listVars, callVars, seen, unlisted>>
      /\ Oldest' = Oldest
  BY DEF AnswerRequest, NextCursor, Asking, Oldest, historyVars
<1>b. /\ inc' = inc /\ log' = log /\ lo' = lo /\ hi' = hi /\ changes' = changes
      /\ starts' = starts /\ ends' = ends /\ SameTopic' = SameTopic /\ seen' = seen /\ unlisted' = unlisted
  BY <1>a DEF topicVars, listVars, SameTopic
<1>c. \A p \in Parts : /\ starts[p] \in Int /\ ends[p] \in Int /\ lo[p] \in Int /\ hi[p] \in Int
                       /\ log[p] \subseteq Int /\ (edge[p] # Unset => edge[p] \in Int)
                       /\ Beginning(p) \in Int
  <2>1. \A p \in Parts : Beginning(p) \in Int
    BY <1>0, WhereItBegins DEF Offsets
  <2>2. QED BY <1>0, <2>1 DEF ReaderTypeOK, Offsets
<1>d. Windowed \subseteq query.scope /\ query.scope \subseteq Parts
  BY <1>0 DEF Windowed, Query
<1>e. \A p \in Parts \ query.scope : edge'[p] = Unset /\ cursor'[p] = Unset
  BY <1>a, <1>d DEF ReaderInv, RequestInv
<1>1. ReaderTypeOK'
  BY AnswerKeepsTypes
<1>2. TopicInv'
  BY <1>b DEF ReaderInv, TopicInv
<1>3. SeenInv'
  BY <1>0, <1>a, <1>b DEF ReaderInv, SeenInv
<1>4. RequestInv'
  BY <1>0, <1>a, <1>b, <1>e DEF ReaderInv, RequestInv, NoCall, callVars, historyVars
<1>5. SameTopic => ListedInv'
  BY <1>b DEF ReaderInv, ListedInv
<1>6. ASSUME SameTopic, NEW p \in query.scope \ unlisted, edge'[p] # Unset, NEW o \in log[p], ~ Past(o, edge'[p]),
             Past(o, Beginning(p))
      PROVE  <<inc, p, o>> \in shown'
  <2>0. p \in Parts
    BY <1>d
  <2>1. resume[p] # Unset /\ edge'[p] = edge[p]
    BY <1>6, <1>a, <2>0
  <2>2. ~ retried /\ cursor[p] = resume[p]
    BY <1>0, <2>0, <2>1 DEF Everywhere
  <2>3. Past(o, cursor[p])
    BY <1>0, <1>6, <2>0, <2>1, <2>2, NothingBetween
  <2>4. o \in Passed(p)
    <3>1. edge[p] # Unset /\ cursor[p] # Unset /\ edge[p] \in Int /\ cursor[p] \in Int /\ o \in Int
      BY <1>0, <1>6, <1>c, <2>0, <2>1, <2>2 DEF Marks, Offsets
    <3>2. QED BY <1>6, <2>1, <2>3, <3>1 DEF Passed, Past
  <2>5. <<inc, p, o>> \in shown
    BY <1>6, <2>0, <2>4 DEF ReaderInv, NeverSkips, Unseen
  <2>6. QED BY <1>a, <2>2, <2>5
<1>7. ASSUME SameTopic, NEW p \in Windowed, NEW o \in log[p], ~ Past(o, Beginning(p)), Past(o, Frontier(page, p))
      PROVE  <<inc, p, o>> \in shown'
  BY <1>0, <1>7, <1>a, FrontierCovers
<1>8. SameTopic => BrowseInv'
  <2> SUFFICES ASSUME SameTopic, NEW p \in Parts, edge'[p] # Unset
               PROVE  IF Oldest
                      THEN /\ query.seek # Unset => edge'[p] >= query.seek
                           /\ cursor'[p] # Unset => cursor'[p] <= hi[p]
                      ELSE /\ edge'[p] <= hi[p] /\ (p \notin unlisted => edge'[p] <= ends[p])
                           /\ query.seek # Unset => edge'[p] <= query.seek + 1
    BY <1>0, <1>a, <1>b DEF BrowseInv
  <2>0. ends[p] <= hi[p] /\ p \in query.scope
    BY <1>0, <1>e DEF ReaderInv, ListedInv
  <2>1. /\ Oldest => (query.seek # Unset => edge'[p] >= query.seek)
        /\ ~ Oldest => edge'[p] <= hi[p] /\ (p \notin unlisted => edge'[p] <= ends[p]) /\ (query.seek # Unset => edge'[p] <= query.seek + 1)
    <3>1. CASE resume[p] = Unset
      <4>1. edge'[p] = Beginning(p) /\ Beginning(p) \in Int /\ ends[p] \in Int /\ hi[p] \in Int
        BY <1>a, <1>c, <2>0, <3>1
      <4>2. /\ Oldest => (query.seek # Unset => Beginning(p) >= query.seek)
            /\ ~ Oldest => Beginning(p) <= ends[p] /\ (query.seek # Unset => Beginning(p) <= query.seek + 1)
        BY <1>0, <3>1, WhereItBegins
      <4>3. QED BY <2>0, <4>1, <4>2
    <3>2. CASE resume[p] # Unset
      <4>1. edge'[p] = edge[p] /\ edge[p] # Unset
        BY <1>a, <3>2
      <4>2. QED BY <1>0, <4>1 DEF ReaderInv, BrowseInv
    <3>3. QED BY <3>1, <3>2
  <2>2. ASSUME Oldest, cursor'[p] # Unset PROVE cursor'[p] <= ends[p] /\ cursor'[p] \in Int
    <3>1. CASE p \in Windowed
      BY <1>0, <1>a, <2>2, <3>1, FrontierIsListed DEF Offsets
    <3>2. CASE p \notin Windowed
      BY <1>a, <1>c, <2>2, <3>2 DEF PinnedOffset
    <3>3. QED BY <3>1, <3>2
  <2>3. edge'[p] \in Int
    BY <1>a, <1>c
  <2>4. QED BY <1>c, <2>0, <2>1, <2>2, <2>3
<1>9. NeverSkips'
  <2> SUFFICES ASSUME SameTopic, NEW p \in Parts \ unlisted, NEW o \in Passed(p)', o \in log[p]
               PROVE  <<inc, p, o>> \in shown'
    BY <1>b DEF NeverSkips, Unseen
  <2>1. /\ edge'[p] # Unset /\ cursor'[p] # Unset
        /\ ~ Past(o, edge'[p]) /\ Past(o, cursor'[p])
    <3>1. edge'[p] # Unset /\ cursor'[p] # Unset
      BY DEF Passed
    <3>2. edge'[p] \in Int /\ cursor'[p] \in Int /\ o \in Int
      BY <1>1, <1>c, <3>1 DEF ReaderTypeOK, Marks, Offsets
    <3>3. QED BY <1>a, <3>1, <3>2 DEF Passed, Past
  <2>2. p \in query.scope
    BY <1>e, <2>1
  <2>3. CASE Past(o, Beginning(p))
    BY <1>6, <2>1, <2>2, <2>3
  <2>4. CASE p \in Windowed /\ ~ Past(o, Beginning(p))
    BY <1>7, <1>a, <2>1, <2>4
  <2>5. CASE p \notin Windowed
    <3>1. cursor'[p] = PinnedOffset(p)
      BY <1>a, <2>1, <2>5
    <3>2. IF Oldest THEN Beginning(p) >= ends[p] ELSE Beginning(p) <= starts[p]
      BY <1>0, <1>c, <2>2, <2>5, WhereItBegins
    <3>3. Past(o, Beginning(p))
      BY <1>c, <2>1, <3>1, <3>2 DEF Past, PinnedOffset
    <3>4. QED BY <1>6, <2>1, <2>2, <3>3
  <2>6. QED BY <2>3, <2>4, <2>5
<1>10. ExhaustedMeansAll'
  <2> SUFFICES ASSUME ~ more', SameTopic, NEW p \in query.scope \ unlisted, NEW o \in log[p], edge'[p] # Unset,
                      ~ (IF Oldest THEN o < edge'[p] \/ o >= ends[p] ELSE o >= edge'[p])
               PROVE  <<inc, p, o>> \in shown'
    BY <1>a, <1>b DEF ExhaustedMeansAll, Unseen
  <2>0. p \in Parts /\ o \in Int /\ edge'[p] \in Int /\ ~ Past(o, edge'[p])
    BY <1>a, <1>c, <1>d DEF Past
  <2>1. starts[p] <= o
    <3>1. starts[p] <= lo[p] /\ lo[p] <= o
      BY <1>0, <1>c, <2>0 DEF ReaderInv, ListedInv, TopicInv
    <3>2. QED BY <1>c, <2>0, <3>1
  <2>2. CASE Past(o, Beginning(p))
    BY <1>6, <2>0, <2>2
  <2>3. CASE ~ Past(o, Beginning(p))
    <3>1. p \in Windowed
      <4>1. IF Oldest THEN Beginning(p) < ends[p] ELSE starts[p] < Beginning(p)
        BY <1>c, <2>0, <2>1, <2>3 DEF Past
      <4>2. QED BY <1>0, <2>0, <4>1, WhereItBegins
    <3>2. Exhausted(p, Frontier(page, p)) /\ Frontier(page, p) \in Int
      BY <1>0, <1>a, <3>1, FrontierIsListed DEF Offsets
    <3>3. Past(o, Frontier(page, p))
      BY <1>c, <2>0, <2>1, <3>2 DEF Past, Exhausted
    <3>4. QED BY <1>7, <2>3, <3>1, <3>3
  <2>4. QED BY <2>2, <2>3
<1>11. QED
  BY <1>1, <1>2, <1>3, <1>4, <1>5, <1>8, <1>9, <1>10, <1>a, <1>b DEF ReaderInv
-----------------------------------------------------------------------------
LEMMA InitHolds == ReaderInit => ReaderInv
<1> SUFFICES ASSUME ReaderInit PROVE ReaderInv
  OBVIOUS
<1> USE DEF ReaderInit
<1>1. PICK l \in Logs : hi = [p \in Parts |-> l[p].end] /\ log = [p \in Parts |-> l[p].records]
  OBVIOUS
<1>2. \A p \in Parts : /\ hi[p] = l[p].end /\ log[p] = l[p].records /\ lo[p] = 0
                       /\ l[p].end \in Offsets /\ l[p].records \subseteq 0..(l[p].end - 1)
                       /\ l[p].records \subseteq Offsets
  BY <1>1, ReaderAssumption DEF Log, Everywhere
<1>3. ReaderTypeOK
  <2>1. 0 \in Offsets /\ 1 \in Incs /\ 0 \in 0..MaxRounds /\ 0 \in 0..MaxChanges /\ 0 \in 0..MaxFailures
    BY ReaderAssumption DEF Offsets, Incs
  <2>2. Everywhere(0) \in [Parts -> Offsets] /\ Everywhere(NoWindow) \in ReadWindows /\ Everywhere(Unset) \in Marks
    BY <2>1 DEF Everywhere, NoWindow, ReadWindows, Marks
  <2>3. log \in [Parts -> SUBSET Offsets] /\ hi \in [Parts -> Offsets] /\ lo \in [Parts -> Offsets]
    BY <1>1, <1>2, <2>2
  <2>4. query \in Query
    BY ReaderAssumption
  <2>5. retried \in BOOLEAN /\ partial \in BOOLEAN /\ more \in BOOLEAN
    OBVIOUS
  <2>6. /\ inc \in Incs /\ changes \in 0..MaxChanges /\ failures \in 0..MaxFailures
        /\ known \in Incs \cup {Unset} /\ cursor \in Marks
        /\ pc \in {"idle", "listing", "round", "consume", "answer"}
        /\ starts \in [Parts -> Offsets] \cup {Unset} /\ ends \in [Parts -> Offsets] \cup {Unset}
        /\ resume \in Marks /\ floor \in [Parts -> Offsets] /\ widen \in Nat \ {0} /\ round \in 0..MaxRounds
        /\ scanned \in Nat
        /\ rows \subseteq Rows /\ found \subseteq Rows /\ shown \subseteq Rows
        /\ completed \subseteq Parts /\ held \subseteq Parts /\ landed \subseteq Parts
        /\ far \in ReadWindows /\ windows \in ReadWindows /\ seen \subseteq Incs
    BY <2>1, <2>2
  <2>7. edge \in [Parts -> Offsets \cup {Unset}]
    BY DEF Everywhere
  <2>8. QED BY <2>3, <2>4, <2>5, <2>6, <2>7 DEF ReaderTypeOK
<1>4. TopicInv
  <2>1. ASSUME NEW p \in Parts PROVE lo[p] <= hi[p] /\ log[p] \subseteq lo[p]..(hi[p] - 1)
    BY <1>2 DEF Offsets
  <2>2. QED BY <2>1 DEF TopicInv
<1>5. SeenInv /\ RequestInv /\ ~ Asking
  BY DEF SeenInv, RequestInv, NoCall, Asking, Everywhere
<1>6. ListedInv /\ BrowseInv
  BY DEF ListedInv, BrowseInv, Everywhere
<1>7. NeverSkips /\ ExhaustedMeansAll
  BY DEF NeverSkips, ExhaustedMeansAll, Passed, Everywhere
<1>8. QED
  BY <1>3, <1>4, <1>5, <1>6, <1>7 DEF ReaderInv

LEMMA ReaderStutterPreserves ==
  ASSUME ReaderInv, UNCHANGED readerVars
  PROVE ReaderInv'
<1>1. UNCHANGED <<inc, pc, tabVars, listVars, roundVars, callVars, seen, unlisted>> /\ UNCHANGED topicVars /\ UNCHANGED <<failures, known>>
  BY DEF readerVars, topicVars, historyVars
<1>2. ReaderTypeOK' /\ TopicInv'
  BY <1>1 DEF ReaderInv, ReaderTypeOK, TopicInv, topicVars, tabVars, listVars, roundVars, callVars, historyVars
<1>3. \A p \in Parts : lo[p] <= lo'[p] /\ hi[p] <= hi'[p] /\ \A o \in log'[p] : o \in log[p] \/ o >= hi[p]
  BY <1>1 DEF ReaderInv, ReaderTypeOK, topicVars, Offsets
<1>4. QED
  BY <1>1, <1>2, <1>3, TopicMovesOn

LEMMA ReaderNextPreserves ==
  ASSUME ReaderInv, [ReaderNext]_readerVars
  PROVE ReaderInv'
<1>1. CASE Reads
  <2>1. CASE Ask
    BY <2>1, AskPreserves
  <2>2. CASE \E failed \in SUBSET Parts : ListStarts(failed) \/ ListEnds(failed)
    BY <2>2, ListStartsPreserves, ListEndsPreserves
  <2>3. CASE BeginAttempt
    BY <2>3, BeginAttemptPreserves
  <2>4. CASE StartRound
    BY <2>4, StartRoundPreserves
  <2>5. CASE StopRounds
    BY <2>5, StopRoundsPreserves
  <2>6. CASE \E p \in Parts : PartitionLands(p)
    BY <2>6, PartitionLandsPreserves
  <2>7. CASE AllLanded
    BY <2>7, AllLandedPreserves
  <2>8. CASE PageSatisfied
    BY <2>8, PageSatisfiedPreserves
  <2>9. CASE BudgetSpent
    BY <2>9, BudgetSpentPreserves
  <2>10. CASE NothingLanded
    BY <2>10, NothingLandedPreserves
  <2>11. CASE FetchFails
    BY <2>11, FetchFailsPreserves
  <2>12. CASE TopicIsGone
    BY <2>12, TopicIsGonePreserves
  <2>13. CASE \E page \in SUBSET rows : AnswerRequest(page)
    BY <2>13, AnswerRequestPreserves
  <2>14. QED
    BY <1>1, <2>1, <2>2, <2>3, <2>4, <2>5, <2>6, <2>7, <2>8, <2>9, <2>10, <2>11, <2>12, <2>13 DEF Reads
<1>2. CASE Changes
  <2>1. CASE \E p \in Parts : \/ Produce(p)
                              \/ \E o \in Offsets : Retain(p, o) \/ Compact(p, o)
    BY <2>1, ProducePreserves, RetainPreserves, CompactPreserves
  <2>2. CASE Recreate
    BY <2>2, RecreatePreserves
  <2>3. CASE OtherTabRenews
    BY <2>3, OtherTabRenewsPreserves
  <2>4. QED
    BY <1>2, <2>1, <2>2, <2>3 DEF Changes
<1>3. CASE UNCHANGED readerVars
  BY <1>3, ReaderStutterPreserves
<1>4. QED
  BY <1>1, <1>2, <1>3 DEF ReaderNext

LEMMA AlwaysIInv == ReaderSpec => []ReaderInv
<1>1. ReaderInit => ReaderInv
  BY InitHolds
<1>2. ReaderInv /\ [ReaderNext]_readerVars => ReaderInv'
  BY ReaderNextPreserves
<1>3. QED
  BY <1>1, <1>2, PTL DEF ReaderSpec

(* Type correctness, at any topic and page size: no offset that a request works
   with, no window and no cursor (messages.go 1712-1756) leaves the log. *)
THEOREM TypesAreKept == ReaderSpec => []ReaderTypeOK
<1>1. ReaderInv => ReaderTypeOK
  BY DEF ReaderInv
<1>2. QED
  BY <1>1, AlwaysIInv, PTL

(* However the topic grows, ages out or is compacted between and during its
   reads, and wherever those are cut short, the cursor of computeFrontier never
   passes a record that the tab was not given: in every partition but those whose
   end some page could not list, which the page then takes for drained. *)
THEOREM NeverSkipsHolds == ReaderSpec => []NeverSkips
<1>1. ReaderInv => NeverSkips
  BY DEF ReaderInv
<1>2. QED
  BY <1>1, AlwaysIInv, PTL

(* A page that says there is nothing more (has_older, has_newer) was preceded by
   every record from where the browse began to the end it was listed with, in every
   partition whose end could always be listed. *)
THEOREM ExhaustedMeansAllHolds == ReaderSpec => []ExhaustedMeansAll
<1>1. ReaderInv => ExhaustedMeansAll
  BY DEF ReaderInv
<1>2. QED
  BY <1>1, AlwaysIInv, PTL

-----------------------------------------------------------------------------
(* The store of the client. *)

TabFields ==
  {"rows", "loading", "older", "error", "more", "cursor", "scope", "seek", "direction", "filter",
   "search", "scanning", "deep", "canceled", "partial", "limit"}
ReqFields ==
  {"kind", "view", "cursor", "phase", "answer", "reset", "loop", "mount", "era"}

(* The shape of what a handler works on. *)
Shape(s) ==
  /\ DOMAIN s = {"tab", "req", "controller", "children", "era", "of"}
  /\ DOMAIN s.tab = TabFields
  /\ DOMAIN s.req = Slots /\ \A i \in Slots : DOMAIN s.req[i] = ReqFields
  /\ DOMAIN s.children = {"loading", "known", "error"}
  /\ s.era \in Nat

(* A slot is idle or has a request in a phase; only a step is ever aborted. *)
Requests(s) ==
  \A i \in Slots : /\ s.req[i].kind \in {"idle", "page", "older", "step"}
                   /\ s.req[i].phase = "idle" <=> s.req[i].kind = "idle"
                   /\ s.req[i].phase = "cut" => s.req[i].kind = "step"

(* The controller of the tab's scan belongs to a step that is under way for the
   search that began last. *)
Owner(s) ==
  s.controller # None =>
    /\ s.controller \in Slots
    /\ s.req[s.controller].kind = "step" /\ s.req[s.controller].era = s.era

(* The list is a list; no row of it comes from a search before the last. *)
Listed(s) ==
  /\ s.tab.rows \in Seq({s.tab.rows[k] : k \in 1..Len(s.tab.rows)})
  /\ \A k \in 1..Len(s.tab.rows) : s.tab.rows[k].by \in {0, s.era}

(* Whatever spins, spins for a request that is under way. *)
Spinners(s) ==
  /\ s.tab.scanning => s.controller # None
  /\ s.tab.loading => \E i \in Slots : s.req[i].kind = "page"
  /\ s.tab.older => \E i \in Slots : s.req[i].kind = "older"

(* Search all goes on only with a step that it waits for. *)
Looping(s) == s.tab.deep => \E i \in Slots : s.req[i].kind = "step" /\ s.req[i].loop

Core(s) == Shape(s) /\ Requests(s) /\ Owner(s) /\ Listed(s) /\ Spinners(s)
Good(s) == Core(s) /\ Looping(s)
IInv == Good(State)

(* One request can be sent; two can. *)
One(s) == \E i \in Slots : s.req[i].kind = "idle"
Two(s) == \E i, j \in Slots : i # j /\ s.req[i].kind = "idle" /\ s.req[j].kind = "idle"

(* Room is for two requests. *)
LEMMA RoomIsTwo == Room => Two(State)
<1> DEFINE F == {i \in Slots : req[i].kind = "idle"}
<1> SUFFICES ASSUME Cardinality(F) >= 2 PROVE Two(State)
  BY DEF Room
<1>1. IsFiniteSet(F)
  BY FS_Subset, KafkaClientAssumption
<1>2. F # {}
  BY FS_EmptySet
<1>3. PICK i \in F : TRUE
  BY <1>2
<1>4. F # {i}
  <2>1. Cardinality({i}) = 1
    BY FS_Singleton
  <2>2. QED
    BY <2>1
<1>5. PICK j \in F : j # i
  BY <1>3, <1>4
<1>6. QED
  BY <1>3, <1>5 DEF Two, State

(* The slot a request takes is free. *)
LEMMA FreeSlotIsIdle ==
  ASSUME NEW s, One(s)
  PROVE FreeSlot(s) \in Slots /\ s.req[FreeSlot(s)].kind = "idle"
BY DEF One, FreeSlot

(* After one of two the other is left. *)
LEMMA OneIsLeft ==
  ASSUME NEW s, NEW n, NEW x \in Slots, Two(s),
         \A i \in Slots \ {x} : n.req[i].kind = s.req[i].kind
  PROVE One(n)
BY DEF One, Two

(* A list is a sequence of its own elements. *)
LEMMA ListOfItsOwn ==
  ASSUME NEW S, NEW q \in Seq(S)
  PROVE q \in Seq({q[k] : k \in 1..Len(q)})
<1>1. Len(q) \in Nat /\ q \in [1..Len(q) -> {q[k] : k \in 1..Len(q)}]
  OBVIOUS
<1>2. QED
  BY <1>1

(* What is new in an answer is a list tagged by its search. *)
LEMMA FreshIsTagged ==
  ASSUME NEW base, NEW answer, NEW by
  PROVE /\ Fresh(base, answer, by) \in Seq({Fresh(base, answer, by)[k] : k \in 1..Len(Fresh(base, answer, by))})
        /\ \A k \in 1..Len(Fresh(base, answer, by)) : Fresh(base, answer, by)[k].by = by
<1> DEFINE listed == {base[k].pos : k \in 1..Len(base)}
           news == Filtered(answer.rows, {k \in 1..Len(answer.rows) : answer.rows[k] \notin listed})
           n == Len(news)
           fresh == [k \in 1..n |-> [pos |-> news[k], by |-> by]]
<1>1. n \in Nat
  OBVIOUS
<1> HIDE DEF n
<1>2. fresh \in [1..n -> {[pos |-> news[k], by |-> by] : k \in 1..n}]
  OBVIOUS
<1>3. fresh \in Seq({[pos |-> news[k], by |-> by] : k \in 1..n})
  BY ZenonT(60), <1>1, <1>2, SeqDef
<1>4. Fresh(base, answer, by) = fresh
  BY DEF Fresh, n
<1>5. Len(fresh) = n
  BY <1>1
<1>6. \A k \in 1..Len(fresh) : fresh[k].by = by
  BY <1>5
<1>7. fresh \in Seq({fresh[k] : k \in 1..Len(fresh)})
  BY <1>3, ListOfItsOwn
<1>8. QED
  BY <1>4, <1>6, <1>7

(* Appending to a list keeps the tags that both have. *)
LEMMA AppendedIsTagged ==
  ASSUME NEW p, NEW q, NEW T,
         p \in Seq({p[k] : k \in 1..Len(p)}), q \in Seq({q[k] : k \in 1..Len(q)}),
         \A k \in 1..Len(p) : p[k].by \in T, \A k \in 1..Len(q) : q[k].by \in T
  PROVE /\ p \o q \in Seq({(p \o q)[k] : k \in 1..Len(p \o q)})
        /\ \A k \in 1..Len(p \o q) : (p \o q)[k].by \in T
<1> DEFINE P == {p[k] : k \in 1..Len(p)}
           Q == {q[k] : k \in 1..Len(q)}
           S == P \cup Q
<1>1. p \in Seq(S) /\ q \in Seq(S)
  OBVIOUS
<1>2. \A e \in S : e.by \in T
  OBVIOUS
<1> HIDE DEF S
<1>3. p \o q \in Seq(S)
  BY <1>1
<1>4. \A k \in 1..Len(p \o q) : (p \o q)[k] \in S
  BY <1>3
<1>5. QED
  BY ZenonT(60), <1>2, <1>3, <1>4, ListOfItsOwn

(* So does cutting it off. *)
LEMMA CutIsTagged ==
  ASSUME NEW p, NEW T, NEW n \in Nat, n <= Len(p),
         p \in Seq({p[k] : k \in 1..Len(p)}), \A k \in 1..Len(p) : p[k].by \in T
  PROVE /\ SubSeq(p, 1, n) \in Seq({SubSeq(p, 1, n)[k] : k \in 1..Len(SubSeq(p, 1, n))})
        /\ \A k \in 1..Len(SubSeq(p, 1, n)) : SubSeq(p, 1, n)[k].by \in T
<1> DEFINE S == {p[k] : k \in 1..Len(p)}
<1>1. \A e \in S : e.by \in T
  OBVIOUS
<1> HIDE DEF S
<1>2. SubSeq(p, 1, n) \in Seq(S)
  BY DEF S
<1>3. \A k \in 1..Len(SubSeq(p, 1, n)) : SubSeq(p, 1, n)[k] \in S
  BY <1>2
<1>4. QED
  BY <1>1, <1>2, <1>3, ListOfItsOwn

(* A change of the tab that starts nothing keeps what holds of it. *)
LEMMA TabChange ==
  ASSUME NEW s, NEW n, Core(s),
         DOMAIN n = DOMAIN s, n.req = s.req, n.controller = s.controller, n.era = s.era,
         DOMAIN n.children = DOMAIN s.children, DOMAIN n.tab = TabFields,
         n.tab.rows \in {s.tab.rows, <<>>},
         n.tab.scanning => s.tab.scanning, n.tab.loading => s.tab.loading,
         n.tab.older => s.tab.older
  PROVE /\ Core(n)
        /\ (n.tab.deep => s.tab.deep) /\ Looping(s) => Looping(n)
<1> USE DEF Core
<1>1. Shape(n) /\ Requests(n) /\ Owner(n)
  BY DEF Shape, Requests, Owner
<1>2. Listed(n)
  <2>1. <<>> \in Seq({<<>>[k] : k \in 1..Len(<<>>)}) /\ Len(<<>>) = 0
    OBVIOUS
  <2>2. CASE n.tab.rows = <<>>
    BY <2>1, <2>2 DEF Listed
  <2>3. CASE n.tab.rows = s.tab.rows
    BY <2>3 DEF Listed
  <2>4. QED
    BY <2>2, <2>3
<1>3. Spinners(n)
  BY DEF Spinners
<1>4. (n.tab.deep => s.tab.deep) /\ Looping(s) => Looping(n)
  BY DEF Looping
<1>5. QED
  BY <1>1, <1>2, <1>3, <1>4

(* Aborting a scan changes nothing but the phase of its request. *)
LEMMA AbortScanKeeps ==
  ASSUME NEW s, Core(s)
  PROVE /\ Core(AbortScan(s)) /\ (Looping(s) => Looping(AbortScan(s)))
        /\ DOMAIN AbortScan(s) = DOMAIN s
        /\ AbortScan(s).tab = s.tab /\ AbortScan(s).controller = s.controller
        /\ AbortScan(s).children = s.children /\ AbortScan(s).era = s.era
        /\ \A i \in Slots : /\ AbortScan(s).req[i].kind = s.req[i].kind
                             /\ AbortScan(s).req[i].view = s.req[i].view
                             /\ AbortScan(s).req[i].cursor = s.req[i].cursor
        /\ \A c : Pending(AbortScan(s), c) = Pending(s, c)
<1> USE DEF Core
<1>1. CASE ~(s.controller # None /\ s.req[s.controller].phase = "sent")
  <2>1. AbortScan(s) = s
    BY <1>1 DEF AbortScan
  <2>2. QED
    BY <2>1
<1>2. CASE s.controller # None /\ s.req[s.controller].phase = "sent"
  <2> DEFINE a == AbortScan(s)
  <2>1. a = [s EXCEPT !.req[s.controller].phase = "cut"]
    BY <1>2 DEF AbortScan
  <2>2. s.controller \in Slots /\ s.req[s.controller].kind = "step"
    BY <1>2 DEF Owner
  <2>3. /\ DOMAIN a = DOMAIN s /\ a.tab = s.tab /\ a.controller = s.controller
        /\ a.children = s.children /\ a.era = s.era
        /\ a.req = [s.req EXCEPT ![s.controller].phase = "cut"]
    BY <2>1
  <2> HIDE DEF a
  <2>4. /\ DOMAIN a.req = Slots /\ \A i \in Slots : DOMAIN a.req[i] = ReqFields
        /\ \A i \in Slots : /\ a.req[i].kind = s.req[i].kind /\ a.req[i].view = s.req[i].view
                             /\ a.req[i].cursor = s.req[i].cursor /\ a.req[i].era = s.req[i].era
                             /\ a.req[i].loop = s.req[i].loop
                             /\ \/ a.req[i].phase = s.req[i].phase
                                \/ i = s.controller /\ a.req[i].phase = "cut"
    BY <2>2, <2>3 DEF Shape
  <2>5. Shape(a) /\ Requests(a) /\ Owner(a) /\ Listed(a) /\ Spinners(a)
    BY <2>2, <2>3, <2>4 DEF Shape, Requests, Owner, Listed, Spinners
  <2>6. Looping(s) => Looping(a)
    BY <2>3, <2>4 DEF Looping
  <2>7. \A c : Pending(a, c) = Pending(s, c)
    BY <2>3, <2>4 DEF Pending
  <2>8. QED
    BY <2>3, <2>4, <2>5, <2>6, <2>7 DEF a
<1>3. QED
  BY <1>1, <1>2

(* A request takes a free slot: what holds of the others goes on to hold.  The
   hypotheses name what a page, an older page and a step have in common. *)
LEMMA RequestSent ==
  ASSUME NEW s, NEW n, NEW x \in Slots, Core(s), s.req[x].kind = "idle",
         DOMAIN n = DOMAIN s, DOMAIN n.children = DOMAIN s.children, DOMAIN n.tab = TabFields,
         DOMAIN n.req = Slots, DOMAIN n.req[x] = ReqFields,
         \A i \in Slots \ {x} : n.req[i] = s.req[i],
         n.req[x].kind \in {"page", "older", "step"}, n.req[x].phase = "sent",
         n.era \in Nat,
         \/ n.controller = s.controller /\ n.era = s.era
         \/ n.controller = x /\ n.req[x].kind = "step" /\ n.req[x].era = n.era,
         \/ n.tab.rows = s.tab.rows /\ n.era = s.era
         \/ n.tab.rows = <<>>,
         n.tab.scanning => s.tab.scanning \/ n.controller = x,
         n.tab.loading => s.tab.loading \/ n.req[x].kind = "page",
         n.tab.older => s.tab.older \/ n.req[x].kind = "older",
         n.tab.deep => s.tab.deep \/ (n.req[x].kind = "step" /\ n.req[x].loop)
  PROVE /\ Core(n) /\ (Looping(s) => Looping(n)) /\ (Two(s) => One(n))
        /\ (n.req[x].kind = "step" /\ n.req[x].loop => Looping(n))
<1> USE DEF Core
<1>1. Shape(n)
  BY DEF Shape
<1>2. Requests(n)
  BY DEF Requests
<1>3. Owner(n)
  <2>1. None \notin Slots
    BY KafkaClientAssumption
  <2>2. QED
    BY <2>1 DEF Owner
<1>4. Listed(n)
  <2>1. <<>> \in Seq({<<>>[k] : k \in 1..Len(<<>>)}) /\ Len(<<>>) = 0
    OBVIOUS
  <2>2. CASE n.tab.rows = <<>>
    BY <2>1, <2>2 DEF Listed
  <2>3. CASE n.tab.rows = s.tab.rows /\ n.era = s.era
    BY <2>3 DEF Listed
  <2>4. QED
    BY <2>2, <2>3
<1>5. Spinners(n)
  <2>1. x # None
    BY KafkaClientAssumption
  <2>2. n.tab.scanning => n.controller # None
    BY <2>1 DEF Spinners
  <2>3. QED
    BY <2>2 DEF Spinners
<1>6. Looping(s) => Looping(n)
  BY DEF Looping
<1>7. Two(s) => One(n)
  BY OneIsLeft
<1>8. n.req[x].kind = "step" /\ n.req[x].loop => Looping(n)
  BY DEF Looping
<1>9. QED
  BY <1>1, <1>2, <1>3, <1>4, <1>5, <1>6, <1>7, <1>8

(* A page load: one request, or none when the same is under way already; a load
   of the tab is under way afterwards. *)
LEMMA StartPageGood ==
  ASSUME NEW s, NEW mount, Core(s), Pending(s, None) # {} \/ One(s)
  PROVE LET n == StartPage(s, mount)
        IN /\ Core(n) /\ (Looping(s) => Looping(n)) /\ Pending(n, None) # {}
           /\ n.tab.search = s.tab.search /\ n.tab.scope = s.tab.scope
           /\ Two(s) => One(n)
           /\ One(s) /\ Pending(s, None) # {} => One(n)
           /\ Two(s) /\ Pending(s, None) # {} => Two(n)
<1> USE DEF Core
<1> DEFINE n == StartPage(s, mount)
<1>1. CASE Pending(s, None) # {}
  <2>1. /\ DOMAIN n = DOMAIN s /\ n.tab = s.tab /\ n.children = s.children
        /\ n.controller = s.controller /\ n.era = s.era
        /\ n.req = [i \in Slots |->
             IF i \in Pending(s, None) /\ mount THEN [s.req[i] EXCEPT !.mount = TRUE] ELSE s.req[i]]
    BY <1>1 DEF StartPage
  <2> HIDE DEF n
  <2>2. \A i \in Slots : /\ DOMAIN n.req[i] = DOMAIN s.req[i] /\ n.req[i].kind = s.req[i].kind
                         /\ n.req[i].phase = s.req[i].phase /\ n.req[i].view = s.req[i].view
                         /\ n.req[i].cursor = s.req[i].cursor /\ n.req[i].era = s.req[i].era
                         /\ n.req[i].loop = s.req[i].loop
    BY <2>1
  <2>3. Shape(n) /\ Requests(n) /\ Owner(n) /\ Listed(n) /\ Spinners(n)
    BY <2>1, <2>2 DEF Shape, Requests, Owner, Listed, Spinners
  <2>4. Looping(s) => Looping(n)
    BY <2>1, <2>2 DEF Looping
  <2>5. Pending(n, None) = Pending(s, None)
    BY <2>1, <2>2 DEF Pending
  <2>6. (One(s) => One(n)) /\ (Two(s) => Two(n)) /\ (Two(s) => One(n))
    BY <2>2 DEF One, Two
  <2>7. QED
    BY <1>1, <2>1, <2>3, <2>4, <2>5, <2>6 DEF n
<1>2. CASE Pending(s, None) = {}
  <2> DEFINE x == FreeSlot(s)
  <2>1. One(s) /\ x \in Slots /\ s.req[x].kind = "idle"
    BY <1>2, FreeSlotIsIdle
  <2>2. /\ DOMAIN n = DOMAIN s /\ n.children = s.children
        /\ n.controller = s.controller /\ n.era = s.era
        /\ n.req = [s.req EXCEPT ![x] = [Request("page", s, None) EXCEPT !.mount = mount]]
        /\ n.tab = [s.tab EXCEPT !.loading = TRUE, !.error = FALSE]
    BY <1>2 DEF StartPage
  <2> HIDE DEF n, x
  <2>3. /\ DOMAIN n.req = Slots /\ \A i \in Slots \ {x} : n.req[i] = s.req[i]
        /\ DOMAIN n.req[x] = ReqFields /\ n.req[x].kind = "page" /\ n.req[x].phase = "sent"
        /\ n.req[x].cursor = None /\ n.req[x].view.scope = s.tab.scope
    BY <2>1, <2>2 DEF Shape, Request, Idle, View, ReqFields
  <2>4. /\ DOMAIN n.tab = TabFields /\ n.tab.rows = s.tab.rows
        /\ n.tab.scanning = s.tab.scanning /\ n.tab.older = s.tab.older
        /\ n.tab.deep = s.tab.deep /\ n.tab.search = s.tab.search /\ n.tab.scope = s.tab.scope
    BY <2>2 DEF Shape
  <2>5. Core(n) /\ (Looping(s) => Looping(n)) /\ (Two(s) => One(n))
    <3>1. n.era \in Nat
      BY <2>2 DEF Shape
    <3>2. /\ DOMAIN n = DOMAIN s /\ DOMAIN n.children = DOMAIN s.children
          /\ n.controller = s.controller /\ n.era = s.era
      BY <2>2
    <3>3. QED
      BY <2>1, <2>3, <2>4, <3>1, <3>2, RequestSent
  <2>6. x \in Pending(n, None)
    BY <2>1, <2>3, <2>4 DEF Pending
  <2>7. QED
    BY <1>2, <2>4, <2>5, <2>6 DEF n
<1>3. QED
  BY <1>1, <1>2

(* Load older: one request at most. *)
LEMMA StartOlderGood ==
  ASSUME NEW s, Good(s), One(s)
  PROVE Good(StartOlder(s))
<1> USE DEF Good, Core
<1> DEFINE n == StartOlder(s)
<1>1. CASE s.tab.cursor = None \/ s.tab.older \/ Pending(s, s.tab.cursor) # {}
  BY <1>1 DEF StartOlder
<1>2. CASE ~(s.tab.cursor = None \/ s.tab.older \/ Pending(s, s.tab.cursor) # {})
  <2> DEFINE x == FreeSlot(s)
  <2>1. x \in Slots /\ s.req[x].kind = "idle"
    BY FreeSlotIsIdle
  <2>2. /\ DOMAIN n = DOMAIN s /\ n.children = s.children
        /\ n.controller = s.controller /\ n.era = s.era
        /\ n.req = [s.req EXCEPT ![x] = Request("older", s, s.tab.cursor)]
        /\ n.tab = [s.tab EXCEPT !.older = TRUE, !.error = FALSE]
    BY <1>2 DEF StartOlder
  <2> HIDE DEF n, x
  <2>3. /\ DOMAIN n.req = Slots /\ \A i \in Slots \ {x} : n.req[i] = s.req[i]
        /\ DOMAIN n.req[x] = ReqFields /\ n.req[x].kind = "older" /\ n.req[x].phase = "sent"
    BY <2>1, <2>2 DEF Shape, Request, Idle, ReqFields
  <2>4. /\ DOMAIN n.tab = TabFields /\ n.tab.rows = s.tab.rows
        /\ n.tab.scanning = s.tab.scanning /\ n.tab.loading = s.tab.loading
        /\ n.tab.deep = s.tab.deep
    BY <2>2 DEF Shape
  <2>5. /\ DOMAIN n = DOMAIN s /\ DOMAIN n.children = DOMAIN s.children
        /\ n.controller = s.controller /\ n.era = s.era /\ n.era \in Nat
    BY <2>2 DEF Shape
  <2>6. Core(n) /\ (Looping(s) => Looping(n))
    BY <2>1, <2>3, <2>4, <2>5, RequestSent
  <2>7. QED
    BY <2>6 DEF n
<1>3. QED
  BY <1>1, <1>2

(* A step of a search: none while one runs or when a walk has nowhere to go;
   otherwise one request, which owns the scan. *)
LEMMA StartStepGood ==
  ASSUME NEW s, NEW reset \in BOOLEAN, NEW loop \in BOOLEAN, Core(s), s.tab.scanning \/ One(s)
  PROVE LET n == StartStep(s, reset, loop)
        IN /\ Core(n) /\ (Looping(s) => Looping(n)) /\ (Two(s) => One(n))
           /\ n.tab.search = s.tab.search
           /\ reset => n.tab.scanning
           /\ loop /\ ~s.tab.scanning /\ s.tab.more /\ s.tab.cursor # None => Looping(n)
           /\ s.tab.scanning => n = s
<1> DEFINE n == StartStep(s, reset, loop)
           stays == s.tab.scanning \/ (~reset /\ (~s.tab.more \/ s.tab.cursor = None))
<1>1. CASE stays
  <2>1. n = s
    BY <1>1 DEF StartStep
  <2>2. Two(s) => One(s)
    BY DEF One, Two
  <2>3. QED
    BY <1>1, <2>1, <2>2
<1>2. CASE ~stays
  <2> DEFINE a == AbortScan(s)
             begun == IF reset THEN a.era + 1 ELSE a.era
             x == FreeSlot(a)
             sent == [Request("step", a, IF reset THEN None ELSE a.tab.cursor) EXCEPT
                        !.view = View(a.tab), !.reset = reset, !.loop = loop, !.era = begun]
             t == [(IF reset THEN Emptied(a.tab) ELSE a.tab) EXCEPT
                     !.scanning = TRUE, !.error = FALSE]
  <2>1. n = [a EXCEPT !.req[x] = sent, !.controller = x, !.tab = t, !.era = begun,
                      !.of = IF reset THEN View(a.tab) ELSE a.of]
    BY <1>2 DEF StartStep
  <2>2. /\ Core(a) /\ (Looping(s) => Looping(a)) /\ DOMAIN a = DOMAIN s
        /\ a.tab = s.tab /\ a.era = s.era /\ a.children = s.children
        /\ \A i \in Slots : a.req[i].kind = s.req[i].kind
    BY AbortScanKeeps
  <2> HIDE DEF a
  <2>3. One(a) /\ (Two(s) => Two(a))
    BY <1>2, <2>2 DEF One, Two
  <2>4. x \in Slots /\ a.req[x].kind = "idle"
    BY <2>3, FreeSlotIsIdle
  <2>5. /\ DOMAIN sent = ReqFields /\ sent.kind = "step" /\ sent.phase = "sent"
        /\ sent.loop = loop /\ sent.era = begun
    BY DEF Request, Idle, ReqFields
  <2>6. begun \in Nat
    BY <2>2 DEF Core, Shape
  <2>7. /\ DOMAIN t = TabFields /\ t.search = s.tab.search /\ t.scanning = TRUE
        /\ t.loading = s.tab.loading /\ t.older = s.tab.older /\ t.deep = s.tab.deep
        /\ t.rows = IF reset THEN <<>> ELSE s.tab.rows
    BY <2>2 DEF Core, Shape, Emptied
  <2> HIDE DEF x, sent, begun, t
  <2>8. /\ DOMAIN n = DOMAIN a /\ n.children = a.children /\ n.controller = x
        /\ n.era = begun /\ n.tab = t /\ n.req = [a.req EXCEPT ![x] = sent]
    BY <2>1, <2>2
  <2> HIDE DEF n
  <2>9. DOMAIN n.req = Slots /\ n.req[x] = sent /\ \A i \in Slots \ {x} : n.req[i] = a.req[i]
    BY <2>2, <2>4, <2>8 DEF Core, Shape
  <2>10. \/ n.tab.rows = a.tab.rows /\ n.era = a.era
         \/ n.tab.rows = <<>>
    BY <2>2, <2>7, <2>8 DEF begun
  <2>11. /\ Core(n) /\ (Looping(a) => Looping(n)) /\ (Two(a) => One(n))
         /\ loop => Looping(n)
    <3>1. /\ DOMAIN n = DOMAIN a /\ DOMAIN n.children = DOMAIN a.children
          /\ DOMAIN n.tab = TabFields /\ DOMAIN n.req[x] = ReqFields
          /\ n.req[x].kind = "step" /\ n.req[x].phase = "sent" /\ n.era \in Nat
          /\ n.controller = x /\ n.req[x].era = n.era /\ n.req[x].loop = loop
      BY <2>5, <2>6, <2>7, <2>8, <2>9
    <3>2. /\ n.tab.loading = a.tab.loading /\ n.tab.older = a.tab.older
          /\ n.tab.deep = a.tab.deep
      BY <2>2, <2>7, <2>8
    <3>3. \/ n.controller = a.controller /\ n.era = a.era
          \/ n.controller = x /\ n.req[x].kind = "step" /\ n.req[x].era = n.era
      BY <3>1
    <3>4. /\ n.tab.scanning => a.tab.scanning \/ n.controller = x
          /\ n.tab.loading => a.tab.loading \/ n.req[x].kind = "page"
          /\ n.tab.older => a.tab.older \/ n.req[x].kind = "older"
          /\ n.tab.deep => a.tab.deep \/ (n.req[x].kind = "step" /\ n.req[x].loop)
      BY <3>1, <3>2
    <3>5. /\ Core(a) /\ a.req[x].kind = "idle"
          /\ DOMAIN n = DOMAIN a /\ DOMAIN n.children = DOMAIN a.children /\ DOMAIN n.tab = TabFields
          /\ DOMAIN n.req = Slots /\ DOMAIN n.req[x] = ReqFields
          /\ \A i \in Slots \ {x} : n.req[i] = a.req[i]
          /\ n.req[x].kind \in {"page", "older", "step"} /\ n.req[x].phase = "sent"
          /\ n.era \in Nat
          /\ \/ n.tab.rows = a.tab.rows /\ n.era = a.era
             \/ n.tab.rows = <<>>
      BY <2>2, <2>4, <2>9, <2>10, <3>1
    <3>6. x \in Slots
      BY <2>4
    <3>7. /\ Core(n) /\ (Looping(a) => Looping(n)) /\ (Two(a) => One(n))
          /\ n.req[x].kind = "step" /\ n.req[x].loop => Looping(n)
      BY <3>3, <3>4, <3>5, <3>6, RequestSent
    <3>8. QED
      BY <3>1, <3>7
  <2>12. QED
    BY <1>2, <2>2, <2>3, <2>7, <2>8, <2>11 DEF n
<1>3. QED
  BY <1>1, <1>2

(* The load of partitions and groups is none of the requests. *)
LEMMA StartChildrenGood ==
  ASSUME NEW s, Good(s)
  PROVE LET n == StartChildren(s)
        IN /\ Good(n) /\ n.tab = s.tab /\ n.req = s.req /\ n.era = s.era
           /\ (One(s) => One(n)) /\ (Two(s) => Two(n))
<1> USE DEF Good, Core
<1> DEFINE n == StartChildren(s)
<1>1. CASE s.children.loading
  BY <1>1 DEF StartChildren
<1>2. CASE ~s.children.loading
  <2>1. /\ DOMAIN n = DOMAIN s /\ n.tab = s.tab /\ n.req = s.req
        /\ n.controller = s.controller /\ n.era = s.era
        /\ n.children = [s.children EXCEPT !.loading = TRUE, !.error = FALSE]
    BY <1>2 DEF StartChildren
  <2> HIDE DEF n
  <2>2. DOMAIN n.children = DOMAIN s.children
    BY <2>1
  <2>3. Core(n) /\ Looping(n)
    <3>1. DOMAIN n.tab = TabFields /\ n.tab.rows \in {s.tab.rows, <<>>}
      BY <2>1 DEF Shape
    <3>2. QED
      BY <2>1, <2>2, <3>1, TabChange
  <2>4. (One(s) => One(n)) /\ (Two(s) => Two(n))
    BY <2>1 DEF One, Two
  <2>5. QED
    BY <2>1, <2>3, <2>4 DEF n
<1>3. QED
  BY <1>1, <1>2

(* A search of the topic: one request, or none while a step runs. *)
LEMMA SearchTopicGood ==
  ASSUME NEW s, NEW c, Good(s), s.tab.scanning \/ One(s)
  PROVE LET n == SearchTopic(s, c)
        IN /\ Good(n) /\ n.tab.search = c /\ n.tab.scanning
           /\ Two(s) => One(n)
<1> USE DEF Good
<1> DEFINE e == [s EXCEPT !.tab = [s.tab EXCEPT !.search = c, !.canceled = FALSE, !.filter = None],
                          !.of = IF s.tab.search = c THEN s.of ELSE None]
<1>1. SearchTopic(s, c) = StartStep(e, TRUE, FALSE)
  BY DEF SearchTopic
<1>2. /\ DOMAIN e = DOMAIN s /\ e.req = s.req /\ e.controller = s.controller /\ e.era = s.era
      /\ e.children = s.children
      /\ e.tab = [s.tab EXCEPT !.search = c, !.canceled = FALSE, !.filter = None]
  OBVIOUS
<1> HIDE DEF e
<1>3. /\ DOMAIN e.tab = TabFields /\ e.tab.rows = s.tab.rows /\ e.tab.search = c
      /\ e.tab.scanning = s.tab.scanning /\ e.tab.loading = s.tab.loading
      /\ e.tab.older = s.tab.older /\ e.tab.deep = s.tab.deep
  BY <1>2 DEF Core, Shape
<1>4. Core(e) /\ Looping(e)
  <2>1. e.tab.rows \in {s.tab.rows, <<>>} /\ DOMAIN e.children = DOMAIN s.children
    BY <1>2, <1>3
  <2>2. QED
    BY <1>2, <1>3, <2>1, TabChange
<1>5. (One(s) => One(e)) /\ (Two(s) => Two(e))
  BY <1>2 DEF One, Two
<1>6. /\ Core(StartStep(e, TRUE, FALSE)) /\ Looping(StartStep(e, TRUE, FALSE))
      /\ Two(e) => One(StartStep(e, TRUE, FALSE))
      /\ StartStep(e, TRUE, FALSE).tab.search = e.tab.search
      /\ StartStep(e, TRUE, FALSE).tab.scanning
  <2>1. e.tab.scanning \/ One(e)
    BY <1>3, <1>5
  <2>2. QED
    BY <1>4, <2>1, StartStepGood
<1>7. QED
  BY <1>1, <1>3, <1>5, <1>6

(* A refresh of what is shown. *)
LEMMA RefreshedGood ==
  ASSUME NEW s, Good(s), One(s)
  PROVE Good(Refreshed(s))
BY SearchTopicGood, StartPageGood DEF Refreshed, Good

(* Emptying the list for another anchor and reading again takes one request; it
   leaves a scan running, or a load of the tab under way. *)
LEMMA ReanchoredGood ==
  ASSUME NEW s, Good(s), One(s)
  PROVE LET n == Reanchored(s)
        IN /\ Good(n) /\ n.tab.search = s.tab.search
           /\ (n.tab.search # None => n.tab.scanning)
           /\ (n.tab.search = None => Pending(n, None) # {})
           /\ Two(s) => One(n)
           /\ s.tab.search = None /\ Pending(s, None) # {} => One(n) /\ (Two(s) => Two(n))
<1> USE DEF Good
<1> DEFINE e == [s EXCEPT !.tab = Emptied(s.tab), !.of = None]
<1>1. Reanchored(s) = IF s.tab.search # None THEN SearchTopic(e, s.tab.search) ELSE StartPage(e, FALSE)
  BY DEF Reanchored
<1>2. /\ DOMAIN e = DOMAIN s /\ e.req = s.req /\ e.controller = s.controller /\ e.era = s.era
      /\ e.children = s.children /\ e.tab = Emptied(s.tab)
  OBVIOUS
<1> HIDE DEF e
<1>3. /\ DOMAIN e.tab = TabFields /\ e.tab.rows = <<>> /\ e.tab.search = s.tab.search
      /\ e.tab.scanning = FALSE /\ e.tab.loading = s.tab.loading
      /\ e.tab.older = s.tab.older /\ e.tab.deep = s.tab.deep /\ e.tab.scope = s.tab.scope
  BY <1>2 DEF Core, Shape, Emptied
<1>4. Core(e) /\ Looping(e)
  <2>1. e.tab.rows \in {s.tab.rows, <<>>} /\ DOMAIN e.children = DOMAIN s.children
    BY <1>2, <1>3
  <2>2. QED
    BY <1>2, <1>3, <2>1, TabChange
<1>5. One(e) /\ (Two(s) => Two(e)) /\ Pending(e, None) = Pending(s, None)
  BY <1>2, <1>3 DEF One, Two, Pending
<1>6. CASE s.tab.search # None
  BY <1>1, <1>4, <1>5, <1>6, SearchTopicGood
<1>7. CASE s.tab.search = None
  <2>1. Reanchored(s) = StartPage(e, FALSE)
    BY <1>1, <1>7
  <2> DEFINE n == StartPage(e, FALSE)
  <2>2. /\ Core(n) /\ Looping(n) /\ Pending(n, None) # {} /\ n.tab.search = s.tab.search
        /\ Two(s) => One(n)
        /\ Pending(s, None) # {} => One(n) /\ (Two(s) => Two(n))
    BY <1>3, <1>4, <1>5, StartPageGood
  <2>3. QED
    BY <1>7, <2>1, <2>2
<1>8. QED
  BY <1>6, <1>7

(* Seeking: as a change of the anchor. *)
LEMMA SetSeekGood ==
  ASSUME NEW s, NEW seek, Good(s), One(s)
  PROVE LET n == SetSeek(s, seek)
        IN /\ Good(n) /\ n.tab.search = s.tab.search
           /\ (s.tab.search # None => n.tab.scanning)
           /\ Two(s) => One(n)
           /\ s.tab.search = None /\ Pending(s, None) # {} => One(n)
<1> DEFINE a == AbortScan(s)
           e == [a EXCEPT !.tab.seek = seek]
<1>1. SetSeek(s, seek) = Reanchored(e)
  BY DEF SetSeek
<1>2. /\ Core(a) /\ Looping(a) /\ DOMAIN a = DOMAIN s /\ a.tab = s.tab /\ a.era = s.era
      /\ \A i \in Slots : a.req[i].kind = s.req[i].kind
      /\ Pending(a, None) = Pending(s, None)
  BY AbortScanKeeps DEF Good
<1> HIDE DEF a
<1>3. /\ DOMAIN e = DOMAIN a /\ e.req = a.req /\ e.controller = a.controller /\ e.era = a.era
      /\ e.children = a.children /\ e.tab = [a.tab EXCEPT !.seek = seek]
  BY <1>2
<1> HIDE DEF e
<1>4. /\ DOMAIN e.tab = TabFields /\ e.tab.rows = s.tab.rows /\ e.tab.search = s.tab.search
      /\ e.tab.scanning = s.tab.scanning /\ e.tab.loading = s.tab.loading
      /\ e.tab.older = s.tab.older /\ e.tab.deep = s.tab.deep /\ e.tab.scope = s.tab.scope
  BY <1>2, <1>3 DEF Core, Shape
<1>5. Good(e)
  <2>1. e.tab.rows \in {a.tab.rows, <<>>} /\ DOMAIN e.children = DOMAIN a.children
    BY <1>2, <1>3, <1>4
  <2>2. /\ e.tab.scanning => a.tab.scanning
        /\ e.tab.loading => a.tab.loading
        /\ e.tab.older => a.tab.older
        /\ e.tab.deep => a.tab.deep
    BY <1>2, <1>4
  <2>3. Core(e) /\ Looping(e)
    BY <1>2, <1>3, <1>4, <2>1, <2>2, TabChange
  <2>4. QED
    BY <2>3 DEF Good
<1>6. /\ One(e) /\ (Two(s) => Two(e)) /\ Pending(e, None) = Pending(s, None)
  <2>1. Pending(e, None) = Pending(a, None)
    BY <1>2, <1>3, <1>4 DEF Pending
  <2>2. QED
    BY <1>2, <1>3, <2>1 DEF One, Two
<1>7. QED
  BY <1>1, <1>4, <1>5, <1>6, ReanchoredGood

(* Turning the walk round: as a change of the anchor, or nothing. *)
LEMMA SetDirectionGood ==
  ASSUME NEW s, NEW d, Good(s), Two(s)
  PROVE LET n == SetDirection(s, d)
        IN /\ Good(n) /\ One(n) /\ n.tab.search = s.tab.search
           /\ Two(n) \/ s.tab.search # None \/ Pending(n, None) # {}
<1> DEFINE a == AbortScan(s)
           e == [a EXCEPT !.tab.direction = d]
<1>1. SetDirection(s, d) = IF s.tab.direction = d THEN a ELSE Reanchored(e)
  BY DEF SetDirection
<1>2. /\ Core(a) /\ Looping(a) /\ DOMAIN a = DOMAIN s /\ a.tab = s.tab /\ a.era = s.era
      /\ \A i \in Slots : a.req[i].kind = s.req[i].kind
  BY AbortScanKeeps DEF Good
<1> HIDE DEF a
<1>3. /\ DOMAIN e = DOMAIN a /\ e.req = a.req /\ e.controller = a.controller /\ e.era = a.era
      /\ e.children = a.children /\ e.tab = [a.tab EXCEPT !.direction = d]
  BY <1>2
<1> HIDE DEF e
<1>4. /\ DOMAIN e.tab = TabFields /\ e.tab.rows = s.tab.rows /\ e.tab.search = s.tab.search
      /\ e.tab.scanning = s.tab.scanning /\ e.tab.loading = s.tab.loading
      /\ e.tab.older = s.tab.older /\ e.tab.deep = s.tab.deep
  BY <1>2, <1>3 DEF Core, Shape
<1>5. Good(e)
  <2>1. e.tab.rows \in {a.tab.rows, <<>>} /\ DOMAIN e.children = DOMAIN a.children
    BY <1>2, <1>3, <1>4
  <2>2. /\ e.tab.scanning => a.tab.scanning
        /\ e.tab.loading => a.tab.loading
        /\ e.tab.older => a.tab.older
        /\ e.tab.deep => a.tab.deep
    BY <1>2, <1>4
  <2>3. Core(e) /\ Looping(e)
    BY <1>2, <1>3, <1>4, <2>1, <2>2, TabChange
  <2>4. QED
    BY <2>3 DEF Good
<1>6. Two(a) /\ Two(e) /\ One(a) /\ One(e)
  BY <1>2, <1>3 DEF One, Two
<1>7. CASE s.tab.direction = d
  BY <1>1, <1>2, <1>6, <1>7 DEF Good
<1>8. CASE s.tab.direction # d
  BY <1>1, <1>4, <1>5, <1>6, <1>8, ReanchoredGood
<1>9. QED
  BY <1>7, <1>8

(* Without the loop nothing has to wait for a step. *)
LEMMA EndLoopGood ==
  ASSUME NEW s, Core(s)
  PROVE Good(EndLoop(s))
<1> DEFINE n == EndLoop(s)
<1>1. /\ DOMAIN n = DOMAIN s /\ n.req = s.req /\ n.controller = s.controller /\ n.era = s.era
      /\ n.children = s.children /\ n.tab = [s.tab EXCEPT !.deep = FALSE]
  BY DEF EndLoop
<1> HIDE DEF n
<1>2. /\ DOMAIN n.tab = TabFields /\ n.tab.rows \in {s.tab.rows, <<>>} /\ n.tab.deep = FALSE
      /\ n.tab.scanning = s.tab.scanning /\ n.tab.loading = s.tab.loading
      /\ n.tab.older = s.tab.older /\ DOMAIN n.children = DOMAIN s.children
  BY <1>1 DEF Core, Shape
<1>3. Core(n)
  BY <1>1, <1>2, TabChange
<1>4. QED
  BY <1>2, <1>3 DEF Good, Looping, n

(* The loop goes on with one request, or ends. *)
LEMMA LoopHeadGood ==
  ASSUME NEW s, Core(s), One(s)
  PROVE Good(LoopHead(s))
<1> DEFINE over == \/ s.tab.canceled \/ ~s.tab.more \/ s.tab.cursor = None \/ s.tab.error
                   \/ s.tab.limit \/ s.tab.scanning
<1>1. CASE over
  BY <1>1, EndLoopGood DEF LoopHead
<1>2. CASE ~over
  <2>1. LoopHead(s) = StartStep(s, FALSE, TRUE)
    BY <1>2 DEF LoopHead
  <2>2. Core(StartStep(s, FALSE, TRUE)) /\ Looping(StartStep(s, FALSE, TRUE))
    BY <1>2, StartStepGood
  <2>3. QED
    BY <2>1, <2>2 DEF Good
<1>3. QED
  BY <1>1, <1>2

(* So does the loop whose step is over; the others wait for none. *)
LEMMA LoopResumesGood ==
  ASSUME NEW s, NEW q, Core(s), One(s), q.loop \/ Looping(s)
  PROVE Good(LoopResumes(s, q))
BY EndLoopGood, LoopHeadGood DEF LoopResumes, Good

(* A request is over: nothing spins for it any more. *)
LEMMA RequestOver ==
  ASSUME NEW s, NEW n, NEW i \in Slots, Core(s),
         DOMAIN n = DOMAIN s, DOMAIN n.children = DOMAIN s.children, DOMAIN n.tab = TabFields,
         n.req = [s.req EXCEPT ![i] = Idle], n.era = s.era,
         n.controller = IF s.controller = i THEN None ELSE s.controller,
         n.tab.rows \in Seq({n.tab.rows[k] : k \in 1..Len(n.tab.rows)}),
         \A k \in 1..Len(n.tab.rows) : n.tab.rows[k].by \in {0, s.era},
         n.tab.scanning => s.tab.scanning /\ s.controller # i,
         n.tab.loading => s.tab.loading /\ s.req[i].kind # "page",
         n.tab.older => s.tab.older /\ s.req[i].kind # "older",
         n.tab.deep = s.tab.deep
  PROVE /\ Core(n) /\ One(n)
        /\ Looping(s) /\ ~(s.req[i].kind = "step" /\ s.req[i].loop) => Looping(n)
<1>1. /\ DOMAIN n.req = Slots /\ \A j \in Slots \ {i} : n.req[j] = s.req[j]
      /\ DOMAIN n.req[i] = ReqFields /\ n.req[i].kind = "idle" /\ n.req[i].phase = "idle"
  BY DEF Core, Shape, Idle, ReqFields
<1>2. Shape(n)
  BY <1>1 DEF Core, Shape
<1>3. Requests(n)
  BY <1>1 DEF Core, Requests
<1>4. Owner(n)
  BY <1>1 DEF Core, Owner
<1>5. Listed(n)
  BY DEF Listed
<1>6. Spinners(n)
  BY <1>1 DEF Core, Spinners
<1>7. One(n)
  BY <1>1 DEF One
<1>8. Looping(s) /\ ~(s.req[i].kind = "step" /\ s.req[i].loop) => Looping(n)
  BY <1>1 DEF Looping
<1>9. QED
  BY <1>2, <1>3, <1>4, <1>5, <1>6, <1>7, <1>8 DEF Core

(* A page arrives. *)
LEMMA PageLandsGood ==
  ASSUME NEW s, NEW i \in Slots, Good(s), s.req[i].kind = "page"
  PROVE Good(PageLands(s, i))
<1> DEFINE q == s.req[i]
           page == Fresh(<<>>, q.answer, 0)
           n == [Freed(s, i) EXCEPT
                   !.tab = [s.tab EXCEPT !.rows = page,
                              !.more = ReadMore(q.answer, q.view.direction),
                              !.cursor = q.answer.cursor, !.loading = FALSE],
                   !.of = q.view]
<1>1. PageLands(s, i) = IF q.mount THEN StartChildren(n) ELSE n
  BY DEF PageLands
<1>2. page \in Seq({page[k] : k \in 1..Len(page)}) /\ \A k \in 1..Len(page) : page[k].by = 0
  BY FreshIsTagged
<1> HIDE DEF page
<1>3. /\ DOMAIN n = DOMAIN s /\ n.children = s.children /\ n.controller = s.controller
      /\ n.era = s.era /\ n.req = [s.req EXCEPT ![i] = Idle]
      /\ n.tab = [s.tab EXCEPT !.rows = page, !.more = ReadMore(q.answer, q.view.direction),
                               !.cursor = q.answer.cursor, !.loading = FALSE]
  BY DEF Freed
<1> HIDE DEF n
<1>4. /\ DOMAIN n.tab = TabFields /\ n.tab.rows = page /\ n.tab.loading = FALSE
      /\ n.tab.scanning = s.tab.scanning /\ n.tab.older = s.tab.older
      /\ n.tab.deep = s.tab.deep
  BY <1>3 DEF Good, Core, Shape
<1>5. s.controller # i
  BY KafkaClientAssumption DEF Good, Core, Owner
<1>6. Good(n)
  <2>1. /\ DOMAIN n = DOMAIN s /\ DOMAIN n.children = DOMAIN s.children /\ n.era = s.era
        /\ n.req = [s.req EXCEPT ![i] = Idle]
        /\ n.controller = IF s.controller = i THEN None ELSE s.controller
    BY <1>3, <1>5
  <2>2. /\ n.tab.rows \in Seq({n.tab.rows[k] : k \in 1..Len(n.tab.rows)})
        /\ \A k \in 1..Len(n.tab.rows) : n.tab.rows[k].by \in {0, s.era}
    BY <1>2, <1>4
  <2>3. /\ n.tab.scanning => s.tab.scanning /\ s.controller # i
        /\ n.tab.loading => s.tab.loading /\ s.req[i].kind # "page"
        /\ n.tab.older => s.tab.older /\ s.req[i].kind # "older"
    BY <1>4, <1>5
  <2>4. Core(s) /\ Looping(s) /\ s.req[i].kind # "step"
    BY DEF Good
  <2>5. Core(n) /\ Looping(n)
    BY <1>4, <2>1, <2>2, <2>3, <2>4, RequestOver
  <2>6. QED
    BY <2>5 DEF Good
<1>7. QED
  BY <1>1, <1>6, StartChildrenGood

(* An older page arrives. *)
LEMMA OlderLandsGood ==
  ASSUME NEW s, NEW i \in Slots, Good(s), s.req[i].kind = "older"
  PROVE Good(OlderLands(s, i))
<1> DEFINE q == s.req[i]
           base == IF q.answer.recreated THEN <<>> ELSE s.tab.rows
           fresh == Fresh(base, q.answer, 0)
           page == base \o fresh
           n == OlderLands(s, i)
<1>1. page \in Seq({page[k] : k \in 1..Len(page)}) /\ \A k \in 1..Len(page) : page[k].by \in {0, s.era}
  <2>1. base \in Seq({base[k] : k \in 1..Len(base)}) /\ \A k \in 1..Len(base) : base[k].by \in {0, s.era}
    <3>1. <<>> \in Seq({<<>>[k] : k \in 1..Len(<<>>)}) /\ Len(<<>>) = 0
      OBVIOUS
    <3>2. CASE q.answer.recreated
      BY <3>1, <3>2
    <3>3. CASE ~q.answer.recreated
      BY <3>3 DEF Good, Core, Listed
    <3>4. QED
      BY <3>2, <3>3
  <2> HIDE DEF base
  <2>2. fresh \in Seq({fresh[k] : k \in 1..Len(fresh)}) /\ \A k \in 1..Len(fresh) : fresh[k].by = 0
    BY FreshIsTagged
  <2> HIDE DEF fresh
  <2>3. QED
    BY <2>1, <2>2, AppendedIsTagged
<1>2. n = [Freed(s, i) EXCEPT
             !.tab = [s.tab EXCEPT !.rows = page, !.more = ReadMore(q.answer, q.view.direction),
                        !.cursor = q.answer.cursor, !.older = FALSE],
             !.of = IF q.answer.recreated THEN q.view ELSE ReadFor(q.view, s)]
  BY DEF OlderLands
<1> HIDE DEF page, n
<1>3. /\ DOMAIN n = DOMAIN s /\ n.children = s.children /\ n.controller = s.controller
      /\ n.era = s.era /\ n.req = [s.req EXCEPT ![i] = Idle]
      /\ n.tab = [s.tab EXCEPT !.rows = page, !.more = ReadMore(q.answer, q.view.direction),
                               !.cursor = q.answer.cursor, !.older = FALSE]
  BY <1>2 DEF Freed
<1>4. /\ DOMAIN n.tab = TabFields /\ n.tab.rows = page /\ n.tab.loading = s.tab.loading
      /\ n.tab.scanning = s.tab.scanning /\ n.tab.older = FALSE /\ n.tab.deep = s.tab.deep
  BY <1>3 DEF Good, Core, Shape
<1>5. s.controller # i
  BY KafkaClientAssumption DEF Good, Core, Owner
<1>6. /\ DOMAIN n = DOMAIN s /\ DOMAIN n.children = DOMAIN s.children /\ n.era = s.era
      /\ n.req = [s.req EXCEPT ![i] = Idle]
      /\ n.controller = IF s.controller = i THEN None ELSE s.controller
  BY <1>3, <1>5
<1>7. Core(n) /\ Looping(n)
  <2>1. /\ n.tab.rows \in Seq({n.tab.rows[k] : k \in 1..Len(n.tab.rows)})
        /\ \A k \in 1..Len(n.tab.rows) : n.tab.rows[k].by \in {0, s.era}
    BY <1>1, <1>4
  <2>2. /\ n.tab.scanning => s.tab.scanning /\ s.controller # i
        /\ n.tab.loading => s.tab.loading /\ s.req[i].kind # "page"
        /\ n.tab.older => s.tab.older /\ s.req[i].kind # "older"
    BY <1>4, <1>5
  <2>3. Core(s) /\ Looping(s) /\ s.req[i].kind # "step"
    BY DEF Good
  <2>4. QED
    BY <1>4, <1>6, <2>1, <2>2, <2>3, RequestOver
<1>8. QED
  BY <1>7 DEF Good, n

(* A superseded step is over and leaves the tab alone. *)
LEMMA SupersededStepIsOver ==
  ASSUME NEW s, NEW i \in Slots, Good(s), s.req[i].kind = "step", s.controller # i
  PROVE LET n == Finally(s, i)
        IN Core(n) /\ One(n) /\ (~s.req[i].loop => Looping(n))
<1> DEFINE n == Finally(s, i)
<1>1. /\ DOMAIN n = DOMAIN s /\ n.children = s.children /\ n.tab = s.tab /\ n.era = s.era
      /\ n.req = [s.req EXCEPT ![i] = Idle]
      /\ n.controller = IF s.controller = i THEN None ELSE s.controller
  BY DEF Finally, Freed
<1> HIDE DEF n
<1>2. DOMAIN n.children = DOMAIN s.children /\ DOMAIN n.tab = TabFields
  BY <1>1 DEF Good, Core, Shape
<1>3. /\ n.tab.rows \in Seq({n.tab.rows[k] : k \in 1..Len(n.tab.rows)})
      /\ \A k \in 1..Len(n.tab.rows) : n.tab.rows[k].by \in {0, s.era}
  BY <1>1 DEF Good, Core, Listed
<1>4. /\ n.tab.scanning => s.tab.scanning /\ s.controller # i
      /\ n.tab.loading => s.tab.loading /\ s.req[i].kind # "page"
      /\ n.tab.older => s.tab.older /\ s.req[i].kind # "older"
      /\ n.tab.deep = s.tab.deep
  BY <1>1
<1>5. Core(s) /\ Looping(s)
  BY DEF Good
<1>6. QED
  BY <1>1, <1>2, <1>3, <1>4, <1>5, RequestOver DEF n

(* The step that owns the scan is over: whatever it made of the list, the scan
   is not running and has no owner. *)
LEMMA CurrentStepIsOver ==
  ASSUME NEW s, NEW i \in Slots, NEW t, NEW o, Good(s), s.req[i].kind = "step",
         s.controller = i, DOMAIN t = TabFields, t.scanning = FALSE,
         t.loading = s.tab.loading, t.older = s.tab.older, t.deep = s.tab.deep,
         t.rows \in Seq({t.rows[k] : k \in 1..Len(t.rows)}),
         \A k \in 1..Len(t.rows) : t.rows[k].by \in {0, s.era}
  PROVE LET n == [Finally(s, i) EXCEPT !.tab = t, !.of = o]
        IN Core(n) /\ One(n) /\ (~s.req[i].loop => Looping(n))
<1> DEFINE n == [Finally(s, i) EXCEPT !.tab = t, !.of = o]
<1>1. /\ DOMAIN n = DOMAIN s /\ n.children = s.children /\ n.tab = t /\ n.era = s.era
      /\ n.req = [s.req EXCEPT ![i] = Idle]
      /\ n.controller = IF s.controller = i THEN None ELSE s.controller
  BY DEF Finally, Freed
<1> HIDE DEF n
<1>2. DOMAIN n.children = DOMAIN s.children /\ DOMAIN n.tab = TabFields
  BY <1>1
<1>3. /\ n.tab.rows \in Seq({n.tab.rows[k] : k \in 1..Len(n.tab.rows)})
      /\ \A k \in 1..Len(n.tab.rows) : n.tab.rows[k].by \in {0, s.era}
  BY <1>1
<1>4. /\ n.tab.scanning => s.tab.scanning /\ s.controller # i
      /\ n.tab.loading => s.tab.loading /\ s.req[i].kind # "page"
      /\ n.tab.older => s.tab.older /\ s.req[i].kind # "older"
      /\ n.tab.deep = s.tab.deep
  BY <1>1
<1>5. Core(s) /\ Looping(s)
  BY DEF Good
<1>6. /\ Core(n) /\ One(n)
      /\ Looping(s) /\ ~(s.req[i].kind = "step" /\ s.req[i].loop) => Looping(n)
  BY <1>1, <1>2, <1>3, <1>4, <1>5, RequestOver
<1>7. QED
  BY <1>5, <1>6 DEF n

(* A step arrives. *)
LEMMA StepLandsGood ==
  ASSUME NEW s, NEW i \in Slots, Good(s), s.req[i].kind = "step"
  PROVE LET n == StepLands(s, i)
        IN Core(n) /\ One(n) /\ (~s.req[i].loop => Looping(n))
<1>1. CASE s.controller # i
  BY <1>1, SupersededStepIsOver DEF StepLands, IsCurrentStep
<1>2. CASE s.controller = i
  <2> DEFINE q == s.req[i]
             base == IF q.reset THEN <<>> ELSE s.tab.rows
             fresh == Fresh(base, q.answer, q.era)
             merged == base \o fresh
             left == ReadMore(q.answer, q.view.direction)
             cut == IF Len(merged) > MaxMatches THEN MaxMatches ELSE Len(merged)
             page == SubSeq(merged, 1, cut)
             t == [s.tab EXCEPT
                     !.rows = page,
                     !.partial = q.answer.partial, !.limit = LimitReached(merged, left),
                     !.more = left, !.cursor = q.answer.cursor, !.scanning = FALSE]
             o == IF q.reset THEN q.view ELSE ReadFor(q.view, s)
  <2>1. q.era = s.era
    BY <1>2, KafkaClientAssumption DEF Good, Core, Owner
  <2>2. /\ merged \in Seq({merged[k] : k \in 1..Len(merged)})
        /\ \A k \in 1..Len(merged) : merged[k].by \in {0, s.era}
    <3>1. /\ base \in Seq({base[k] : k \in 1..Len(base)})
          /\ \A k \in 1..Len(base) : base[k].by \in {0, s.era}
      <4>1. <<>> \in Seq({<<>>[k] : k \in 1..Len(<<>>)}) /\ Len(<<>>) = 0
        OBVIOUS
      <4>2. CASE q.reset
        BY <4>1, <4>2
      <4>3. CASE ~q.reset
        BY <4>3 DEF Good, Core, Listed
      <4>4. QED
        BY <4>2, <4>3
    <3> HIDE DEF base
    <3>2. /\ fresh \in Seq({fresh[k] : k \in 1..Len(fresh)})
          /\ \A k \in 1..Len(fresh) : fresh[k].by = s.era
      <4>1. fresh = Fresh(base, q.answer, s.era)
        BY <2>1
      <4> HIDE DEF fresh, q
      <4>2. QED
        BY <4>1, FreshIsTagged
    <3> HIDE DEF fresh
    <3>3. QED
      BY <3>1, <3>2, AppendedIsTagged
  <2> HIDE DEF merged
  <2>3. page \in Seq({page[k] : k \in 1..Len(page)}) /\ \A k \in 1..Len(page) : page[k].by \in {0, s.era}
    <3>1. cut \in Nat /\ cut <= Len(merged)
      BY <2>2, KafkaClientAssumption
    <3> HIDE DEF cut
    <3>2. QED
      BY <2>2, <3>1, CutIsTagged
  <2> HIDE DEF page
  <2>4. /\ DOMAIN t = TabFields /\ t.scanning = FALSE /\ t.rows = page
        /\ t.loading = s.tab.loading /\ t.older = s.tab.older /\ t.deep = s.tab.deep
    BY DEF Good, Core, Shape
  <2>5. StepLands(s, i) = [Finally(s, i) EXCEPT !.tab = t, !.of = o]
    BY <1>2 DEF StepLands, IsCurrentStep, merged, page
  <2> HIDE DEF t, o
  <2> DEFINE n == [Finally(s, i) EXCEPT !.tab = t, !.of = o]
  <2>6. /\ t.rows \in Seq({t.rows[k] : k \in 1..Len(t.rows)})
        /\ \A k \in 1..Len(t.rows) : t.rows[k].by \in {0, s.era}
    BY <2>3, <2>4
  <2>7. Core(n) /\ One(n) /\ (~s.req[i].loop => Looping(n))
    BY <1>2, <2>4, <2>6, CurrentStepIsOver
  <2>8. QED
    BY <2>5, <2>7
<1>3. QED
  BY <1>1, <1>2

(* A step fails, or was aborted. *)
LEMMA StepFailsGood ==
  ASSUME NEW s, NEW i \in Slots, NEW aborted, Good(s), s.req[i].kind = "step"
  PROVE LET n == StepFails(s, i, aborted)
        IN Core(n) /\ One(n) /\ (~s.req[i].loop => Looping(n))
<1>1. CASE s.controller # i
  BY <1>1, SupersededStepIsOver DEF StepFails, IsCurrentStep
<1>2. CASE s.controller = i
  <2> DEFINE t == [s.tab EXCEPT !.scanning = FALSE, !.error = IF aborted THEN s.tab.error ELSE TRUE]
  <2>1. /\ DOMAIN t = TabFields /\ t.scanning = FALSE /\ t.rows = s.tab.rows
        /\ t.loading = s.tab.loading /\ t.older = s.tab.older /\ t.deep = s.tab.deep
    BY DEF Good, Core, Shape
  <2>2. /\ t.rows \in Seq({t.rows[k] : k \in 1..Len(t.rows)})
        /\ \A k \in 1..Len(t.rows) : t.rows[k].by \in {0, s.era}
    BY <2>1 DEF Good, Core, Listed
  <2>3. StepFails(s, i, aborted) = [Finally(s, i) EXCEPT !.tab = t]
    BY <1>2 DEF StepFails, IsCurrentStep
  <2>4. [Finally(s, i) EXCEPT !.tab = t] = [Finally(s, i) EXCEPT !.tab = t, !.of = s.of]
    BY DEF Finally, Freed
  <2> HIDE DEF t
  <2> DEFINE n == [Finally(s, i) EXCEPT !.tab = t, !.of = s.of]
  <2>5. Core(n) /\ One(n) /\ (~s.req[i].loop => Looping(n))
    BY <1>2, <2>1, <2>2, CurrentStepIsOver
  <2>6. QED
    BY <2>3, <2>4, <2>5
<1>3. QED
  BY <1>1, <1>2

(* What a handler leaves is as good as what it computed. *)
LEMMA BecomesGood ==
  ASSUME NEW s, Good(s), Becomes(s)
  PROVE IInv'
<1>1. /\ DOMAIN State' = DOMAIN s /\ State'.tab = s.tab /\ State'.req = s.req
      /\ State'.controller = s.controller /\ State'.children = s.children /\ State'.era = s.era
  BY DEF Becomes, State, Good, Core, Shape
<1>2. Shape(State)' /\ Requests(State)' /\ Owner(State)' /\ Listed(State)'
  BY <1>1 DEF Good, Core, Shape, Requests, Owner, Listed
<1>3. Spinners(State)' /\ Looping(State)'
  BY <1>1 DEF Good, Core, Spinners, Looping
<1>4. QED
  BY <1>2, <1>3 DEF IInv, Good, Core

(* The variables are what a handler works on. *)
LEMMA StateIsTheVariables ==
  /\ State.tab = tab /\ State.req = req /\ State.controller = controller
  /\ State.children = children /\ State.era = era
BY DEF State

LEMMA RoomIsOne == Room => One(State)
BY RoomIsTwo DEF One, Two

LEMMA InitIInv == Init => IInv
<1> SUFFICES ASSUME Init PROVE Good(State)
  BY DEF IInv
<1>1. Shape(State) /\ Requests(State)
  BY DEF Init, State, Shape, Requests, NewTab, Idle, TabFields, ReqFields
<1>2. Owner(State) /\ Spinners(State) /\ Looping(State)
  BY DEF Init, State, Owner, Spinners, Looping, NewTab
<1>3. Listed(State)
  <2>1. <<>> \in Seq({<<>>[k] : k \in 1..Len(<<>>)}) /\ Len(<<>>) = 0
    OBVIOUS
  <2>2. State.tab.rows = <<>>
    BY DEF Init, State, NewTab
  <2>3. QED
    BY <2>1, <2>2 DEF Listed
<1>4. QED
  BY <1>1, <1>2, <1>3 DEF Good, Core

(* Showing the tab reads it: the topic's list, or of a search only its
   partitions and groups. *)
LEMMA MountEffectGood ==
  ASSUME NEW s, Good(s), s.tab.search # None \/ One(s)
  PROVE Good(MountEffect(s))
BY StartChildrenGood, StartPageGood DEF MountEffect, Good

LEMMA MountPreserves == IInv /\ Mount => IInv'
BY RoomIsOne, MountEffectGood, BecomesGood DEF Mount, IInv

LEMMA LeavePreserves == IInv /\ Leave => IInv'
BY DEF Leave, IInv, State

LEMMA RefreshMessagesPreserves == IInv /\ RefreshMessages => IInv'
BY RoomIsOne, RefreshedGood, BecomesGood DEF RefreshMessages, Browsing, Gesture, IInv

LEMMA RefreshAllPreserves == IInv /\ RefreshAll => IInv'
BY RoomIsOne, StartChildrenGood, RefreshedGood, BecomesGood DEF RefreshAll, Browsing, Gesture,
   IInv

LEMMA ProducedPreserves == IInv /\ Produced => IInv'
BY RoomIsOne, StartChildrenGood, RefreshedGood, BecomesGood DEF Produced, Browsing, Gesture, IInv

LEMMA LoadOlderPreserves == IInv /\ LoadOlder => IInv'
BY RoomIsOne, StartOlderGood, BecomesGood DEF LoadOlder, Browsing, Gesture, IInv

(* A change of the tab that ends the search and reads a page in its place. *)
LEMMA PageInsteadGood ==
  ASSUME NEW s, NEW t, Good(s), One(s), DOMAIN t = TabFields, t.rows = <<>>,
         t.scanning = FALSE, t.deep = FALSE, t.loading = s.tab.loading, t.older = s.tab.older
  PROVE Good(StartPage([AbortScan(s) EXCEPT !.tab = t, !.of = None], FALSE))
<1> DEFINE a == AbortScan(s)
           e == [a EXCEPT !.tab = t, !.of = None]
<1>1. /\ Core(a) /\ DOMAIN a = DOMAIN s /\ a.tab = s.tab
      /\ \A i \in Slots : a.req[i].kind = s.req[i].kind
  BY AbortScanKeeps DEF Good
<1> HIDE DEF a
<1>2. /\ DOMAIN e = DOMAIN a /\ e.req = a.req /\ e.controller = a.controller /\ e.era = a.era
      /\ e.children = a.children /\ e.tab = t
  BY <1>1
<1> HIDE DEF e
<1>3. /\ DOMAIN e.children = DOMAIN a.children /\ DOMAIN e.tab = TabFields
      /\ e.tab.rows \in {a.tab.rows, <<>>}
      /\ e.tab.scanning => a.tab.scanning
      /\ e.tab.loading => a.tab.loading
      /\ e.tab.older => a.tab.older
  BY <1>1, <1>2
<1>4. Core(e)
  BY <1>1, <1>2, <1>3, TabChange
<1>5. Looping(e) /\ One(e)
  BY <1>1, <1>2 DEF Looping, One
<1>6. Good(StartPage(e, FALSE))
  BY <1>4, <1>5, StartPageGood DEF Good
<1>7. QED
  BY <1>6 DEF e, a

LEMMA SetPartitionFilterPreserves ==
  ASSUME IInv, NEW scope, SetPartitionFilter(scope)
  PROVE IInv'
<1> DEFINE t == [Emptied(tab) EXCEPT !.scope = scope, !.filter = None, !.search = None,
                                    !.deep = FALSE, !.canceled = FALSE]
<1>1. /\ DOMAIN t = TabFields /\ t.rows = <<>> /\ t.scanning = FALSE /\ t.deep = FALSE
      /\ t.loading = State.tab.loading /\ t.older = State.tab.older
  BY StateIsTheVariables DEF IInv, Good, Core, Shape, TabFields, Emptied
<1>2. Becomes(StartPage([AbortScan(State) EXCEPT !.tab = t, !.of = None], FALSE)) /\ Room
  BY DEF SetPartitionFilter, Browsing, Gesture
<1> HIDE DEF t
<1>3. QED
  BY <1>1, <1>2, RoomIsOne, PageInsteadGood, BecomesGood DEF IInv

LEMMA ClearSearchPreserves == IInv /\ ClearSearch => IInv'
<1> SUFFICES ASSUME IInv, ClearSearch PROVE IInv'
  OBVIOUS
<1> DEFINE t == [Emptied(tab) EXCEPT !.search = None, !.canceled = FALSE, !.deep = FALSE]
<1>1. /\ DOMAIN t = TabFields /\ t.rows = <<>> /\ t.scanning = FALSE /\ t.deep = FALSE
      /\ t.loading = State.tab.loading /\ t.older = State.tab.older
  BY StateIsTheVariables DEF IInv, Good, Core, Shape, TabFields, Emptied
<1>2. Becomes(StartPage([AbortScan(State) EXCEPT !.tab = t, !.of = None], FALSE)) /\ Room
  BY DEF ClearSearch, Browsing, Gesture
<1> HIDE DEF t
<1>3. QED
  BY <1>1, <1>2, RoomIsOne, PageInsteadGood, BecomesGood DEF IInv

LEMMA ApplySeekPreserves ==
  ASSUME IInv, NEW seek, ApplySeek(seek)
  PROVE IInv'
BY RoomIsOne, SetSeekGood, BecomesGood DEF ApplySeek, Browsing, Gesture, IInv

LEMMA ApplyDirectionPreserves ==
  ASSUME IInv, NEW d, ApplyDirection(d)
  PROVE IInv'
BY RoomIsTwo, SetDirectionGood, BecomesGood DEF ApplyDirection, Browsing, Gesture, IInv

(* The filter of the loaded rows hides rows, and changes none. *)
LEMMA LoadedFilterPreserves ==
  ASSUME IInv, NEW c, Becomes([State EXCEPT !.tab.filter = c])
  PROVE IInv'
<1> DEFINE n == [State EXCEPT !.tab.filter = c]
<1>1. /\ DOMAIN n = DOMAIN State /\ n.req = State.req /\ n.controller = State.controller
      /\ n.era = State.era /\ n.children = State.children
      /\ n.tab = [State.tab EXCEPT !.filter = c]
  OBVIOUS
<1> HIDE DEF n
<1>2. /\ DOMAIN n.tab = TabFields /\ n.tab.rows \in {State.tab.rows, <<>>}
      /\ n.tab.scanning = State.tab.scanning /\ n.tab.loading = State.tab.loading
      /\ n.tab.older = State.tab.older /\ n.tab.deep = State.tab.deep
      /\ DOMAIN n.children = DOMAIN State.children
  BY <1>1 DEF IInv, Good, Core, Shape
<1>3. Core(n) /\ Looping(n)
  BY <1>1, <1>2, TabChange DEF IInv, Good
<1>4. QED
  BY <1>3, BecomesGood DEF Good, n

(* Of the two requests that turning the walk round, seeking and searching would
   send, the search needs none when they left a step running, and the turn and
   the seek share a page otherwise. *)
LEMMA StartSearchPreserves ==
  ASSUME IInv, NEW c, NEW anchor, StartSearch(c, anchor)
  PROVE IInv'
<1>1. Good(State) /\ Two(State) /\ One(State)
  BY RoomIsTwo, RoomIsOne DEF StartSearch, Browsing, Gesture, IInv
<1>2. CASE anchor = None
  <2>1. Good(SearchTopic(State, c))
    BY <1>1, SearchTopicGood
  <2>2. QED
    BY <1>2, <2>1, BecomesGood DEF StartSearch
<1>3. CASE anchor # None
  <2> DEFINE u == SetDirection(State, "oldest")
             v == SetSeek(u, anchor)
  <2>1. /\ Good(u) /\ One(u) /\ u.tab.search = State.tab.search
        /\ Two(u) \/ u.tab.search # None \/ Pending(u, None) # {}
    BY <1>1, SetDirectionGood
  <2> HIDE DEF u
  <2>2. Good(v) /\ (v.tab.scanning \/ One(v))
    BY <2>1, SetSeekGood
  <2> HIDE DEF v
  <2>3. Good(SearchTopic(v, c))
    BY <2>2, SearchTopicGood
  <2>4. QED
    BY <1>3, <2>3, BecomesGood DEF StartSearch, u, v
<1>4. QED
  BY <1>2, <1>3

LEMMA LinkJumpPreserves ==
  ASSUME IInv, NEW c \in Conditions, LinkJump(c)
  PROVE IInv'
<1> DEFINE s == SearchTopic(State, c)
<1>1. Good(s) /\ s.tab.search # None
  BY RoomIsOne, SearchTopicGood, KafkaClientAssumption DEF LinkJump, Gesture, IInv
<1>2. Becomes(IF mounted THEN s ELSE MountEffect(s))
  BY DEF LinkJump
<1> HIDE DEF s
<1>3. QED
  BY <1>1, <1>2, MountEffectGood, BecomesGood

LEMMA ScanMorePreserves == IInv /\ ScanMore => IInv'
<1> SUFFICES ASSUME IInv, ScanMore PROVE IInv'
  OBVIOUS
<1>1. Core(State) /\ Looping(State) /\ One(State)
  BY RoomIsOne DEF IInv, Good, ScanMore, Browsing, Gesture
<1>2. Good(StartStep(State, FALSE, FALSE))
  BY <1>1, StartStepGood DEF Good
<1>3. QED
  BY <1>2, BecomesGood DEF ScanMore

LEMMA ScanAllPreserves == IInv /\ ScanAll => IInv'
<1> SUFFICES ASSUME IInv, ScanAll PROVE IInv'
  OBVIOUS
<1> DEFINE n == [State EXCEPT !.tab.deep = TRUE, !.tab.canceled = FALSE]
<1>1. /\ DOMAIN n = DOMAIN State /\ n.req = State.req /\ n.controller = State.controller
      /\ n.era = State.era /\ n.children = State.children
      /\ n.tab = [State.tab EXCEPT !.deep = TRUE, !.canceled = FALSE]
  OBVIOUS
<1>2. Becomes(LoopHead(n)) /\ One(State)
  BY RoomIsOne DEF ScanAll, Browsing, Gesture
<1> HIDE DEF n
<1>3. /\ DOMAIN n.tab = TabFields /\ n.tab.rows \in {State.tab.rows, <<>>}
      /\ n.tab.scanning = State.tab.scanning /\ n.tab.loading = State.tab.loading
      /\ n.tab.older = State.tab.older
      /\ DOMAIN n.children = DOMAIN State.children
  BY <1>1 DEF IInv, Good, Core, Shape
<1>4. Core(n) /\ One(n)
  <2>1. Core(n)
    BY <1>1, <1>3, TabChange DEF IInv, Good
  <2>2. One(n)
    BY <1>1, <1>2 DEF One
  <2>3. QED
    BY <2>1, <2>2
<1>5. QED
  BY <1>2, <1>4, LoopHeadGood, BecomesGood

(* Cancelling stops the spinner at once, whatever the request does. *)
LEMMA CancelPreserves == IInv /\ Cancel => IInv'
<1> SUFFICES ASSUME IInv, Cancel PROVE IInv'
  OBVIOUS
<1> DEFINE a == AbortScan(State)
           n == CancelScan(State)
           m == CancelScanAll(State)
<1>1. Core(a) /\ Looping(a)
  BY AbortScanKeeps DEF IInv, Good
<1>2. n = [a EXCEPT !.tab.scanning = FALSE] /\ m = [n EXCEPT !.tab.canceled = TRUE]
  BY DEF CancelScan, CancelScanAll
<1>3. Becomes(m) \/ Becomes(n)
  BY DEF Cancel
<1> HIDE DEF a, n, m
<1>4. /\ DOMAIN n = DOMAIN a /\ n.req = a.req /\ n.controller = a.controller
      /\ n.era = a.era /\ n.children = a.children
      /\ n.tab = [a.tab EXCEPT !.scanning = FALSE]
  BY <1>1, <1>2
<1>5. /\ DOMAIN n.tab = TabFields /\ n.tab.rows \in {a.tab.rows, <<>>}
      /\ n.tab.scanning = FALSE /\ n.tab.loading = a.tab.loading
      /\ n.tab.older = a.tab.older /\ n.tab.deep = a.tab.deep
      /\ DOMAIN n.children = DOMAIN a.children
  BY <1>1, <1>4 DEF Core, Shape
<1>6. Core(n) /\ Looping(n)
  BY <1>1, <1>4, <1>5, TabChange
<1>7. /\ DOMAIN m = DOMAIN n /\ m.req = n.req /\ m.controller = n.controller
      /\ m.era = n.era /\ m.children = n.children
      /\ m.tab = [n.tab EXCEPT !.canceled = TRUE]
  BY <1>2, <1>6
<1>8. /\ DOMAIN m.tab = TabFields /\ m.tab.rows \in {n.tab.rows, <<>>}
      /\ m.tab.scanning = n.tab.scanning /\ m.tab.loading = n.tab.loading
      /\ m.tab.older = n.tab.older /\ m.tab.deep = n.tab.deep
      /\ DOMAIN m.children = DOMAIN n.children
  BY <1>6, <1>7 DEF Core, Shape
<1>9. Core(m) /\ Looping(m)
  BY <1>6, <1>7, <1>8, TabChange
<1>10. QED
  BY <1>3, <1>6, <1>9, BecomesGood DEF Good

(* The headers of an answer: the request is under way until its body is read. *)
LEMMA AnswerPreserves ==
  ASSUME IInv, NEW i \in Slots, NEW answer, req[i].phase = "sent",
         req' = [req EXCEPT ![i] = [@ EXCEPT !.phase = "body", !.answer = answer]],
         UNCHANGED <<tab, controller, children, era, of>>
  PROVE IInv'
<1>1. /\ DOMAIN req' = Slots /\ \A j \in Slots : DOMAIN req'[j] = ReqFields
      /\ \A j \in Slots : /\ req'[j].kind = req[j].kind /\ req'[j].era = req[j].era
                          /\ req'[j].loop = req[j].loop
                          /\ \/ req'[j].phase = req[j].phase
                             \/ j = i /\ req'[j].phase = "body"
  BY StateIsTheVariables DEF IInv, Good, Core, Shape
<1>2. Shape(State)' /\ Requests(State)'
  BY <1>1 DEF IInv, Good, Core, Shape, Requests, State
<1>3. Owner(State)' /\ Listed(State)'
  BY <1>1 DEF IInv, Good, Core, Owner, Listed, State
<1>4. Spinners(State)' /\ Looping(State)'
  BY <1>1 DEF IInv, Good, Core, Spinners, Looping, State
<1>5. QED
  BY <1>2, <1>3, <1>4 DEF IInv, Good, Core

LEMMA RespondPreserves ==
  ASSUME IInv, NEW i \in Slots, Respond(i) \/ RespondRecreated(i)
  PROVE IInv'
BY AnswerPreserves DEF Respond, RespondRecreated

LEMMA LandPreserves ==
  ASSUME IInv, NEW i \in Slots, Land(i)
  PROVE IInv'
<1>1. Good(State) /\ State.req[i].kind \in {"page", "older", "step"} /\ State.req = req
  BY StateIsTheVariables DEF Land, IInv, Good, Core, Requests
<1>2. CASE req[i].kind = "page"
  BY <1>1, <1>2, PageLandsGood, BecomesGood DEF Land
<1>3. CASE req[i].kind = "older"
  BY <1>1, <1>3, OlderLandsGood, BecomesGood DEF Land
<1>4. CASE req[i].kind = "step"
  <2> DEFINE n == StepLands(State, i)
  <2>1. Core(n) /\ One(n) /\ (req[i].loop \/ Looping(n))
    BY <1>1, <1>4, StepLandsGood
  <2>2. Becomes(LoopResumes(n, req[i]))
    BY <1>4 DEF Land
  <2> HIDE DEF n
  <2>3. QED
    BY <2>1, <2>2, LoopResumesGood, BecomesGood
<1>5. QED
  BY <1>1, <1>2, <1>3, <1>4

LEMMA AbortLandsPreserves ==
  ASSUME IInv, NEW i \in Slots, AbortLands(i)
  PROVE IInv'
<1> DEFINE n == StepFails(State, i, TRUE)
<1>1. Core(n) /\ One(n) /\ (req[i].loop \/ Looping(n))
  <2>1. Good(State) /\ State.req[i].kind = "step" /\ State.req = req
    BY StateIsTheVariables DEF AbortLands, IInv, Good, Core, Requests
  <2>2. QED
    BY <2>1, StepFailsGood
<1>2. Becomes(LoopResumes(n, req[i]))
  BY DEF AbortLands
<1> HIDE DEF n
<1>3. QED
  BY <1>1, <1>2, LoopResumesGood, BecomesGood

(* A page or an older page fails: what spun for it stops. *)
LEMMA FailsPreserves ==
  ASSUME IInv, NEW i \in Slots, Fails(i)
  PROVE IInv'
<1> DEFINE q == req[i]
           t == [tab EXCEPT !.error = TRUE,
                   !.loading = IF q.kind = "page" THEN FALSE ELSE tab.loading,
                   !.older = IF q.kind = "older" THEN FALSE ELSE tab.older]
           n == [Freed(State, i) EXCEPT !.tab = t]
           m == StepFails(State, i, FALSE)
<1>1. /\ Good(State) /\ State.req[i].kind \in {"page", "older", "step"}
      /\ State.req = req /\ State.tab = tab
  BY StateIsTheVariables DEF Fails, IInv, Good, Core, Requests
<1>2. Becomes(IF q.kind = "step" THEN LoopResumes(m, q)
              ELSE IF q.mount THEN StartChildren(n) ELSE n)
  BY DEF Fails
<1>3. CASE q.kind = "step"
  <2>1. Core(m) /\ One(m) /\ (q.loop \/ Looping(m))
    BY <1>1, <1>3, StepFailsGood
  <2> HIDE DEF m
  <2>2. QED
    BY <1>2, <1>3, <2>1, LoopResumesGood, BecomesGood
<1>4. CASE q.kind # "step"
  <2>1. /\ DOMAIN t = TabFields /\ t.rows = State.tab.rows
        /\ t.loading = (IF q.kind = "page" THEN FALSE ELSE State.tab.loading)
        /\ t.older = (IF q.kind = "older" THEN FALSE ELSE State.tab.older)
        /\ t.scanning = State.tab.scanning /\ t.deep = State.tab.deep
    BY <1>1 DEF Good, Core, Shape
  <2> HIDE DEF t
  <2>2. State.controller # i
    BY <1>1, <1>4, KafkaClientAssumption DEF Good, Core, Owner
  <2>3. /\ DOMAIN n = DOMAIN State /\ DOMAIN n.children = DOMAIN State.children
        /\ n.era = State.era /\ n.req = [State.req EXCEPT ![i] = Idle] /\ n.tab = t
        /\ n.controller = IF State.controller = i THEN None ELSE State.controller
    BY <2>2 DEF Freed
  <2> HIDE DEF n
  <2>4. /\ n.tab.rows \in Seq({n.tab.rows[k] : k \in 1..Len(n.tab.rows)})
        /\ \A k \in 1..Len(n.tab.rows) : n.tab.rows[k].by \in {0, State.era}
    <3>1. n.tab.rows = State.tab.rows
      BY <2>1, <2>3
    <3>2. Listed(State)
      BY <1>1 DEF Good, Core
    <3>3. QED
      BY <3>1, <3>2 DEF Listed
  <2>5. /\ DOMAIN n.tab = TabFields
        /\ n.tab.scanning => State.tab.scanning /\ State.controller # i
        /\ n.tab.loading => State.tab.loading /\ State.req[i].kind # "page"
        /\ n.tab.older => State.tab.older /\ State.req[i].kind # "older"
        /\ n.tab.deep = State.tab.deep
    BY <1>1, <2>1, <2>2, <2>3
  <2>6. Core(State) /\ Looping(State) /\ State.req[i].kind # "step"
    BY <1>1, <1>4 DEF Good
  <2>7. Core(n) /\ Looping(n)
    BY <2>3, <2>4, <2>5, <2>6, RequestOver
  <2>8. QED
    BY <1>2, <1>4, <2>7, StartChildrenGood, BecomesGood DEF Good
<1>5. QED
  BY <1>3, <1>4

LEMMA ChildrenLandPreserves == IInv /\ ChildrenLand => IInv'
<1> SUFFICES ASSUME IInv, ChildrenLand PROVE IInv'
  OBVIOUS
<1>1. DOMAIN children' = DOMAIN children /\ UNCHANGED <<tab, req, controller, era>>
  BY DEF ChildrenLand
<1>2. QED
  BY <1>1 DEF IInv, State, Good, Core, Shape, Requests, Owner, Listed, Spinners, Looping

LEMMA RetryChildrenPreserves == IInv /\ RetryChildren => IInv'
BY StartChildrenGood, BecomesGood DEF RetryChildren, IInv

LEMMA StutterPreserves == IInv /\ UNCHANGED vars => IInv'
BY DEF vars, clientVars, IInv, State

LEMMA NextPreserves == IInv /\ [Next]_vars => IInv'
<1> SUFFICES ASSUME IInv, [Next]_vars PROVE IInv'
  OBVIOUS
<1>1. CASE Mount
  BY <1>1, MountPreserves
<1>2. CASE Leave
  BY <1>2, LeavePreserves
<1>3. CASE RefreshMessages
  BY <1>3, RefreshMessagesPreserves
<1>4. CASE RefreshAll
  BY <1>4, RefreshAllPreserves
<1>5. CASE Produced
  BY <1>5, ProducedPreserves
<1>6. CASE LoadOlder
  BY <1>6, LoadOlderPreserves
<1>7. CASE \E p \in Scopes : SetPartitionFilter(p)
  BY <1>7, SetPartitionFilterPreserves
<1>8. CASE \E k \in Seeks \cup {None} : ApplySeek(k)
  BY <1>8, ApplySeekPreserves
<1>9. CASE \E d \in Directions : ApplyDirection(d)
  BY <1>9, ApplyDirectionPreserves
<1>10. CASE \E c \in Conditions : SetLoadedFilter(c)
  BY <1>10, LoadedFilterPreserves DEF SetLoadedFilter
<1>11. CASE \E c \in Conditions : LinkJump(c)
  BY <1>11, LinkJumpPreserves
<1>12. CASE \E c \in Conditions, k \in Seeks \cup {None} : StartSearch(c, k)
  BY <1>12, StartSearchPreserves
<1>13. CASE ClearLoadedFilter
  BY <1>13, LoadedFilterPreserves DEF ClearLoadedFilter
<1>14. CASE ScanMore
  BY <1>14, ScanMorePreserves
<1>15. CASE ScanAll
  BY <1>15, ScanAllPreserves
<1>16. CASE Cancel
  BY <1>16, CancelPreserves
<1>17. CASE ClearSearch
  BY <1>17, ClearSearchPreserves
<1>18. CASE RetryChildren
  BY <1>18, RetryChildrenPreserves
<1>19. CASE \E i \in Slots : Respond(i) \/ RespondRecreated(i)
  BY <1>19, RespondPreserves
<1>20. CASE \E i \in Slots : Land(i)
  BY <1>20, LandPreserves
<1>21. CASE \E i \in Slots : AbortLands(i)
  BY <1>21, AbortLandsPreserves
<1>22. CASE \E i \in Slots : Fails(i)
  BY <1>22, FailsPreserves
<1>23. CASE ChildrenLand
  BY <1>23, ChildrenLandPreserves
<1>24. CASE UNCHANGED vars
  BY <1>24, StutterPreserves
<1>25. QED
  BY <1>1, <1>2, <1>3, <1>4, <1>5, <1>6, <1>7, <1>8, <1>9, <1>10, <1>11, <1>12, <1>13, <1>14,
     <1>15, <1>16, <1>17, <1>18, <1>19, <1>20, <1>21, <1>22, <1>23, <1>24 DEF Next

LEMMA ClientInductive == Spec => []IInv
<1>1. Init => IInv
  BY InitIInv
<1>2. IInv /\ [Next]_vars => IInv'
  BY NextPreserves
<1>3. QED
  BY <1>1, <1>2, PTL DEF Spec

(* Once a newer search of a topic has begun, no row of an earlier one is in the
   list: a step whose answer comes late appends nothing, in every order in which
   searches begin, are cancelled, walk on and are answered. *)
THEOREM OldSearchLeavesNoRowsHolds == Spec => []OldSearchLeavesNoRows
<1>1. IInv => OldSearchLeavesNoRows
  BY DEF IInv, State, Good, Core, Listed, OldSearchLeavesNoRows
<1>2. QED
  BY <1>1, ClientInductive, PTL

(* The tab never spins for nothing: a spinning scan belongs to a step under way
   of the newest search, and a page load, an older page and Search all each have
   a request that will end them. *)
SpinsForARequest ==
  /\ tab.scanning => /\ controller \in Slots /\ req[controller].kind = "step"
                     /\ req[controller].era = era
  /\ tab.loading => \E i \in Slots : req[i].kind = "page"
  /\ tab.older => \E i \in Slots : req[i].kind = "older"
  /\ tab.deep => \E i \in Slots : req[i].kind = "step" /\ req[i].loop

(* No handler of the tab leaves a spinner behind: whatever order pages, older
   pages, steps, aborts and failures come in, what spins waits for a request that
   is still under way, and a running scan for one of the newest search. *)
THEOREM NothingSpinsForNothing == Spec => []SpinsForARequest
<1>1. IInv => SpinsForARequest
  BY DEF IInv, State, Good, Core, Owner, Spinners, Looping, SpinsForARequest
<1>2. QED
  BY <1>1, ClientInductive, PTL

-----------------------------------------------------------------------------
(* What a finished search has found. *)

(* What a view has not read yet where its cursor stands; what a search wants. *)
Beyond(view, place) == Ahead([view |-> view, cursor |-> place])
Wanted(view) == {p \in Matches[view.search] : InRange(view, p)}
Given(answer) == {answer.rows[k] : k \in 1..Len(answer.rows)}
Placed(list) == {list[k].pos : k \in 1..Len(list)}

(* An answer to a step holds what is wanted up to its cursor, and says truly
   whether more is to come. *)
Tells(view, place, a) ==
  /\ a.cursor \in Nat \cup {None} /\ a.rows \in Seq(Positions)
  /\ ReadMore(a, view.direction) <=> a.cursor # None
  /\ view.search # None =>
       /\ Given(a) \subseteq Wanted(view)
       /\ \A p \in Wanted(view) \cap Beyond(view, place) :
            a.cursor = None \/ p \notin Beyond(view, a.cursor) => p \in Given(a)

(* A request asks for what a view may be; only a step searches. *)
Sound(q) ==
  /\ q.view \in Views /\ q.cursor \in Nat \cup {None}
  /\ q.kind \in {"page", "older"} => q.view.search = None
  /\ q.kind = "step" /\ q.reset => q.cursor = None
  /\ q.phase = "body" => q.answer.cursor \in Nat \cup {None}
  /\ q.kind = "step" /\ q.phase = "body" => Tells(q.view, q.cursor, q.answer)

(* A list holds what is wanted up to its cursor and nothing else, unless the cap
   cut it off or its first step is still to land. *)
ListTells(t) ==
  /\ Shown(t) \subseteq Wanted(View(t))
  /\ t.more <=> t.cursor # None
  /\ ~t.limit /\ (t.rows # <<>> \/ t.cursor # None) =>
       \A p \in Wanted(View(t)) : t.cursor = None \/ p \notin Beyond(View(t), t.cursor) => p \in Shown(t)

(* A step that goes on goes on where the list ends. *)
GoesOn(s) ==
  s.controller # None =>
    LET q == s.req[s.controller]
    IN ~q.reset /\ q.view = View(s.tab) => q.cursor = s.tab.cursor /\ q.cursor # None /\ ~s.tab.limit

InShape(s) ==
  /\ View(s.tab) \in Views /\ s.tab.cursor \in Nat \cup {None}
  /\ \A i \in Slots : Sound(s.req[i])

Complete(s) ==
  s.of = View(s.tab) /\ s.tab.search # None => ListTells(s.tab) /\ GoesOn(s)

Honest(s) == InShape(s) /\ Complete(s)

-----------------------------------------------------------------------------
(* Positions in the order of a view; a window is where they begin. *)
LEMMA WindowIs ==
  ASSUME NEW view \in Views, NEW A \in SUBSET Positions, NEW n \in 0..Cardinality(A)
  PROVE  LET c == Cardinality(A)
             ahead == InOrder(view, A)
             window == SubSeq(ahead, 1, n)
         IN /\ c \in Nat /\ ahead \in Seq(Positions) /\ Len(ahead) = c
            /\ \A p \in A : \E k \in 1..c : ahead[k] = p
            /\ \A k \in 1..c : ahead[k] \in A
            /\ view.direction = "newest" => \A k, l \in 1..c : k < l => ahead[k] > ahead[l]
            /\ view.direction # "newest" => \A k, l \in 1..c : k < l => ahead[k] < ahead[l]
            /\ window \in Seq(Positions) /\ Len(window) = n
            /\ \A k \in 1..n : k \in 1..c /\ window[k] = ahead[k]
<1> DEFINE c == Cardinality(A)
           ahead == InOrder(view, A)
           window == SubSeq(ahead, 1, n)
           at(k) == IF view.direction = "newest" THEN c + 1 - k ELSE k
<1>1. IsFiniteSet(A) /\ A \in SUBSET Int
  <2>1. IsFiniteSet(Positions)
    BY KafkaClientAssumption, FS_Interval DEF Positions
  <2>2. A \in SUBSET Int
    BY DEF Positions
  <2>3. IsFiniteSet(A)
    BY <2>1, FS_Subset
  <2> QED
    BY <2>2, <2>3
<1>2. /\ c \in Nat
      /\ \A k \in 1..c : Nth(A, k) \in A
      /\ \A p \in A : Rank(A, p) + 1 \in 1..c /\ Nth(A, Rank(A, p) + 1) = p
      /\ \A k, l \in 1..c : k < l => Nth(A, k) < Nth(A, l)
  BY <1>1, NthIs
<1>3. ahead = [k \in 1..c |-> Nth(A, at(k))]
  BY DEF InOrder
<1> HIDE DEF c, ahead
<1>4. /\ \A k \in 1..c : at(k) \in 1..c /\ at(at(k)) = k
      /\ view.direction = "newest" => \A k, l \in 1..c : k < l => at(l) < at(k)
      /\ view.direction # "newest" => \A k \in 1..c : at(k) = k
  BY <1>2
<1> HIDE DEF at
<1>5. /\ ahead \in [1..c -> Positions]
      /\ \A k \in 1..c : ahead[k] = Nth(A, at(k)) /\ ahead[k] \in A
  BY <1>2, <1>3, <1>4
<1>6. ahead \in Seq(Positions) /\ Len(ahead) = c
  BY <1>2, <1>5
<1>7. \A p \in A : \E k \in 1..c : ahead[k] = p
  <2> TAKE p \in A
  <2> DEFINE k == at(Rank(A, p) + 1)
  <2>1. k \in 1..c /\ ahead[k] = p
    BY <1>2, <1>4, <1>5
  <2> QED
    BY <2>1
<1>8. /\ view.direction = "newest" => \A k, l \in 1..c : k < l => ahead[k] > ahead[l]
      /\ view.direction # "newest" => \A k, l \in 1..c : k < l => ahead[k] < ahead[l]
  <2>1. \A k \in 1..c : ahead[k] \in Int
    BY <1>1, <1>5
  <2>2. \A k, l \in 1..c : at(l) < at(k) => ahead[l] < ahead[k]
    BY <1>2, <1>4, <1>5
  <2> QED
    BY <1>4, <2>1, <2>2
<1>9. n \in Nat /\ n <= c
  BY <1>2 DEF c
<1>10. window \in Seq(Positions) /\ Len(window) = n /\ \A k \in 1..n : window[k] = ahead[k]
  BY <1>6, <1>9
<1>11. \A k \in 1..n : k \in 1..c
  BY <1>2, <1>9
<1> QED
  BY <1>2, <1>5, <1>6, <1>7, <1>8, <1>10, <1>11 DEF c, ahead

LEMMA AheadIsOfPositions == \A q : Ahead(q) \in SUBSET Positions
BY DEF Ahead

(* What the reader answers tells. *)
LEMMA AnswerTells ==
  ASSUME NEW q, q.view \in Views, q.cursor \in Nat \cup {None}, NEW n \in 0..Cardinality(Ahead(q))
  PROVE  Tells(q.view, q.cursor, Answer(q, n))
<1> DEFINE v == q.view
           A == Ahead(q)
           c == Cardinality(A)
           ahead == InOrder(v, A)
           window == SubSeq(ahead, 1, n)
           hit(p) == v.search = None \/ p \in Matches[v.search]
           hits == {k \in 1..n : hit(window[k])}
           a == Answer(q, n)
           place == IF n = c THEN None
                    ELSE IF n > 0 THEN window[n]
                    ELSE IF q.cursor = None THEN Start(v) ELSE q.cursor
<1>1. A \in SUBSET Positions
  BY AheadIsOfPositions
<1>2. /\ c \in Nat /\ ahead \in Seq(Positions) /\ Len(ahead) = c
      /\ \A p \in A : \E k \in 1..c : ahead[k] = p
      /\ \A k \in 1..c : ahead[k] \in A
      /\ v.direction = "newest" => \A k, l \in 1..c : k < l => ahead[k] > ahead[l]
      /\ v.direction # "newest" => \A k, l \in 1..c : k < l => ahead[k] < ahead[l]
      /\ window \in Seq(Positions) /\ Len(window) = n
      /\ \A k \in 1..n : k \in 1..c /\ window[k] = ahead[k]
  <2> HIDE DEF A
  <2>1. A \in SUBSET Positions /\ n \in 0..Cardinality(A) /\ v \in Views
    BY <1>1 DEF A
  <2> QED
    BY <2>1, WindowIs
<1>3. n \in Nat /\ n <= c
  BY <1>2
<1>4. /\ a.rows = Filtered(window, hits) /\ a.cursor = place
      /\ a.has_older <=> (v.direction = "newest" /\ n < c)
      /\ a.has_newer <=> (v.direction = "oldest" /\ n < c)
  BY <1>2 DEF Answer
<1> HIDE DEF a, hits, window, ahead
<1>5. v.direction \in Directions /\ v.search \in Conditions \cup {None} /\ v \in Views
  BY DEF Views
<1>6. place \in Nat \cup {None} /\ (place # None <=> n < c)
  <2>1. None \notin Nat /\ LogEnd \in Nat
    BY KafkaClientAssumption
  <2>2. n > 0 => window[n] \in Nat
    BY <1>1, <1>2, <1>3 DEF Positions
  <2>3. Start(v) \in Nat
    BY <2>1 DEF Start
  <2> HIDE DEF A, c, v
  <2> QED
    BY <1>2, <1>3, <2>1, <2>2, <2>3
<1>7. ReadMore(a, v.direction) <=> place # None
  BY <1>4, <1>5, <1>6 DEF ReadMore, Directions
<1>8. /\ Filtered(window, hits) \in Seq(Positions)
      /\ Len(Filtered(window, hits)) = Cardinality(hits)
      /\ \A k \in 1..Cardinality(hits) : Nth(hits, k) \in hits /\ Filtered(window, hits)[k] = window[Nth(hits, k)]
      /\ \A i \in hits : \E k \in 1..Cardinality(hits) : Nth(hits, k) = i
  <2>1. window \in Seq(Positions) /\ hits \in SUBSET DOMAIN window
    BY <1>2 DEF hits
  <2> QED
    BY ONLY <2>1, FilteredOfSequence, Zenon
<1>9. Given(a) = {window[i] : i \in hits}
  BY <1>4, <1>8 DEF Given
<1>10. ASSUME v.search # None
       PROVE  /\ Given(a) \subseteq Wanted(v)
              /\ \A p \in Wanted(v) \cap Beyond(v, q.cursor) :
                   place = None \/ p \notin Beyond(v, place) => p \in Given(a)
  <2>1. \A i \in hits : i \in 1..n /\ window[i] \in A /\ window[i] \in Matches[v.search]
    BY <1>2, <1>10 DEF hits
  <2>2. \A p \in A : InRange(v, p)
    BY DEF Ahead
  <2>3. Given(a) \subseteq Wanted(v)
    BY <1>9, <2>1, <2>2 DEF Wanted
  <2>4. Beyond(v, q.cursor) = A
    BY DEF Beyond, Ahead
  <2>5. ASSUME NEW p \in Wanted(v), p \in A, place = None \/ p \notin Beyond(v, place)
        PROVE  \E k \in 1..n : window[k] = p
    <3>1. PICK k \in 1..c : ahead[k] = p
      BY <1>2, <2>5
    <3>2. CASE n = c
      BY <1>2, <3>1, <3>2
    <3>3. CASE n < c /\ n > 0
      <4>1. /\ place = window[n] /\ place = ahead[n] /\ place \in Int /\ p \in Int /\ n \in 1..c
            /\ place # None
        BY <1>1, <1>2, <1>3, <1>6, <2>5, <3>3 DEF Positions
      <4>2. ~(v.direction = "newest" /\ p < place) /\ ~(v.direction = "oldest" /\ p > place)
        <5>1. p \in Positions /\ InRange(v, p)
          BY <1>1, <2>2, <2>5
        <5> QED
          BY <2>5, <4>1, <5>1 DEF Beyond, Ahead
      <4>3. ~(n < k)
        <5>1. CASE v.direction = "newest"
          BY <1>2, <3>1, <4>1, <4>2, <5>1
        <5>2. CASE v.direction = "oldest"
          BY <1>2, <3>1, <4>1, <4>2, <5>2
        <5> QED
          BY <1>5, <5>1, <5>2 DEF Directions
      <4>4. k \in 1..n
        BY <1>2, <1>3, <4>3
      <4> QED
        BY <1>2, <3>1, <4>4
    <3>4. CASE n < c /\ n = 0
      <4>1. place = IF q.cursor = None THEN Start(v) ELSE q.cursor
        BY <3>4
      <4>2. p \in Beyond(v, place)
        <5>1. CASE q.cursor # None
          BY <2>4, <2>5, <4>1, <5>1
        <5>2. CASE q.cursor = None
          <6>1. p \in Positions /\ InRange(v, p) /\ LogEnd \in Nat /\ p \in 1..LogEnd
            BY <1>1, <2>2, <2>5, KafkaClientAssumption DEF Positions
          <6> QED
            BY <1>5, <4>1, <5>2, <6>1 DEF Beyond, Ahead, Start, Directions
        <5> QED
          BY <5>1, <5>2
      <4> QED
        BY <1>6, <2>5, <3>4, <4>2
    <3> QED
      BY <1>2, <1>3, <3>2, <3>3, <3>4
  <2>6. ASSUME NEW p \in Wanted(v), p \in A, place = None \/ p \notin Beyond(v, place)
        PROVE  p \in Given(a)
    <3>1. PICK k \in 1..n : window[k] = p
      BY <2>5, <2>6
    <3>2. k \in hits
      BY <3>1 DEF hits, Wanted
    <3> QED
      BY <1>9, <3>1, <3>2
  <2> QED
    BY <2>3, <2>4, <2>6
<1> QED
  BY <1>4, <1>6, <1>7, <1>8, <1>10 DEF Tells, a

-----------------------------------------------------------------------------
(* Lists and what is in them. *)

IsList(q) == q \in Seq({q[k] : k \in 1..Len(q)})

LEMMA EmptyIsList == IsList(<<>>) /\ Placed(<<>>) = {} /\ Len(<<>>) = 0
<1>1. Len(<<>>) = 0 /\ <<>> \in Seq({<<>>[k] : k \in 1..Len(<<>>)})
  OBVIOUS
<1> QED
  BY <1>1 DEF IsList, Placed

LEMMA WhatIsLeft ==
  ASSUME NEW s \in Seq(Positions), NEW I \in SUBSET DOMAIN s
  PROVE  /\ Filtered(s, I) \in Seq(Positions) /\ Len(Filtered(s, I)) \in Nat
         /\ \A k \in 1..Len(Filtered(s, I)) : \E i \in I : Filtered(s, I)[k] = s[i]
         /\ \A i \in I : \E k \in 1..Len(Filtered(s, I)) : Filtered(s, I)[k] = s[i]
<1>1. /\ Filtered(s, I) \in Seq(Positions) /\ Len(Filtered(s, I)) = Cardinality(I)
      /\ Cardinality(I) \in Nat
      /\ \A k \in 1..Cardinality(I) : Nth(I, k) \in I /\ Filtered(s, I)[k] = s[Nth(I, k)]
      /\ \A i \in I : \E k \in 1..Cardinality(I) : Nth(I, k) = i
  <2>1. PICK S : S = Positions /\ s \in Seq(S)
    OBVIOUS
  <2>2. Filtered(s, I) \in Seq(S)
    BY <2>1, FilteredOfSequence
  <2>3. /\ Len(Filtered(s, I)) = Cardinality(I) /\ Cardinality(I) \in Nat
    BY <2>1, FilteredOfSequence
  <2>4. \A k \in 1..Cardinality(I) : Nth(I, k) \in I /\ Filtered(s, I)[k] = s[Nth(I, k)]
    <3>1. \A k \in 1..Cardinality(I) : Nth(I, k) \in I
      BY <2>1, FilteredOfSequence
    <3>2. \A k \in 1..Cardinality(I) : Filtered(s, I)[k] = s[Nth(I, k)]
      BY DEF Filtered
    <3> QED
      BY <3>1, <3>2
  <2>5. \A i \in I : \E k \in 1..Cardinality(I) : Nth(I, k) = i
    BY <2>1, FilteredOfSequence
  <2> QED
    BY <2>1, <2>2, <2>3, <2>4, <2>5
<1>2. ASSUME NEW i \in I
      PROVE  \E k \in 1..Cardinality(I) : Filtered(s, I)[k] = s[i]
  <2>1. PICK k \in 1..Cardinality(I) : Nth(I, k) = i
    BY <1>1
  <2> QED
    BY <1>1, <2>1
<1> QED
  BY <1>1, <1>2

LEMMA FreshIsNew ==
  ASSUME NEW base, NEW answer, NEW by, answer.rows \in Seq(Positions)
  PROVE  /\ Placed(Fresh(base, answer, by)) = Given(answer) \ Placed(base)
         /\ IsList(Fresh(base, answer, by))
<1> DEFINE listed == Placed(base)
           I == {k \in 1..Len(answer.rows) : answer.rows[k] \notin listed}
           news == Filtered(answer.rows, I)
           n == Len(news)
           fresh == [k \in 1..n |-> [pos |-> news[k], by |-> by]]
<1>1. Fresh(base, answer, by) = fresh
  BY DEF Fresh, Placed
<1> HIDE DEF listed
<1>2. I \in SUBSET DOMAIN answer.rows
  OBVIOUS
<1>3. /\ n \in Nat /\ \A k \in 1..n : \E i \in I : news[k] = answer.rows[i]
      /\ \A i \in I : \E k \in 1..n : news[k] = answer.rows[i]
  <2> HIDE DEF I
  <2> QED
    BY <1>2, WhatIsLeft
<1> HIDE DEF news, n, I
<1>4. {news[k] : k \in 1..n} = {answer.rows[i] : i \in I}
  <2>1. \A k \in 1..n : news[k] \in {answer.rows[i] : i \in I}
    BY <1>3, Zenon
  <2>2. \A i \in I : answer.rows[i] \in {news[k] : k \in 1..n}
    BY <1>3, Zenon
  <2> QED
    BY <2>1, <2>2, Zenon
<1>5. Len(fresh) = n /\ \A k \in 1..n : fresh[k].pos = news[k]
  BY <1>3
<1>6. Placed(fresh) = {news[k] : k \in 1..n}
  <2> HIDE DEF fresh
  <2> QED
    BY <1>5 DEF Placed
<1>7. {answer.rows[i] : i \in I} = Given(answer) \ listed
  BY DEF Given, I
<1>8. IsList(Fresh(base, answer, by))
  BY FreshIsTagged DEF IsList
<1> QED
  BY <1>1, <1>4, <1>6, <1>7, <1>8 DEF listed

LEMMA BothArePlaced ==
  ASSUME NEW p, NEW q, IsList(p), IsList(q)
  PROVE  Placed(p \o q) = Placed(p) \cup Placed(q) /\ IsList(p \o q) /\ Len(p \o q) \in Nat
<1> DEFINE S == {p[k] : k \in 1..Len(p)} \cup {q[k] : k \in 1..Len(q)}
<1>1. p \in Seq(S) /\ q \in Seq(S)
  BY DEF IsList
<1> HIDE DEF S
<1>2. /\ Len(p) \in Nat /\ Len(q) \in Nat /\ Len(p \o q) = Len(p) + Len(q)
      /\ \A k \in 1..Len(p) : (p \o q)[k] = p[k]
      /\ \A k \in 1..Len(q) : (p \o q)[Len(p) + k] = q[k]
      /\ p \o q \in Seq(S)
  BY <1>1
<1>3. PICK z : z = p \o q
  OBVIOUS
<1>4. \A k \in 1..Len(z) : k \in 1..Len(p) \/ k - Len(p) \in 1..Len(q)
  BY <1>2, <1>3
<1>5. \A k \in 1..Len(z) : z[k].pos \in Placed(p) \cup Placed(q)
  <2> TAKE k \in 1..Len(z)
  <2>1. CASE k \in 1..Len(p)
    BY <1>2, <1>3, <2>1 DEF Placed
  <2>2. CASE k - Len(p) \in 1..Len(q)
    <3>1. k = Len(p) + (k - Len(p))
      BY <1>2, <1>3
    <3>2. z[k] = q[k - Len(p)]
      BY <1>2, <1>3, <2>2, <3>1
    <3> QED
      BY <2>2, <3>2 DEF Placed
  <2> QED
    BY <1>4, <2>1, <2>2
<1>6. Placed(p) \subseteq Placed(z)
  <2>1. \A k \in 1..Len(p) : k \in 1..Len(z) /\ z[k] = p[k]
    BY <1>2, <1>3
  <2> QED
    BY <2>1 DEF Placed
<1>7. Placed(q) \subseteq Placed(z)
  <2>1. \A k \in 1..Len(q) : Len(p) + k \in 1..Len(z) /\ z[Len(p) + k] = q[k]
    BY <1>2, <1>3
  <2> QED
    BY <2>1 DEF Placed
<1>8. Placed(z) = Placed(p) \cup Placed(q)
  BY <1>5, <1>6, <1>7 DEF Placed
<1>9. IsList(p \o q)
  <2>1. p \o q \in Seq(S)
    BY <1>2
  <2>2. p \o q \in Seq({(p \o q)[k] : k \in 1..Len(p \o q)})
    BY <1>3, <2>1, ListOfItsOwn
  <2> QED
    BY <2>2 DEF IsList
<1> QED
  BY <1>2, <1>3, <1>8, <1>9

LEMMA CutIsPlaced ==
  ASSUME NEW p, IsList(p), NEW n \in Nat, n <= Len(p)
  PROVE  /\ Placed(SubSeq(p, 1, n)) \subseteq Placed(p)
         /\ n = Len(p) => Placed(SubSeq(p, 1, n)) = Placed(p)
         /\ n > 0 => SubSeq(p, 1, n) # <<>>
<1> DEFINE S == {p[k] : k \in 1..Len(p)}
<1>1. p \in Seq(S)
  BY DEF IsList
<1> HIDE DEF S
<1>2. Len(SubSeq(p, 1, n)) = n /\ \A k \in 1..n : SubSeq(p, 1, n)[k] = p[k]
  BY <1>1
<1>3. PICK z : z = SubSeq(p, 1, n)
  OBVIOUS
<1>4. Len(z) = n /\ (\A k \in 1..n : z[k] = p[k]) /\ Len(p) \in Nat
  BY <1>1, <1>2, <1>3
<1>5. \A k \in 1..n : k \in 1..Len(p)
  BY <1>4
<1>6. n > 0 => z # <<>>
  BY <1>4
<1> QED
  BY <1>3, <1>4, <1>5, <1>6 DEF Placed

-----------------------------------------------------------------------------
(* What a handler leaves of the requests that it does not send. *)

Spared(q, o) ==
  \/ q = Idle
  \/ /\ q.view = o.view /\ q.cursor = o.cursor /\ q.kind = o.kind /\ q.reset = o.reset
     /\ q.phase = "body" => o.phase = "body" /\ q.answer = o.answer

SameReading(n, s) ==
  /\ n.tab.rows = s.tab.rows /\ n.tab.cursor = s.tab.cursor /\ n.tab.more = s.tab.more
  /\ n.tab.limit = s.tab.limit /\ View(n.tab) = View(s.tab) /\ n.of = s.of

LEMMA IdleIsSound == Sound(Idle)
<1>1. View(NewTab) \in Views
  BY DEF View, NewTab, Views, Scopes, Directions
<1> QED
  BY <1>1 DEF Sound, Idle

LEMMA SparedIsSound ==
  ASSUME NEW q, NEW o, Sound(o), Spared(q, o)
  PROVE  Sound(q)
<1>1. CASE q = Idle
  BY <1>1, IdleIsSound
<1>2. CASE q # Idle
  BY <1>2 DEF Sound, Spared
<1> QED
  BY <1>1, <1>2

(* Whoever leaves the list, the view and the step that owns the scan alone, or
   ends it, says nothing new. *)
LEMMA HonestStays ==
  ASSUME NEW s, NEW n, Honest(s), SameReading(n, s), \A i \in Slots : Spared(n.req[i], s.req[i]),
         \/ n.controller = None
         \/ /\ n.controller = s.controller
            /\ LET q == n.req[n.controller]
                   o == s.req[s.controller]
               IN q.view = o.view /\ q.cursor = o.cursor /\ q.reset = o.reset
  PROVE  Honest(n)
<1>1. InShape(n)
  BY SparedIsSound DEF Honest, InShape, SameReading
<1>2. View(n.tab).search = n.tab.search /\ View(s.tab).search = s.tab.search
  BY DEF View
<1>3. GoesOn(s) => GoesOn(n)
  BY DEF GoesOn, SameReading
<1>4. ListTells(s.tab) => ListTells(n.tab)
  BY DEF ListTells, SameReading, Shown
<1> QED
  BY <1>1, <1>2, <1>3, <1>4 DEF Honest, Complete, SameReading

(* A list that was read for no view promises nothing. *)
LEMMA ForgottenIsHonest ==
  ASSUME NEW s, NEW n, InShape(s), View(n.tab) \in Views, n.tab.cursor \in Nat \cup {None},
         \A i \in Slots : Spared(n.req[i], s.req[i]), n.of = None
  PROVE  Honest(n)
<1>1. InShape(n)
  BY SparedIsSound DEF InShape
<1>2. View(n.tab) # None
  BY KafkaClientAssumption
<1> QED
  BY <1>1, <1>2 DEF Honest, Complete

LEMMA AbortSpares ==
  ASSUME NEW s, Core(s)
  PROVE  /\ AbortScan(s).of = s.of /\ SameReading(AbortScan(s), s)
         /\ \A i \in Slots : Spared(AbortScan(s).req[i], s.req[i])
         /\ LET q == AbortScan(s).req[s.controller]
                o == s.req[s.controller]
            IN q.view = o.view /\ q.cursor = o.cursor /\ q.reset = o.reset
<1> USE DEF Core
<1>1. CASE ~(s.controller # None /\ s.req[s.controller].phase = "sent")
  BY <1>1 DEF AbortScan, SameReading, Spared
<1>2. CASE s.controller # None /\ s.req[s.controller].phase = "sent"
  <2> DEFINE a == AbortScan(s)
  <2>1. s.controller \in Slots
    BY <1>2 DEF Owner
  <2>2. /\ a.tab = s.tab /\ a.of = s.of
        /\ a.req = [s.req EXCEPT ![s.controller].phase = "cut"]
    BY <1>2 DEF AbortScan, Shape
  <2> HIDE DEF a
  <2>3. \A i \in Slots : /\ a.req[i].view = s.req[i].view /\ a.req[i].cursor = s.req[i].cursor
                         /\ a.req[i].kind = s.req[i].kind /\ a.req[i].reset = s.req[i].reset
                         /\ a.req[i].phase = "body" => s.req[i].phase = "body" /\ a.req[i].answer = s.req[i].answer
    <3> TAKE i \in Slots
    <3>1. CASE i # s.controller
      BY <2>1, <2>2, <3>1 DEF Shape
    <3>2. CASE i = s.controller
      <4>1. a.req[i] = [s.req[i] EXCEPT !.phase = "cut"] /\ DOMAIN s.req[i] = ReqFields
        BY <2>1, <2>2, <3>2 DEF Shape
      <4> QED
        BY <4>1 DEF ReqFields
    <3> QED
      BY <3>1, <3>2
  <2> QED
    BY <2>1, <2>2, <2>3 DEF SameReading, Spared, a
<1> QED
  BY <1>1, <1>2

LEMMA AbortHonest ==
  ASSUME NEW s, Core(s), Honest(s)
  PROVE  Honest(AbortScan(s))
BY AbortSpares, AbortScanKeeps, HonestStays

LEMMA AbortInShape ==
  ASSUME NEW s, Core(s), InShape(s)
  PROVE  InShape(AbortScan(s))
BY AbortSpares, AbortScanKeeps, SparedIsSound DEF InShape

-----------------------------------------------------------------------------
(* Handlers. *)

(* A page or an older page takes a slot of its own and searches nothing. *)
LEMMA PageSentHonest ==
  ASSUME NEW s, NEW n, NEW x \in Slots, Core(s), Honest(s), s.req[x].kind = "idle",
         SameReading(n, s), n.controller = s.controller,
         \A i \in Slots \ {x} : n.req[i] = s.req[i], Sound(n.req[x])
  PROVE  Honest(n)
<1>1. InShape(n)
  BY DEF Honest, InShape, SameReading
<1>2. View(n.tab).search = n.tab.search /\ View(s.tab).search = s.tab.search
  BY DEF View
<1>3. n.controller # None => n.controller \in Slots \ {x}
  BY DEF Core, Owner
<1>4. GoesOn(s) => GoesOn(n)
  BY <1>3 DEF GoesOn, SameReading
<1>5. ListTells(s.tab) => ListTells(n.tab)
  BY DEF ListTells, SameReading, Shown
<1> QED
  BY <1>1, <1>2, <1>4, <1>5 DEF Honest, Complete, SameReading

LEMMA PageViewIsAView ==
  ASSUME NEW s, View(s.tab) \in Views
  PROVE  /\ [View(s.tab) EXCEPT !.search = None] \in Views
         /\ [View(s.tab) EXCEPT !.search = None].search = None
BY DEF View, Views

LEMMA StartPageHonest ==
  ASSUME NEW s, NEW mount, Core(s), Honest(s), Pending(s, None) # {} \/ One(s)
  PROVE  Honest(StartPage(s, mount))
<1> USE DEF Core
<1> DEFINE n == StartPage(s, mount)
<1>1. CASE Pending(s, None) # {}
  <2>1. /\ n.tab = s.tab /\ n.of = s.of /\ n.controller = s.controller
        /\ n.req = [i \in Slots |->
             IF i \in Pending(s, None) /\ mount THEN [s.req[i] EXCEPT !.mount = TRUE] ELSE s.req[i]]
    BY <1>1 DEF StartPage, Shape
  <2> HIDE DEF n
  <2>2. \A i \in Slots : /\ n.req[i].kind = s.req[i].kind /\ n.req[i].reset = s.req[i].reset
                         /\ n.req[i].phase = s.req[i].phase /\ n.req[i].view = s.req[i].view
                         /\ n.req[i].cursor = s.req[i].cursor /\ n.req[i].answer = s.req[i].answer
    BY <2>1
  <2>3. /\ \A i \in Slots : Spared(n.req[i], s.req[i])
        /\ SameReading(n, s)
    BY <2>1, <2>2 DEF Spared, SameReading
  <2>4. n.controller = None \/ n.controller \in Slots
    BY <2>1 DEF Owner
  <2>5. n.controller = None \/ (n.controller = s.controller /\ LET q == n.req[n.controller]
                                                                  o == s.req[s.controller]
               IN q.view = o.view /\ q.cursor = o.cursor /\ q.reset = o.reset)
    BY <2>1, <2>2, <2>4
  <2> QED
    BY <2>3, <2>5, HonestStays DEF n
<1>2. CASE Pending(s, None) = {}
  <2> DEFINE x == FreeSlot(s)
  <2>1. x \in Slots /\ s.req[x].kind = "idle"
    BY <1>2, FreeSlotIsIdle
  <2>2. /\ n.controller = s.controller /\ n.of = s.of
        /\ n.req = [s.req EXCEPT ![x] = [Request("page", s, None) EXCEPT !.mount = mount]]
        /\ n.tab = [s.tab EXCEPT !.loading = TRUE, !.error = FALSE]
    BY <1>2 DEF StartPage, Shape
  <2> HIDE DEF n, x
  <2>3. /\ \A i \in Slots \ {x} : n.req[i] = s.req[i]
        /\ n.req[x].kind = "page" /\ n.req[x].phase = "sent" /\ n.req[x].cursor = None
        /\ n.req[x].view = [View(s.tab) EXCEPT !.search = None]
    BY <2>1, <2>2 DEF Shape, Request, Idle
  <2>4. Sound(n.req[x])
    BY <2>3, PageViewIsAView DEF Sound, Honest, InShape
  <2>5. SameReading(n, s)
    BY <2>2 DEF SameReading, View, Shape, TabFields
  <2> QED
    BY <2>1, <2>2, <2>3, <2>4, <2>5, PageSentHonest DEF n
<1> QED
  BY <1>1, <1>2

LEMMA StartOlderHonest ==
  ASSUME NEW s, Core(s), Honest(s), One(s)
  PROVE  Honest(StartOlder(s))
<1> USE DEF Core
<1> DEFINE n == StartOlder(s)
<1>1. CASE s.tab.cursor = None \/ s.tab.older \/ Pending(s, s.tab.cursor) # {}
  BY <1>1 DEF StartOlder
<1>2. CASE ~(s.tab.cursor = None \/ s.tab.older \/ Pending(s, s.tab.cursor) # {})
  <2> DEFINE x == FreeSlot(s)
  <2>1. x \in Slots /\ s.req[x].kind = "idle"
    BY FreeSlotIsIdle
  <2>2. /\ n.controller = s.controller /\ n.of = s.of
        /\ n.req = [s.req EXCEPT ![x] = Request("older", s, s.tab.cursor)]
        /\ n.tab = [s.tab EXCEPT !.older = TRUE, !.error = FALSE]
    BY <1>2 DEF StartOlder, Shape
  <2> HIDE DEF n, x
  <2>3. /\ \A i \in Slots \ {x} : n.req[i] = s.req[i]
        /\ n.req[x].kind = "older" /\ n.req[x].phase = "sent" /\ n.req[x].cursor = s.tab.cursor
        /\ n.req[x].view = [View(s.tab) EXCEPT !.search = None]
    BY <2>1, <2>2 DEF Shape, Request, Idle
  <2>4. Sound(n.req[x])
    BY <2>3, PageViewIsAView DEF Sound, Honest, InShape
  <2>5. SameReading(n, s)
    BY <2>2 DEF SameReading, View, Shape, TabFields
  <2> QED
    BY <2>1, <2>2, <2>3, <2>4, <2>5, PageSentHonest DEF n
<1> QED
  BY <1>1, <1>2

(* A search begins with an empty list; a walk goes on from the list's end, and
   never past the cap. *)
LEMMA StartStepHonest ==
  ASSUME NEW s, NEW reset \in BOOLEAN, NEW loop \in BOOLEAN, Core(s), Honest(s),
         s.tab.scanning \/ One(s), reset \/ ~s.tab.limit
  PROVE  Honest(StartStep(s, reset, loop))
<1> DEFINE n == StartStep(s, reset, loop)
           stays == s.tab.scanning \/ (~reset /\ (~s.tab.more \/ s.tab.cursor = None))
<1>1. CASE stays
  BY <1>1 DEF StartStep
<1>2. CASE ~stays
  <2> DEFINE a == AbortScan(s)
             begun == IF reset THEN a.era + 1 ELSE a.era
             x == FreeSlot(a)
             sent == [Request("step", a, IF reset THEN None ELSE a.tab.cursor) EXCEPT
                        !.view = View(a.tab), !.reset = reset, !.loop = loop, !.era = begun]
             t == [(IF reset THEN Emptied(a.tab) ELSE a.tab) EXCEPT
                     !.scanning = TRUE, !.error = FALSE]
             o == IF reset THEN View(a.tab) ELSE a.of
  <2>1. n = [a EXCEPT !.req[x] = sent, !.controller = x, !.tab = t, !.era = begun, !.of = o]
    BY <1>2 DEF StartStep
  <2>2. /\ Core(a) /\ Honest(a) /\ a.tab = s.tab /\ a.of = s.of
        /\ \A i \in Slots : a.req[i].kind = s.req[i].kind
    BY AbortScanKeeps, AbortHonest, AbortSpares
  <2> HIDE DEF a
  <2>3. One(a)
    BY <1>2, <2>2 DEF One
  <2>4. x \in Slots /\ a.req[x].kind = "idle"
    BY <2>3, FreeSlotIsIdle
  <2>5. /\ sent.kind = "step" /\ sent.phase = "sent" /\ sent.reset = reset
        /\ sent.view = View(a.tab)
        /\ sent.cursor = IF reset THEN None ELSE a.tab.cursor
    BY DEF Request, Idle
  <2>6. /\ DOMAIN a.tab = TabFields /\ DOMAIN a.req = Slots
        /\ DOMAIN a = {"tab", "req", "controller", "children", "era", "of"}
    BY <2>2 DEF Core, Shape
  <2>7. /\ View(t) = View(a.tab) /\ t.search = a.tab.search
        /\ reset => t.rows = <<>> /\ t.cursor = None /\ t.more = FALSE /\ t.limit = FALSE
        /\ ~reset => t.rows = a.tab.rows /\ t.cursor = a.tab.cursor /\ t.more = a.tab.more
                     /\ t.limit = a.tab.limit
    BY <2>6 DEF Emptied, View, TabFields
  <2> HIDE DEF x, sent, begun, t, o
  <2>8. n.controller = x /\ n.tab = t /\ n.req = [a.req EXCEPT ![x] = sent] /\ n.of = o
    BY <2>1, <2>6
  <2> HIDE DEF n
  <2>9. n.req[x] = sent /\ \A i \in Slots \ {x} : n.req[i] = a.req[i]
    BY <2>4, <2>6, <2>8
  <2>10. InShape(a)
    BY <2>2 DEF Honest
  <2>11. InShape(n)
    <3>1. Sound(sent)
      BY <2>5, <2>10 DEF Sound, InShape
    <3>2. View(n.tab) \in Views /\ n.tab.cursor \in Nat \cup {None}
      BY <2>7, <2>8, <2>10 DEF InShape
    <3> QED
      BY <2>9, <2>10, <3>1, <3>2 DEF InShape
  <2>12. CASE reset
    <3>1. Shown(n.tab) = {}
      BY <2>7, <2>8, <2>12, EmptyIsList DEF Shown
    <3>2. ListTells(n.tab)
      BY <2>7, <2>8, <2>12, <3>1 DEF ListTells
    <3>3. GoesOn(n)
      BY <2>5, <2>8, <2>9, <2>12 DEF GoesOn
    <3> QED
      BY <2>11, <3>2, <3>3 DEF Honest, Complete, n
  <2>13. CASE ~reset
    <3>1. o = a.of /\ Complete(a)
      BY <2>2, <2>13 DEF Honest, o
    <3>2. ListTells(a.tab) => ListTells(n.tab)
      BY <2>7, <2>8, <2>13 DEF ListTells, Shown
    <3>3. GoesOn(n)
      <4>1. n.tab.cursor # None /\ ~n.tab.limit /\ sent.cursor = n.tab.cursor
        BY <1>2, <2>2, <2>5, <2>7, <2>8, <2>13
      <4> QED
        BY <2>8, <2>9, <4>1 DEF GoesOn
    <3> QED
      BY <2>7, <2>8, <2>11, <3>1, <3>2, <3>3 DEF Honest, Complete, n
  <2> QED
    BY <2>12, <2>13
<1> QED
  BY <1>1, <1>2

LEMMA StartChildrenHonest ==
  ASSUME NEW s, Core(s), Honest(s)
  PROVE  Honest(StartChildren(s))
<1> DEFINE n == StartChildren(s)
<1>1. n.tab = s.tab /\ n.req = s.req /\ n.controller = s.controller /\ n.of = s.of
  BY DEF StartChildren, Core, Shape
<1> HIDE DEF n
<1>2. SameReading(n, s) /\ \A i \in Slots : Spared(n.req[i], s.req[i])
  BY <1>1 DEF SameReading, Spared
<1>3. n.controller = s.controller /\ LET q == n.req[n.controller]
                                        o == s.req[s.controller]
                                    IN q.view = o.view /\ q.cursor = o.cursor /\ q.reset = o.reset
  BY <1>1
<1> QED
  BY <1>2, <1>3, HonestStays DEF n

(* The search begins with what it looks for; while a step runs none begins, and
   the list it has is forgotten if another thing is looked for. *)
LEMMA SearchTopicHonest ==
  ASSUME NEW s, NEW c \in Conditions, Good(s), Honest(s), s.tab.scanning \/ One(s)
  PROVE  Honest(SearchTopic(s, c))
<1> USE DEF Good
<1> DEFINE e == [s EXCEPT !.tab = [s.tab EXCEPT !.search = c, !.canceled = FALSE, !.filter = None],
                          !.of = IF s.tab.search = c THEN s.of ELSE None]
<1>1. SearchTopic(s, c) = StartStep(e, TRUE, FALSE)
  BY DEF SearchTopic
<1>2. /\ DOMAIN e = DOMAIN s /\ e.req = s.req /\ e.controller = s.controller /\ e.era = s.era
      /\ e.children = s.children
      /\ e.tab = [s.tab EXCEPT !.search = c, !.canceled = FALSE, !.filter = None]
      /\ e.of = IF s.tab.search = c THEN s.of ELSE None
  BY DEF Core, Shape
<1> HIDE DEF e
<1>3. /\ DOMAIN e.tab = TabFields /\ e.tab.rows = s.tab.rows /\ e.tab.search = c
      /\ e.tab.scanning = s.tab.scanning /\ e.tab.loading = s.tab.loading
      /\ e.tab.older = s.tab.older /\ e.tab.deep = s.tab.deep
      /\ e.tab.cursor = s.tab.cursor /\ e.tab.more = s.tab.more /\ e.tab.limit = s.tab.limit
      /\ e.tab.scope = s.tab.scope /\ e.tab.seek = s.tab.seek /\ e.tab.direction = s.tab.direction
  BY <1>2 DEF Core, Shape, TabFields
<1>4. Core(e)
  <2>1. e.tab.rows \in {s.tab.rows, <<>>} /\ DOMAIN e.children = DOMAIN s.children
    BY <1>2, <1>3
  <2> QED
    BY <1>2, <1>3, <2>1, TabChange
<1>5. Honest(e)
  <2>1. \A i \in Slots : Spared(e.req[i], s.req[i])
    BY <1>2 DEF Spared
  <2>2. CASE s.tab.search = c
    <3>1. SameReading(e, s)
      BY <1>2, <1>3, <2>2 DEF SameReading, View
    <3> QED
      BY <1>2, <2>1, <3>1, HonestStays
  <2>3. CASE s.tab.search # c
    <3>1. View(e.tab) \in Views /\ e.tab.cursor \in Nat \cup {None} /\ InShape(s)
      BY <1>3 DEF Honest, InShape, View, Views
    <3> QED
      BY <1>2, <2>1, <2>3, <3>1, ForgottenIsHonest
  <2> QED
    BY <2>2, <2>3
<1>6. e.tab.scanning \/ One(e)
  BY <1>2, <1>3 DEF One
<1> QED
  BY <1>1, <1>4, <1>5, <1>6, StartStepHonest

LEMMA SearchIsACondition ==
  ASSUME NEW s, InShape(s)
  PROVE  s.tab.search # None => s.tab.search \in Conditions
<1>1. View(s.tab) \in Views
  BY DEF InShape
<1> QED
  BY <1>1 DEF View, Views

LEMMA RefreshedHonest ==
  ASSUME NEW s, Good(s), Honest(s), One(s)
  PROVE  Honest(Refreshed(s))
BY SearchTopicHonest, StartPageHonest, SearchIsACondition DEF Refreshed, Good, Honest

LEMMA ReanchoredHonest ==
  ASSUME NEW s, Good(s), InShape(s), One(s)
  PROVE  Honest(Reanchored(s))
<1> USE DEF Good
<1> DEFINE e == [s EXCEPT !.tab = Emptied(s.tab), !.of = None]
<1>1. Reanchored(s) = IF s.tab.search # None THEN SearchTopic(e, s.tab.search) ELSE StartPage(e, FALSE)
  BY DEF Reanchored
<1>2. /\ DOMAIN e = DOMAIN s /\ e.req = s.req /\ e.controller = s.controller /\ e.era = s.era
      /\ e.children = s.children /\ e.tab = Emptied(s.tab) /\ e.of = None
  BY DEF Core, Shape
<1> HIDE DEF e
<1>3. /\ DOMAIN e.tab = TabFields /\ e.tab.rows = <<>> /\ e.tab.search = s.tab.search
      /\ e.tab.scanning = FALSE /\ e.tab.loading = s.tab.loading
      /\ e.tab.older = s.tab.older /\ e.tab.deep = s.tab.deep /\ e.tab.scope = s.tab.scope
      /\ e.tab.cursor = None /\ View(e.tab) = View(s.tab)
  BY <1>2 DEF Core, Shape, Emptied, View, TabFields
<1>4. Good(e)
  <2>1. e.tab.rows \in {s.tab.rows, <<>>} /\ DOMAIN e.children = DOMAIN s.children
    BY <1>2, <1>3
  <2>2. QED
    BY <1>2, <1>3, <2>1, TabChange
<1>5. One(e)
  BY <1>2 DEF One
<1>6. Honest(e)
  <2>1. \A i \in Slots : Spared(e.req[i], s.req[i])
    BY <1>2 DEF Spared
  <2>2. View(e.tab) \in Views /\ e.tab.cursor \in Nat \cup {None}
    BY <1>3 DEF InShape
  <2> QED
    BY <1>2, <2>1, <2>2, ForgottenIsHonest
<1>7. CASE s.tab.search # None
  BY <1>1, <1>4, <1>5, <1>6, <1>7, SearchTopicHonest, SearchIsACondition
<1>8. CASE s.tab.search = None
  BY <1>1, <1>4, <1>5, <1>6, <1>8, StartPageHonest
<1> QED
  BY <1>7, <1>8

LEMMA SetSeekHonest ==
  ASSUME NEW s, NEW seek \in Seeks \cup {None}, Good(s), Honest(s), One(s)
  PROVE  Honest(SetSeek(s, seek))
<1> DEFINE a == AbortScan(s)
           e == [a EXCEPT !.tab.seek = seek]
<1>1. SetSeek(s, seek) = Reanchored(e)
  BY DEF SetSeek
<1>2. /\ Core(a) /\ Looping(a) /\ DOMAIN a = DOMAIN s /\ a.tab = s.tab /\ a.era = s.era
      /\ InShape(a) /\ \A i \in Slots : a.req[i].kind = s.req[i].kind
  BY AbortScanKeeps, AbortInShape DEF Good, Honest
<1> HIDE DEF a
<1>3. /\ DOMAIN e = DOMAIN a /\ e.req = a.req /\ e.controller = a.controller /\ e.era = a.era
      /\ e.children = a.children /\ e.tab = [a.tab EXCEPT !.seek = seek]
  BY <1>2
<1> HIDE DEF e
<1>4. /\ DOMAIN e.tab = TabFields /\ e.tab.rows = s.tab.rows /\ e.tab.search = s.tab.search
      /\ e.tab.scanning = s.tab.scanning /\ e.tab.loading = s.tab.loading
      /\ e.tab.older = s.tab.older /\ e.tab.deep = s.tab.deep /\ e.tab.scope = s.tab.scope
      /\ e.tab.direction = s.tab.direction /\ e.tab.seek = seek /\ e.tab.cursor = s.tab.cursor
  BY <1>2, <1>3 DEF Core, Shape, TabFields
<1>5. Good(e)
  <2>1. e.tab.rows \in {a.tab.rows, <<>>} /\ DOMAIN e.children = DOMAIN a.children
    BY <1>2, <1>3, <1>4
  <2>2. /\ e.tab.scanning => a.tab.scanning
        /\ e.tab.loading => a.tab.loading
        /\ e.tab.older => a.tab.older
        /\ e.tab.deep => a.tab.deep
    BY <1>2, <1>4
  <2>3. Core(e) /\ Looping(e)
    BY <1>2, <1>3, <1>4, <2>1, <2>2, TabChange
  <2>4. QED
    BY <2>3 DEF Good
<1>6. One(e)
  BY <1>2, <1>3 DEF One
<1>7. InShape(e)
  BY <1>2, <1>3, <1>4 DEF InShape, View, Views
<1> QED
  BY <1>1, <1>5, <1>6, <1>7, ReanchoredHonest

LEMMA SetDirectionHonest ==
  ASSUME NEW s, NEW d \in Directions, Good(s), Honest(s), One(s)
  PROVE  Honest(SetDirection(s, d))
<1> DEFINE a == AbortScan(s)
           e == [a EXCEPT !.tab.direction = d]
<1>1. SetDirection(s, d) = IF s.tab.direction = d THEN a ELSE Reanchored(e)
  BY DEF SetDirection
<1>2. /\ Core(a) /\ Looping(a) /\ DOMAIN a = DOMAIN s /\ a.tab = s.tab /\ a.era = s.era
      /\ InShape(a) /\ Honest(a) /\ \A i \in Slots : a.req[i].kind = s.req[i].kind
  BY AbortScanKeeps, AbortHonest DEF Good, Honest
<1> HIDE DEF a
<1>3. /\ DOMAIN e = DOMAIN a /\ e.req = a.req /\ e.controller = a.controller /\ e.era = a.era
      /\ e.children = a.children /\ e.tab = [a.tab EXCEPT !.direction = d]
  BY <1>2
<1> HIDE DEF e
<1>4. /\ DOMAIN e.tab = TabFields /\ e.tab.rows = s.tab.rows /\ e.tab.search = s.tab.search
      /\ e.tab.scanning = s.tab.scanning /\ e.tab.loading = s.tab.loading
      /\ e.tab.older = s.tab.older /\ e.tab.deep = s.tab.deep /\ e.tab.scope = s.tab.scope
      /\ e.tab.direction = d /\ e.tab.seek = s.tab.seek /\ e.tab.cursor = s.tab.cursor
  BY <1>2, <1>3 DEF Core, Shape, TabFields
<1>5. Good(e)
  <2>1. e.tab.rows \in {a.tab.rows, <<>>} /\ DOMAIN e.children = DOMAIN a.children
    BY <1>2, <1>3, <1>4
  <2>2. /\ e.tab.scanning => a.tab.scanning
        /\ e.tab.loading => a.tab.loading
        /\ e.tab.older => a.tab.older
        /\ e.tab.deep => a.tab.deep
    BY <1>2, <1>4
  <2>3. Core(e) /\ Looping(e)
    BY <1>2, <1>3, <1>4, <2>1, <2>2, TabChange
  <2>4. QED
    BY <2>3 DEF Good
<1>6. One(e)
  BY <1>2, <1>3 DEF One
<1>7. InShape(e)
  BY <1>2, <1>3, <1>4 DEF InShape, View, Views
<1>8. CASE s.tab.direction = d
  BY <1>1, <1>2, <1>8
<1>9. CASE s.tab.direction # d
  BY <1>1, <1>5, <1>6, <1>7, <1>9, ReanchoredHonest
<1> QED
  BY <1>8, <1>9

LEMMA EndLoopHonest ==
  ASSUME NEW s, Core(s), Honest(s)
  PROVE  Honest(EndLoop(s))
<1> DEFINE n == EndLoop(s)
<1>1. /\ n.req = s.req /\ n.controller = s.controller /\ n.of = s.of
      /\ n.tab = [s.tab EXCEPT !.deep = FALSE]
  BY DEF EndLoop, Core, Shape
<1> HIDE DEF n
<1>2. SameReading(n, s) /\ \A i \in Slots : Spared(n.req[i], s.req[i])
  BY <1>1 DEF SameReading, Spared, View, Core, Shape, TabFields
<1>3. n.controller = s.controller /\ LET q == n.req[n.controller]
                                        o == s.req[s.controller]
                                    IN q.view = o.view /\ q.cursor = o.cursor /\ q.reset = o.reset
  BY <1>1
<1> QED
  BY <1>2, <1>3, HonestStays DEF n

(* The loop asks for no step past the cap. *)
LEMMA LoopHeadHonest ==
  ASSUME NEW s, Core(s), Honest(s), One(s)
  PROVE  Honest(LoopHead(s))
<1> DEFINE over == \/ s.tab.canceled \/ ~s.tab.more \/ s.tab.cursor = None \/ s.tab.error
                   \/ s.tab.limit \/ s.tab.scanning
<1>1. CASE over
  BY <1>1, EndLoopHonest DEF LoopHead
<1>2. CASE ~over
  BY <1>2, StartStepHonest DEF LoopHead
<1> QED
  BY <1>1, <1>2

LEMMA LoopResumesHonest ==
  ASSUME NEW s, NEW q, Core(s), Honest(s), One(s)
  PROVE  Honest(LoopResumes(s, q))
BY EndLoopHonest, LoopHeadHonest DEF LoopResumes

-----------------------------------------------------------------------------
(* Answers. *)

LEMMA FreedSpares ==
  ASSUME NEW s, NEW i \in Slots, NEW n, DOMAIN s.req = Slots, n.req = [s.req EXCEPT ![i] = Idle]
  PROVE  \A j \in Slots : Spared(n.req[j], s.req[j]) /\ (j # i => n.req[j] = s.req[j])
BY DEF Spared

(* A page is read for no search. *)
LEMMA PageLandsHonest ==
  ASSUME NEW s, NEW i \in Slots, Good(s), Honest(s), s.req[i].kind = "page", s.req[i].phase = "body"
  PROVE  Honest(PageLands(s, i))
<1> DEFINE q == s.req[i]
           page == Fresh(<<>>, q.answer, 0)
           n == [Freed(s, i) EXCEPT
                   !.tab = [s.tab EXCEPT !.rows = page,
                              !.more = ReadMore(q.answer, q.view.direction),
                              !.cursor = q.answer.cursor, !.loading = FALSE],
                   !.of = q.view]
<1>1. PageLands(s, i) = IF q.mount THEN StartChildren(n) ELSE n
  BY DEF PageLands
<1>2. page \in Seq({page[k] : k \in 1..Len(page)}) /\ \A k \in 1..Len(page) : page[k].by = 0
  BY FreshIsTagged
<1> HIDE DEF page
<1>3. /\ DOMAIN n = DOMAIN s /\ n.children = s.children /\ n.controller = s.controller
      /\ n.era = s.era /\ n.req = [s.req EXCEPT ![i] = Idle] /\ n.of = q.view
      /\ n.tab = [s.tab EXCEPT !.rows = page, !.more = ReadMore(q.answer, q.view.direction),
                               !.cursor = q.answer.cursor, !.loading = FALSE]
  BY DEF Freed, Good, Core, Shape
<1> HIDE DEF n
<1>4. /\ n.tab.cursor = q.answer.cursor /\ View(n.tab) = View(s.tab) /\ n.tab.search = s.tab.search
  BY <1>3 DEF Good, Core, Shape, View, TabFields
<1>5. Sound(q) /\ InShape(s)
  BY DEF Honest, InShape
<1>6. q.view.search = None /\ q.answer.cursor \in Nat \cup {None}
  BY <1>5 DEF Sound
<1>7. Honest(n)
  <2>1. InShape(n)
    <3>1. \A j \in Slots : Spared(n.req[j], s.req[j])
      BY <1>3, FreedSpares DEF Good, Core, Shape
    <3> QED
      BY <1>4, <1>5, <1>6, <3>1, SparedIsSound DEF InShape
  <2>2. View(n.tab).search = n.tab.search
    BY DEF View
  <2> QED
    BY <1>3, <1>6, <2>1, <2>2 DEF Honest, Complete
<1>8. /\ n.children = s.children /\ DOMAIN n = DOMAIN s
  BY <1>3
<1>9. Honest(StartChildren(n))
  <2> DEFINE m == StartChildren(n)
  <2>1. m.tab = n.tab /\ m.req = n.req /\ m.controller = n.controller /\ m.of = n.of
    BY <1>8 DEF StartChildren, Good, Core, Shape
  <2> HIDE DEF m
  <2>2. SameReading(m, n) /\ \A j \in Slots : Spared(m.req[j], n.req[j])
    BY <2>1 DEF SameReading, Spared
  <2>3. m.controller = n.controller /\ LET p == m.req[m.controller]
                                          o == n.req[n.controller]
                                      IN p.view = o.view /\ p.cursor = o.cursor /\ p.reset = o.reset
    BY <2>1
  <2> QED
    BY <1>7, <2>2, <2>3, HonestStays DEF m
<1> QED
  BY <1>1, <1>7, <1>9

LEMMA OlderLandsHonest ==
  ASSUME NEW s, NEW i \in Slots, Good(s), Honest(s), s.req[i].kind = "older", s.req[i].phase = "body"
  PROVE  Honest(OlderLands(s, i))
<1> DEFINE q == s.req[i]
           base == IF q.answer.recreated THEN <<>> ELSE s.tab.rows
           page == base \o Fresh(base, q.answer, 0)
           n == OlderLands(s, i)
<1>1. n = [Freed(s, i) EXCEPT
             !.tab = [s.tab EXCEPT !.rows = page, !.more = ReadMore(q.answer, q.view.direction),
                        !.cursor = q.answer.cursor, !.older = FALSE],
             !.of = IF q.answer.recreated THEN q.view ELSE ReadFor(q.view, s)]
  BY DEF OlderLands
<1> HIDE DEF page, n
<1>2. /\ n.req = [s.req EXCEPT ![i] = Idle] /\ n.of \in {q.view, None}
      /\ n.tab = [s.tab EXCEPT !.rows = page, !.more = ReadMore(q.answer, q.view.direction),
                               !.cursor = q.answer.cursor, !.older = FALSE]
  BY <1>1 DEF Freed, ReadFor, Good, Core, Shape
<1>3. /\ n.tab.cursor = q.answer.cursor /\ View(n.tab) = View(s.tab) /\ n.tab.search = s.tab.search
  BY <1>2 DEF Good, Core, Shape, View, TabFields
<1>4. Sound(q) /\ InShape(s)
  BY DEF Honest, InShape
<1>5. q.view.search = None /\ q.answer.cursor \in Nat \cup {None}
  BY <1>4 DEF Sound
<1>6. InShape(n)
  <2>1. \A j \in Slots : Spared(n.req[j], s.req[j])
    BY <1>2, FreedSpares DEF Good, Core, Shape
  <2> QED
    BY <1>3, <1>4, <1>5, <2>1, SparedIsSound DEF InShape
<1>7. View(n.tab) # None /\ View(n.tab).search = n.tab.search
  <2>1. View(n.tab) # None
    BY <1>6, KafkaClientAssumption DEF InShape
  <2> QED
    BY <2>1 DEF View
<1> QED
  BY <1>2, <1>5, <1>6, <1>7 DEF Honest, Complete, n

(* A step that owns nothing is over. *)
LEMMA OverHonest ==
  ASSUME NEW s, NEW i \in Slots, Core(s), Honest(s), s.req[i].kind = "step"
  PROVE  Honest(Finally(s, i))
<1> DEFINE n == Finally(s, i)
<1>1. /\ n.tab = s.tab /\ n.of = s.of /\ n.req = [s.req EXCEPT ![i] = Idle]
      /\ n.controller = IF s.controller = i THEN None ELSE s.controller
  BY DEF Finally, Freed, Core, Shape
<1> HIDE DEF n
<1>2. \A j \in Slots : Spared(n.req[j], s.req[j]) /\ (j # i => n.req[j] = s.req[j])
  BY <1>1, FreedSpares DEF Core, Shape
<1>3. SameReading(n, s)
  BY <1>1 DEF SameReading
<1>4. CASE n.controller = None
  BY <1>2, <1>3, <1>4, HonestStays DEF n
<1>5. CASE n.controller # None
  <2>1. n.controller = s.controller /\ n.controller \in Slots \ {i}
    BY <1>1, <1>5 DEF Core, Owner
  <2>2. n.req[n.controller] = s.req[s.controller]
    BY <1>2, <2>1
  <2> QED
    BY <1>2, <1>3, <2>1, <2>2, HonestStays DEF n
<1> QED
  BY <1>4, <1>5

LEMMA StepFailsHonest ==
  ASSUME NEW s, NEW i \in Slots, NEW aborted, Core(s), Honest(s), s.req[i].kind = "step"
  PROVE  Honest(StepFails(s, i, aborted))
<1> DEFINE f == Finally(s, i)
           t == [s.tab EXCEPT !.scanning = FALSE, !.error = IF aborted THEN s.tab.error ELSE TRUE]
           n == [f EXCEPT !.tab = t]
<1>1. StepFails(s, i, aborted) = IF s.controller = i THEN n ELSE f
  BY DEF StepFails, IsCurrentStep
<1>2. Honest(f) /\ f.tab = s.tab /\ f.req = [s.req EXCEPT ![i] = Idle] /\ DOMAIN f = DOMAIN s
      /\ f.controller = IF s.controller = i THEN None ELSE s.controller
  BY OverHonest DEF Finally, Freed, Core, Shape
<1> HIDE DEF f
<1>3. n.tab = t /\ n.req = f.req /\ n.controller = f.controller /\ n.of = f.of
  BY <1>2 DEF Core, Shape
<1> HIDE DEF n
<1>4. SameReading(n, f) /\ \A j \in Slots : Spared(n.req[j], f.req[j])
  BY <1>2, <1>3 DEF SameReading, Spared, View, Core, Shape, TabFields
<1>5. s.controller = i => Honest(n)
  BY <1>2, <1>3, <1>4, HonestStays
<1> QED
  BY <1>1, <1>2, <1>5

LEMMA PlacesOfATab == \A t : Shown(t) = Placed(t.rows)
BY DEF Shown, Placed

LEMMA NothingIsBehindNone ==
  ASSUME NEW v \in Views, v.search # None
  PROVE  Wanted(v) \subseteq Beyond(v, None)
<1>1. v.search \in Conditions
  BY DEF Views
<1>2. Matches[v.search] \subseteq Positions
  BY <1>1, KafkaClientAssumption
<1> QED
  BY <1>2 DEF Wanted, Beyond, Ahead

(* The answer joins the list where the list ends: what is wanted up to the new
   cursor was there already, or is in the answer. *)
LEMMA StepLandsHonest ==
  ASSUME NEW s, NEW i \in Slots, Good(s), Honest(s), s.req[i].kind = "step", s.req[i].phase = "body"
  PROVE  Honest(StepLands(s, i))
<1>1. CASE s.controller # i
  BY <1>1, OverHonest DEF StepLands, IsCurrentStep, Good
<1>2. CASE s.controller = i
  <2> DEFINE q == s.req[i]
             a == q.answer
             base == IF q.reset THEN <<>> ELSE s.tab.rows
             fresh == Fresh(base, a, q.era)
             merged == base \o fresh
             left == ReadMore(a, q.view.direction)
             cut == IF Len(merged) > MaxMatches THEN MaxMatches ELSE Len(merged)
             page == SubSeq(merged, 1, cut)
             capped == LimitReached(merged, left)
             t == [s.tab EXCEPT
                     !.rows = page, !.partial = a.partial, !.limit = capped,
                     !.more = left, !.cursor = a.cursor, !.scanning = FALSE]
             o == IF q.reset THEN q.view ELSE ReadFor(q.view, s)
             n == [Finally(s, i) EXCEPT !.tab = t, !.of = o]
             v == View(s.tab)
  <2>1. StepLands(s, i) = n
    BY <1>2 DEF StepLands, IsCurrentStep
  <2>2. Sound(q) /\ InShape(s) /\ Tells(q.view, q.cursor, a) /\ a.rows \in Seq(Positions)
    BY DEF Honest, InShape, Sound, Tells
  <2>3. IsList(base) /\ (q.reset => Placed(base) = {}) /\ (~q.reset => Placed(base) = Shown(s.tab))
    <3>1. IsList(s.tab.rows)
      BY DEF Good, Core, Listed, IsList
    <3> QED
      BY <3>1, EmptyIsList, PlacesOfATab
  <2> HIDE DEF base
  <2>4. Placed(fresh) = Given(a) \ Placed(base) /\ IsList(fresh)
    BY <2>2, FreshIsNew
  <2> HIDE DEF fresh
  <2>5. Placed(merged) = Placed(base) \cup Given(a) /\ IsList(merged) /\ Len(merged) \in Nat
    BY <2>3, <2>4, BothArePlaced
  <2> HIDE DEF merged
  <2>6. /\ cut \in Nat /\ cut <= Len(merged)
        /\ ~capped => cut = Len(merged)
    BY <2>5, KafkaClientAssumption DEF LimitReached
  <2> HIDE DEF cut, capped
  <2>7. Placed(page) \subseteq Placed(merged) /\ (cut = Len(merged) => Placed(page) = Placed(merged))
    BY <2>5, <2>6, CutIsPlaced
  <2>8. (left <=> a.cursor # None) /\ a.cursor \in Nat \cup {None}
    BY <2>2 DEF Tells
  <2> HIDE DEF page, left
  <2>9. /\ t.rows = page /\ t.limit = capped /\ t.more = left /\ t.cursor = a.cursor
        /\ View(t) = v /\ t.search = s.tab.search
    BY DEF Good, Core, Shape, View, TabFields
  <2>10. n.tab = t /\ n.of = o /\ n.controller = None /\ n.req = [s.req EXCEPT ![i] = Idle]
    BY <1>2 DEF Finally, Freed, Good, Core, Shape
  <2> HIDE DEF t, n, o
  <2>11. InShape(n)
    <3>1. \A j \in Slots : Spared(n.req[j], s.req[j])
      BY <2>10, FreedSpares DEF Good, Core, Shape
    <3> QED
      BY <2>2, <2>8, <2>9, <2>10, <3>1, SparedIsSound DEF InShape
  <2>12. GoesOn(n)
    BY <2>10 DEF GoesOn
  <2>13. ASSUME n.of = View(n.tab), n.tab.search # None
         PROVE  ListTells(n.tab)
    <3>1. v \in Views /\ v # None /\ v.search # None /\ View(n.tab) = v
      <4>1. v \in Views /\ None \notin Views
        BY <2>2, KafkaClientAssumption DEF InShape
      <4>2. v.search = s.tab.search
        BY DEF View
      <4> QED
        BY <2>9, <2>10, <2>13, <4>1, <4>2
    <3>2. q.view = v /\ (~q.reset => s.of = v)
      BY <2>9, <2>10, <2>13, <3>1 DEF o, ReadFor
    <3>3. ~q.reset => ListTells(s.tab) /\ q.cursor = s.tab.cursor /\ q.cursor # None /\ ~s.tab.limit
      <4>1. Complete(s) /\ v.search = s.tab.search
        BY DEF Honest, View
      <4>2. i # None
        BY KafkaClientAssumption
      <4> QED
        BY <1>2, <3>1, <3>2, <4>1, <4>2 DEF Complete, GoesOn
    <3>4. /\ Given(a) \subseteq Wanted(v)
          /\ \A p \in Wanted(v) \cap Beyond(v, q.cursor) :
               a.cursor = None \/ p \notin Beyond(v, a.cursor) => p \in Given(a)
      BY <2>2, <3>1, <3>2 DEF Tells
    <3>5. Placed(base) \subseteq Wanted(v)
      BY <2>3, <3>3 DEF ListTells
    <3>6. ASSUME NEW p \in Wanted(v), a.cursor = None \/ p \notin Beyond(v, a.cursor)
          PROVE  p \in Placed(merged)
      <4>1. CASE p \in Beyond(v, q.cursor)
        BY <2>5, <3>4, <3>6, <4>1
      <4>2. CASE p \notin Beyond(v, q.cursor)
        <5>1. ~q.reset
          BY <2>2, <3>1, <4>2, NothingIsBehindNone DEF Sound
        <5>2. p \in Shown(s.tab)
          BY <3>3, <3>6, <4>2, <5>1 DEF ListTells
        <5> QED
          BY <2>3, <2>5, <5>1, <5>2
      <4> QED
        BY <4>1, <4>2
    <3>7. Shown(n.tab) = Placed(page)
      BY <2>9, <2>10, PlacesOfATab
    <3>8. ~capped => Placed(page) = Placed(merged)
      BY <2>6, <2>7
    <3> QED
      BY <2>5, <2>7, <2>8, <2>9, <2>10, <3>1, <3>4, <3>5, <3>6, <3>7, <3>8 DEF ListTells
  <2> QED
    BY <2>1, <2>11, <2>12, <2>13 DEF Honest, Complete
<1> QED
  BY <1>1, <1>2
-----------------------------------------------------------------------------
(* Steps. *)

LEMMA BecomesHonest ==
  ASSUME NEW s, Honest(s), Becomes(s)
  PROVE  Honest(State)'
<1>1. /\ State'.tab = s.tab /\ State'.req = s.req /\ State'.controller = s.controller
      /\ State'.of = s.of
  BY DEF Becomes, State
<1>2. InShape(State)'
  BY <1>1 DEF InShape, Honest
<1>3. Complete(State)'
  BY <1>1 DEF Complete, GoesOn, Honest
<1> QED
  BY <1>2, <1>3 DEF Honest

LEMMA StateIsComplete == State.of = of /\ State.tab = tab /\ State.req = req
BY DEF State

LEMMA InitHonest == Init => Honest(State)
<1> SUFFICES ASSUME Init PROVE Honest(State)
  OBVIOUS
<1>1. InShape(State)
  <2>1. \A i \in Slots : State.req[i] = Idle
    BY DEF Init, State
  <2>2. State.tab = NewTab
    BY DEF Init, State
  <2>3. View(NewTab) \in Views /\ NewTab.cursor = None
    BY DEF View, NewTab, Views, Scopes, Directions
  <2> QED
    BY <2>1, <2>2, <2>3, IdleIsSound DEF InShape
<1>2. State.tab.search = None
  BY DEF Init, State, NewTab
<1> QED
  BY <1>1, <1>2 DEF Honest, Complete

LEMMA MountHonest ==
  ASSUME NEW s, Good(s), Honest(s), s.tab.search # None \/ One(s)
  PROVE  Honest(MountEffect(s))
BY StartChildrenHonest, StartPageHonest DEF MountEffect, Good

(* A view of its own that searches nothing, and a page for it. *)
LEMMA PageInsteadHonest ==
  ASSUME NEW s, NEW t, Good(s), Honest(s), One(s), DOMAIN t = TabFields, t.rows = <<>>,
         t.scanning = FALSE, t.deep = FALSE, t.loading = s.tab.loading, t.older = s.tab.older,
         View(t) \in Views, t.cursor = None
  PROVE  Honest(StartPage([AbortScan(s) EXCEPT !.tab = t, !.of = None], FALSE))
<1> DEFINE a == AbortScan(s)
           e == [a EXCEPT !.tab = t, !.of = None]
<1>1. /\ Core(a) /\ DOMAIN a = DOMAIN s /\ a.tab = s.tab /\ InShape(a)
      /\ \A i \in Slots : a.req[i].kind = s.req[i].kind
  BY AbortScanKeeps, AbortInShape DEF Good, Honest
<1> HIDE DEF a
<1>2. /\ DOMAIN e = DOMAIN a /\ e.req = a.req /\ e.controller = a.controller /\ e.era = a.era
      /\ e.children = a.children /\ e.tab = t /\ e.of = None
  BY <1>1 DEF Core, Shape
<1> HIDE DEF e
<1>3. /\ DOMAIN e.children = DOMAIN a.children /\ DOMAIN e.tab = TabFields
      /\ e.tab.rows \in {a.tab.rows, <<>>}
      /\ e.tab.scanning => a.tab.scanning
      /\ e.tab.loading => a.tab.loading
      /\ e.tab.older => a.tab.older
  BY <1>1, <1>2
<1>4. Core(e)
  BY <1>1, <1>2, <1>3, TabChange
<1>5. One(e)
  BY <1>1, <1>2 DEF One
<1>6. Honest(e)
  <2>1. \A i \in Slots : Spared(e.req[i], a.req[i])
    BY <1>2 DEF Spared
  <2> QED
    BY <1>1, <1>2, <2>1, ForgottenIsHonest
<1>7. Honest(StartPage(e, FALSE))
  BY <1>4, <1>5, <1>6, StartPageHonest
<1>8. QED
  BY <1>7 DEF e, a

LEMMA SetPartitionFilterHonest ==
  ASSUME IInv, Honest(State), NEW scope \in Scopes, SetPartitionFilter(scope)
  PROVE  Honest(State)'
<1> DEFINE t == [Emptied(tab) EXCEPT !.scope = scope, !.filter = None, !.search = None,
                                    !.deep = FALSE, !.canceled = FALSE]
<1>1. /\ DOMAIN t = TabFields /\ t.rows = <<>> /\ t.scanning = FALSE /\ t.deep = FALSE
      /\ t.loading = State.tab.loading /\ t.older = State.tab.older /\ t.cursor = None
  BY StateIsTheVariables DEF IInv, Good, Core, Shape, TabFields, Emptied
<1>2. View(t) \in Views
  <2>1. DOMAIN tab = TabFields /\ View(tab) \in Views
    BY StateIsTheVariables DEF IInv, Good, Core, Shape, Honest, InShape
  <2> QED
    BY <2>1 DEF View, Views, Emptied, TabFields
<1>3. Becomes(StartPage([AbortScan(State) EXCEPT !.tab = t, !.of = None], FALSE)) /\ Room
  BY DEF SetPartitionFilter, Browsing, Gesture
<1> HIDE DEF t
<1> QED
  BY <1>1, <1>2, <1>3, RoomIsOne, PageInsteadHonest, BecomesHonest DEF IInv

LEMMA ClearSearchHonest ==
  ASSUME IInv, Honest(State), ClearSearch
  PROVE  Honest(State)'
<1> DEFINE t == [Emptied(tab) EXCEPT !.search = None, !.canceled = FALSE, !.deep = FALSE]
<1>1. /\ DOMAIN t = TabFields /\ t.rows = <<>> /\ t.scanning = FALSE /\ t.deep = FALSE
      /\ t.loading = State.tab.loading /\ t.older = State.tab.older /\ t.cursor = None
  BY StateIsTheVariables DEF IInv, Good, Core, Shape, TabFields, Emptied
<1>2. View(t) \in Views
  <2>1. DOMAIN tab = TabFields /\ View(tab) \in Views
    BY StateIsTheVariables DEF IInv, Good, Core, Shape, Honest, InShape
  <2> QED
    BY <2>1 DEF View, Views, Emptied, TabFields
<1>3. Becomes(StartPage([AbortScan(State) EXCEPT !.tab = t, !.of = None], FALSE)) /\ Room
  BY DEF ClearSearch, Browsing, Gesture
<1> HIDE DEF t
<1> QED
  BY <1>1, <1>2, <1>3, RoomIsOne, PageInsteadHonest, BecomesHonest DEF IInv

(* A change of the tab's other fields: filters, flags of the loop. *)
LEMMA FieldsHonest ==
  ASSUME NEW s, NEW n, Honest(s), n.req = s.req, n.controller = s.controller, n.of = s.of,
         n.tab.rows = s.tab.rows, n.tab.cursor = s.tab.cursor, n.tab.more = s.tab.more,
         n.tab.limit = s.tab.limit, View(n.tab) = View(s.tab)
  PROVE  Honest(n)
<1>1. SameReading(n, s) /\ \A i \in Slots : Spared(n.req[i], s.req[i])
  BY DEF SameReading, Spared
<1>2. n.controller = s.controller /\ LET q == n.req[n.controller]
                                        o == s.req[s.controller]
                                    IN q.view = o.view /\ q.cursor = o.cursor /\ q.reset = o.reset
  OBVIOUS
<1> QED
  BY <1>1, <1>2, HonestStays

LEMMA LoadedFilterHonest ==
  ASSUME IInv, Honest(State), NEW c, Becomes([State EXCEPT !.tab.filter = c])
  PROVE  Honest(State)'
<1> DEFINE n == [State EXCEPT !.tab.filter = c]
<1>1. /\ n.req = State.req /\ n.controller = State.controller /\ n.of = State.of
      /\ n.tab = [State.tab EXCEPT !.filter = c]
  BY DEF State
<1> HIDE DEF n
<1>2. /\ n.tab.rows = State.tab.rows /\ n.tab.cursor = State.tab.cursor
      /\ n.tab.more = State.tab.more /\ n.tab.limit = State.tab.limit
      /\ View(n.tab) = View(State.tab)
  BY <1>1 DEF IInv, Good, Core, Shape, View, TabFields
<1>3. Honest(n)
  BY <1>1, <1>2, FieldsHonest
<1> QED
  BY <1>3, BecomesHonest DEF n

LEMMA StartSearchHonest ==
  ASSUME IInv, Honest(State), NEW c \in Conditions, NEW anchor \in Seeks \cup {None},
         StartSearch(c, anchor)
  PROVE  Honest(State)'
<1>1. Good(State) /\ Two(State) /\ One(State)
  BY RoomIsTwo, RoomIsOne DEF StartSearch, Browsing, Gesture, IInv
<1>2. CASE anchor = None
  <2>1. Honest(SearchTopic(State, c))
    BY <1>1, SearchTopicHonest
  <2> QED
    BY <1>2, <2>1, BecomesHonest DEF StartSearch
<1>3. CASE anchor # None
  <2> DEFINE u == SetDirection(State, "oldest")
             v == SetSeek(u, anchor)
  <2>1. /\ Good(u) /\ One(u) /\ u.tab.search = State.tab.search
        /\ Two(u) \/ u.tab.search # None \/ Pending(u, None) # {}
    BY <1>1, SetDirectionGood
  <2>2. Honest(u)
    BY <1>1, SetDirectionHonest DEF Directions
  <2> HIDE DEF u
  <2>3. Good(v) /\ (v.tab.scanning \/ One(v)) /\ Honest(v)
    BY <2>1, <2>2, SetSeekGood, SetSeekHonest
  <2> HIDE DEF v
  <2>4. Honest(SearchTopic(v, c))
    BY <2>3, SearchTopicHonest
  <2> QED
    BY <1>3, <2>4, BecomesHonest DEF StartSearch, u, v
<1> QED
  BY <1>2, <1>3

LEMMA LinkJumpHonest ==
  ASSUME IInv, Honest(State), NEW c \in Conditions, LinkJump(c)
  PROVE  Honest(State)'
<1> DEFINE s == SearchTopic(State, c)
<1>1. Good(s) /\ Honest(s) /\ s.tab.search # None
  BY RoomIsOne, SearchTopicGood, SearchTopicHonest, KafkaClientAssumption DEF LinkJump, Gesture, IInv
<1>2. Becomes(IF mounted THEN s ELSE MountEffect(s))
  BY DEF LinkJump
<1> HIDE DEF s
<1> QED
  BY <1>1, <1>2, MountHonest, BecomesHonest

LEMMA ScanMoreHonest ==
  ASSUME IInv, Honest(State), ScanMore
  PROVE  Honest(State)'
<1>1. Core(State) /\ One(State) /\ ~State.tab.limit
  BY RoomIsOne, StateIsTheVariables DEF IInv, Good, ScanMore, Browsing, Gesture, Offered
<1>2. Honest(StartStep(State, FALSE, FALSE))
  BY <1>1, StartStepHonest
<1> QED
  BY <1>2, BecomesHonest DEF ScanMore

LEMMA ScanAllHonest ==
  ASSUME IInv, Honest(State), ScanAll
  PROVE  Honest(State)'
<1> DEFINE n == [State EXCEPT !.tab.deep = TRUE, !.tab.canceled = FALSE]
<1>1. /\ DOMAIN n = DOMAIN State /\ n.req = State.req /\ n.controller = State.controller
      /\ n.era = State.era /\ n.children = State.children /\ n.of = State.of
      /\ n.tab = [State.tab EXCEPT !.deep = TRUE, !.canceled = FALSE]
  BY DEF State
<1>2. Becomes(LoopHead(n)) /\ One(State)
  BY RoomIsOne DEF ScanAll, Browsing, Gesture
<1> HIDE DEF n
<1>3. /\ DOMAIN n.tab = TabFields /\ n.tab.rows = State.tab.rows
      /\ n.tab.scanning = State.tab.scanning /\ n.tab.loading = State.tab.loading
      /\ n.tab.older = State.tab.older /\ n.tab.cursor = State.tab.cursor
      /\ n.tab.more = State.tab.more /\ n.tab.limit = State.tab.limit
      /\ View(n.tab) = View(State.tab) /\ DOMAIN n.children = DOMAIN State.children
  BY <1>1 DEF IInv, Good, Core, Shape, View, TabFields
<1>4. Core(n) /\ One(n) /\ Honest(n)
  <2>1. n.tab.rows \in {State.tab.rows, <<>>}
    BY <1>3
  <2>2. Core(n)
    BY <1>1, <1>3, <2>1, TabChange DEF IInv, Good
  <2>3. One(n)
    BY <1>1, <1>2 DEF One
  <2>4. Honest(n)
    BY <1>1, <1>3, FieldsHonest
  <2> QED
    BY <2>2, <2>3, <2>4
<1> QED
  BY <1>2, <1>4, LoopHeadHonest, BecomesHonest

LEMMA CancelHonest ==
  ASSUME IInv, Honest(State), Cancel
  PROVE  Honest(State)'
<1> DEFINE a == AbortScan(State)
           n == CancelScan(State)
           m == CancelScanAll(State)
<1>1. Core(a) /\ Honest(a)
  BY AbortScanKeeps, AbortHonest DEF IInv, Good
<1>2. n = [a EXCEPT !.tab.scanning = FALSE] /\ m = [n EXCEPT !.tab.canceled = TRUE]
  BY DEF CancelScan, CancelScanAll
<1>3. Becomes(m) \/ Becomes(n)
  BY DEF Cancel
<1> HIDE DEF a, n, m
<1>4. /\ n.req = a.req /\ n.controller = a.controller /\ n.of = a.of /\ DOMAIN n = DOMAIN a
      /\ n.tab = [a.tab EXCEPT !.scanning = FALSE]
  BY <1>1, <1>2 DEF Core, Shape
<1>5. /\ n.tab.rows = a.tab.rows /\ n.tab.cursor = a.tab.cursor /\ n.tab.more = a.tab.more
      /\ n.tab.limit = a.tab.limit /\ View(n.tab) = View(a.tab) /\ DOMAIN n.tab = TabFields
  BY <1>1, <1>4 DEF Core, Shape, View, TabFields
<1>6. Honest(n)
  BY <1>1, <1>4, <1>5, FieldsHonest
<1>7. /\ m.req = n.req /\ m.controller = n.controller /\ m.of = n.of
      /\ m.tab = [n.tab EXCEPT !.canceled = TRUE]
  BY <1>1, <1>2, <1>4 DEF Core, Shape
<1>8. /\ m.tab.rows = n.tab.rows /\ m.tab.cursor = n.tab.cursor /\ m.tab.more = n.tab.more
      /\ m.tab.limit = n.tab.limit /\ View(m.tab) = View(n.tab)
  BY <1>5, <1>7 DEF View, TabFields
<1>9. Honest(m)
  BY <1>6, <1>7, <1>8, FieldsHonest
<1> QED
  BY <1>3, <1>6, <1>9, BecomesHonest

(* The reader answers, and its answer tells. *)
LEMMA AnsweredHonest ==
  ASSUME IInv, Honest(State), NEW i \in Slots, NEW answer, req[i].phase = "sent",
         req' = [req EXCEPT ![i] = [@ EXCEPT !.phase = "body", !.answer = answer]],
         UNCHANGED <<tab, controller, children, era, of>>,
         answer.cursor \in Nat \cup {None},
         req[i].kind = "step" => Tells(req[i].view, req[i].cursor, answer)
  PROVE  Honest(State)'
<1>1. /\ DOMAIN req = Slots /\ DOMAIN req[i] = ReqFields
      /\ State.req = req /\ State.tab = tab /\ State.controller = controller /\ State.of = of
  BY StateIsTheVariables, StateIsComplete DEF IInv, Good, Core, Shape
<1>2. /\ State'.req = req' /\ State'.tab = tab /\ State'.controller = controller /\ State'.of = of
  BY DEF State
<1>3. /\ \A j \in Slots \ {i} : req'[j] = req[j]
      /\ req'[i].view = req[i].view /\ req'[i].cursor = req[i].cursor /\ req'[i].kind = req[i].kind
      /\ req'[i].reset = req[i].reset /\ req'[i].answer = answer
  BY <1>1 DEF ReqFields
<1>4. InShape(State)'
  <2>1. InShape(State)
    BY DEF Honest
  <2>2. Sound(req'[i])
    BY <1>1, <1>3, <2>1 DEF InShape, Sound
  <2>3. \A j \in Slots : Sound(req'[j])
    BY <1>1, <1>3, <2>1, <2>2 DEF InShape
  <2> QED
    BY <1>1, <1>2, <2>1, <2>3 DEF InShape
<1>5. GoesOn(State) => GoesOn(State)'
  <2>1. controller # None => controller \in Slots
    BY <1>1 DEF IInv, Good, Core, Owner
  <2>2. controller \in Slots => /\ req'[controller].view = req[controller].view
                                /\ req'[controller].cursor = req[controller].cursor
                                /\ req'[controller].reset = req[controller].reset
    BY <1>3
  <2> QED
    BY <1>1, <1>2, <2>1, <2>2 DEF GoesOn
<1>6. Complete(State)'
  BY <1>1, <1>2, <1>5 DEF Honest, Complete
<1> QED
  BY <1>4, <1>6 DEF Honest

LEMMA RespondHonest ==
  ASSUME IInv, Honest(State), NEW i \in Slots, Respond(i)
  PROVE  Honest(State)'
<1> DEFINE q == req[i]
<1>1. PICK n \in Windows(q) :
        req' = [req EXCEPT ![i] = [@ EXCEPT !.phase = "body", !.answer = Answer(q, n)]]
  BY DEF Respond
<1>2. q.view \in Views /\ q.cursor \in Nat \cup {None}
  BY StateIsComplete DEF Honest, InShape, Sound
<1>3. n \in 0..Cardinality(Ahead(q))
  <2>1. Cardinality(Ahead(q)) \in Nat
    <3>1. IsFiniteSet(Positions)
      BY KafkaClientAssumption, FS_Interval DEF Positions
    <3>2. IsFiniteSet(Ahead(q))
      BY <3>1, AheadIsOfPositions, FS_Subset
    <3> QED
      BY <3>2, FS_CardinalityType
  <2> QED
    BY <2>1, KafkaClientAssumption DEF Windows
<1>4. Tells(q.view, q.cursor, Answer(q, n))
  BY <1>2, <1>3, AnswerTells
<1>5. Answer(q, n).cursor \in Nat \cup {None}
  BY <1>4 DEF Tells
<1> QED
  BY <1>1, <1>4, <1>5, AnsweredHonest DEF Respond

LEMMA RespondRecreatedHonest ==
  ASSUME IInv, Honest(State), NEW i \in Slots, RespondRecreated(i)
  PROVE  Honest(State)'
<1> DEFINE q == [req[i] EXCEPT !.cursor = None]
           a(n) == [Answer(q, n) EXCEPT !.recreated = TRUE]
<1>1. PICK n \in Windows(q) :
        req' = [req EXCEPT ![i] = [@ EXCEPT !.phase = "body", !.answer = a(n)]]
  BY DEF RespondRecreated
<1>2. q.view \in Views /\ q.cursor \in Nat \cup {None}
  <2>1. DOMAIN req[i] = ReqFields
    BY StateIsTheVariables DEF IInv, Good, Core, Shape
  <2>2. q.view = req[i].view /\ q.cursor = None
    BY <2>1 DEF ReqFields
  <2> QED
    BY <2>2, StateIsComplete DEF Honest, InShape, Sound
<1> HIDE DEF q
<1>3. n \in 0..Cardinality(Ahead(q))
  <2>1. Cardinality(Ahead(q)) \in Nat
    <3>1. IsFiniteSet(Positions)
      BY KafkaClientAssumption, FS_Interval DEF Positions
    <3>2. IsFiniteSet(Ahead(q))
      BY <3>1, AheadIsOfPositions, FS_Subset
    <3> QED
      BY <3>2, FS_CardinalityType
  <2> QED
    BY <2>1, KafkaClientAssumption DEF Windows
<1>4. Answer(q, n).cursor \in Nat \cup {None}
  BY <1>2, <1>3, AnswerTells DEF Tells
<1>5. a(n).cursor = Answer(q, n).cursor
  BY DEF Answer
<1> QED
  BY <1>1, <1>4, <1>5, AnsweredHonest DEF RespondRecreated

LEMMA LandHonest ==
  ASSUME IInv, Honest(State), NEW i \in Slots, Land(i)
  PROVE  Honest(State)'
<1>1. /\ Good(State) /\ State.req[i].kind \in {"page", "older", "step"} /\ State.req = req
      /\ State.req[i].phase = "body"
  BY StateIsTheVariables DEF Land, IInv, Good, Core, Requests
<1>2. CASE req[i].kind = "page"
  BY <1>1, <1>2, PageLandsHonest, BecomesHonest DEF Land
<1>3. CASE req[i].kind = "older"
  BY <1>1, <1>3, OlderLandsHonest, BecomesHonest DEF Land
<1>4. CASE req[i].kind = "step"
  <2> DEFINE n == StepLands(State, i)
  <2>1. Core(n) /\ One(n) /\ Honest(n)
    BY <1>1, <1>4, StepLandsGood, StepLandsHonest
  <2>2. Becomes(LoopResumes(n, req[i]))
    BY <1>4 DEF Land
  <2> HIDE DEF n
  <2> QED
    BY <2>1, <2>2, LoopResumesHonest, BecomesHonest
<1> QED
  BY <1>1, <1>2, <1>3, <1>4

LEMMA StepEndsHonest ==
  ASSUME IInv, Honest(State), NEW i \in Slots, NEW aborted, req[i].kind = "step",
         Becomes(LoopResumes(StepFails(State, i, aborted), req[i]))
  PROVE  Honest(State)'
<1> DEFINE n == StepFails(State, i, aborted)
<1>1. Core(n) /\ One(n) /\ Honest(n)
  <2>1. Good(State) /\ State.req = req
    BY StateIsTheVariables DEF IInv
  <2> QED
    BY <2>1, StepFailsGood, StepFailsHonest DEF Good
<1> HIDE DEF n
<1> QED
  BY <1>1, LoopResumesHonest, BecomesHonest DEF n

LEMMA AbortLandsHonest ==
  ASSUME IInv, Honest(State), NEW i \in Slots, AbortLands(i)
  PROVE  Honest(State)'
<1>1. req[i].kind = "step"
  BY StateIsTheVariables DEF AbortLands, IInv, Good, Core, Requests
<1> QED
  BY <1>1, StepEndsHonest DEF AbortLands

LEMMA FailsHonest ==
  ASSUME IInv, Honest(State), NEW i \in Slots, Fails(i)
  PROVE  Honest(State)'
<1> DEFINE q == req[i]
           t == [tab EXCEPT !.error = TRUE,
                   !.loading = IF q.kind = "page" THEN FALSE ELSE tab.loading,
                   !.older = IF q.kind = "older" THEN FALSE ELSE tab.older]
           n == [Freed(State, i) EXCEPT !.tab = t]
           m == StepFails(State, i, FALSE)
<1>1. /\ Good(State) /\ State.req[i].kind \in {"page", "older", "step"}
      /\ State.req = req /\ State.tab = tab
  BY StateIsTheVariables DEF Fails, IInv, Good, Core, Requests
<1>2. Becomes(IF q.kind = "step" THEN LoopResumes(m, q)
              ELSE IF q.mount THEN StartChildren(n) ELSE n)
  BY DEF Fails
<1>3. CASE q.kind = "step"
  BY <1>2, <1>3, StepEndsHonest
<1>4. CASE q.kind # "step"
  <2>1. /\ n.tab = t /\ n.of = State.of /\ n.controller = State.controller
        /\ n.req = [State.req EXCEPT ![i] = Idle] /\ n.children = State.children
        /\ DOMAIN n = DOMAIN State
    BY DEF Freed, State
  <2> HIDE DEF n
  <2>2. \A j \in Slots : Spared(n.req[j], State.req[j]) /\ (j # i => n.req[j] = State.req[j])
    BY <1>1, <2>1, FreedSpares DEF Good, Core, Shape
  <2>3. SameReading(n, State)
    BY <1>1, <2>1 DEF SameReading, View, Good, Core, Shape, TabFields
  <2>4. n.controller # None => n.controller \in Slots \ {i}
    BY <1>1, <1>4, <2>1 DEF Good, Core, Owner
  <2>5. Honest(n)
    <3>1. CASE n.controller = None
      BY <2>2, <2>3, <3>1, HonestStays
    <3>2. CASE n.controller # None
      <4>1. n.req[n.controller] = State.req[State.controller]
        BY <2>1, <2>2, <2>4, <3>2
      <4> QED
        BY <2>1, <2>2, <2>3, <4>1, HonestStays
    <3> QED
      BY <3>1, <3>2
  <2>6. Honest(StartChildren(n))
    <3> DEFINE k == StartChildren(n)
    <3>1. k.tab = n.tab /\ k.req = n.req /\ k.controller = n.controller /\ k.of = n.of
      BY <1>1, <2>1 DEF StartChildren, Good, Core, Shape
    <3> HIDE DEF k
    <3> QED
      BY <2>5, <3>1, FieldsHonest DEF k
  <2> QED
    BY <1>2, <1>4, <2>5, <2>6, BecomesHonest
<1> QED
  BY <1>3, <1>4

LEMMA SameTabHonest ==
  ASSUME Honest(State), UNCHANGED <<tab, req, controller, of>>
  PROVE  Honest(State)'
BY DEF State, Honest, InShape, Complete, GoesOn

LEMMA NextHonest ==
  ASSUME IInv, Honest(State), [Next]_vars
  PROVE  Honest(State)'
<1> USE DEF IInv
<1>1. CASE Mount
  BY <1>1, RoomIsOne, MountHonest, BecomesHonest DEF Mount
<1>2. CASE Leave
  BY <1>2, SameTabHonest DEF Leave
<1>3. CASE RefreshMessages
  BY <1>3, RoomIsOne, RefreshedHonest, BecomesHonest DEF RefreshMessages, Browsing, Gesture
<1>4. CASE RefreshAll \/ Produced
  <2>1. Becomes(Refreshed(StartChildren(State))) /\ One(State)
    BY <1>4, RoomIsOne DEF RefreshAll, Produced, Browsing, Gesture
  <2>2. /\ Good(StartChildren(State)) /\ One(StartChildren(State))
        /\ Honest(StartChildren(State))
    BY <2>1, StartChildrenGood, StartChildrenHonest DEF Good
  <2> QED
    BY <2>1, <2>2, RefreshedHonest, BecomesHonest
<1>5. CASE LoadOlder
  BY <1>5, RoomIsOne, StartOlderHonest, BecomesHonest DEF LoadOlder, Browsing, Gesture, Good
<1>6. CASE \E p \in Scopes : SetPartitionFilter(p)
  BY <1>6, SetPartitionFilterHonest
<1>7. CASE \E k \in Seeks \cup {None} : ApplySeek(k)
  BY <1>7, RoomIsOne, SetSeekHonest, BecomesHonest DEF ApplySeek, Browsing, Gesture
<1>8. CASE \E d \in Directions : ApplyDirection(d)
  BY <1>8, RoomIsOne, SetDirectionHonest, BecomesHonest DEF ApplyDirection, Browsing, Gesture
<1>9. CASE (\E c \in Conditions : SetLoadedFilter(c)) \/ ClearLoadedFilter
  BY <1>9, LoadedFilterHonest DEF SetLoadedFilter, ClearLoadedFilter
<1>10. CASE \E c \in Conditions : LinkJump(c)
  BY <1>10, LinkJumpHonest
<1>11. CASE \E c \in Conditions, k \in Seeks \cup {None} : StartSearch(c, k)
  BY <1>11, StartSearchHonest
<1>12. CASE ScanMore \/ ScanAll \/ Cancel \/ ClearSearch
  BY <1>12, ScanMoreHonest, ScanAllHonest, CancelHonest, ClearSearchHonest
<1>13. CASE RetryChildren
  BY <1>13, StartChildrenHonest, BecomesHonest DEF RetryChildren, Good
<1>14. CASE \E i \in Slots : Respond(i) \/ RespondRecreated(i)
  BY <1>14, RespondHonest, RespondRecreatedHonest
<1>15. CASE \E i \in Slots : Land(i) \/ AbortLands(i) \/ Fails(i)
  BY <1>15, LandHonest, AbortLandsHonest, FailsHonest
<1>16. CASE ChildrenLand
  BY <1>16, SameTabHonest DEF ChildrenLand
<1>17. CASE UNCHANGED vars
  BY <1>17, SameTabHonest DEF vars, clientVars
<1> QED
  BY <1>1, <1>2, <1>3, <1>4, <1>5, <1>6, <1>7, <1>8, <1>9, <1>10, <1>11, <1>12, <1>13, <1>14,
     <1>15, <1>16, <1>17 DEF Next

(* A search that says it is complete has found every match of the range it
   searched and nothing else, over steps that end early, caps, aborts that come
   too late and pages that land meanwhile, as long as no row of another view got
   into the list (kafka.ts: the file of matches says so). *)
THEOREM ExportIsHonestHolds == Spec => []ExportIsHonest
<1>1. Honest(State) => ExportIsHonest
  <2> SUFFICES ASSUME Honest(State), tab.search # None, tab.rows # <<>>, ScanComplete, of = View(tab)
               PROVE  Shown(tab) = {p \in Matches[tab.search] : InRange(View(tab), p)}
    BY DEF ExportIsHonest
  <2>1. ListTells(tab)
    BY StateIsComplete DEF Honest, Complete
  <2>2. tab.cursor = None /\ ~tab.limit
    BY <2>1 DEF ListTells, ScanComplete
  <2>3. View(tab).search = tab.search
    BY DEF View
  <2> QED
    BY <2>1, <2>2, <2>3 DEF ListTells, Wanted
<1>2. Init => IInv /\ Honest(State)
  BY InitIInv, InitHonest
<1>3. IInv /\ Honest(State) /\ [Next]_vars => IInv' /\ Honest(State)'
  BY NextPreserves, NextHonest
<1> QED
  BY <1>1, <1>2, <1>3, PTL DEF Spec
=============================================================================

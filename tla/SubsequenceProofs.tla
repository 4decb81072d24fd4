-------------------------- MODULE SubsequenceProofs -------------------------
(***************************************************************************)
(* What Filtered keeps of a sequence, for every sequence and every choice of   *)
(* its positions: the elements at those positions, all of them, in order.  *)
(***************************************************************************)
EXTENDS Subsequence, FiniteSetTheorems, TLAPS

(* Ranks tell the members of a finite set apart, and grow with them.        *)
LEMMA RankGrows ==
  ASSUME NEW I \in SUBSET Int, IsFiniteSet(I), NEW i \in I, NEW j \in I, i < j
  PROVE  Rank(I, i) \in Nat /\ Rank(I, j) \in Nat /\ Rank(I, i) < Rank(I, j)
<1> DEFINE B(x) == {y \in I : y < x}
<1>1. \A x \in I : IsFiniteSet(B(x)) /\ Cardinality(B(x)) \in Nat
  BY FS_Subset, FS_CardinalityType
<1>2. B(i) \in SUBSET B(j) /\ B(i) # B(j)
  <2>1. i \in B(j) /\ i \notin B(i)
    OBVIOUS
  <2>2. \A y \in B(i) : y \in B(j)
    OBVIOUS
  <2> QED
    BY <2>1, <2>2
<1>3. Cardinality(B(i)) <= Cardinality(B(j)) /\ Cardinality(B(i)) # Cardinality(B(j))
  BY <1>1, <1>2, FS_Subset
<1> QED
  BY <1>1, <1>3 DEF Rank

LEMMA RankFits ==
  ASSUME NEW I \in SUBSET Int, IsFiniteSet(I), NEW i \in I
  PROVE  Rank(I, i) \in 0..(Cardinality(I) - 1)
<1> DEFINE b == {y \in I : y < i}
<1>1. b \in SUBSET I /\ b # I
  OBVIOUS
<1>2. Cardinality(I) \in Nat /\ Cardinality(b) \in Nat /\ Cardinality(b) <= Cardinality(I) /\ Cardinality(b) # Cardinality(I)
  BY <1>1, FS_Subset, FS_CardinalityType
<1> QED
  BY <1>2 DEF Rank

(* Every rank is taken: ranks are as many as members.                       *)
LEMMA NthIs ==
  ASSUME NEW I \in SUBSET Int, IsFiniteSet(I)
  PROVE  /\ Cardinality(I) \in Nat
         /\ \A k \in 1..Cardinality(I) : Nth(I, k) \in I /\ Rank(I, Nth(I, k)) = k - 1
         /\ \A i \in I : Rank(I, i) + 1 \in 1..Cardinality(I) /\ Nth(I, Rank(I, i) + 1) = i
         /\ \A k, l \in 1..Cardinality(I) : k < l => Nth(I, k) < Nth(I, l)
<1> DEFINE n == Cardinality(I)
<1>1. n \in Nat
  BY FS_CardinalityType
<1>2. \A i, j \in I : Rank(I, i) = Rank(I, j) => i = j
  BY RankGrows
<1>3. \E f : f \in Surjection(I, 0..(n - 1)) /\ \A i \in I : f[i] = Rank(I, i)
  <2>1. PICK f : f = [i \in I |-> Rank(I, i)]
    OBVIOUS
  <2>2. f \in Injection(I, 0..(n - 1))
    BY <1>2, <2>1, RankFits DEF Injection, IsInjective
  <2>3. IsFiniteSet(0..(n - 1)) /\ Cardinality(0..(n - 1)) = n
    BY <1>1, FS_Interval
  <2> QED
    BY <2>1, <2>2, <2>3, FS_Injection
<1>4. \A k \in 1..n : \E i \in I : Rank(I, i) = k - 1
  <2>1. PICK f \in Surjection(I, 0..(n - 1)) : \A i \in I : f[i] = Rank(I, i)
    BY <1>3
  <2>2. \A m \in 0..(n - 1) : \E i \in I : f[i] = m
    BY <2>1 DEF Surjection
  <2> QED
    BY <1>1, <2>1, <2>2
<1>5. \A k \in 1..n : Nth(I, k) \in I /\ Rank(I, Nth(I, k)) = k - 1
  BY <1>4 DEF Nth
<1>6. \A i \in I : Rank(I, i) + 1 \in 1..n /\ Nth(I, Rank(I, i) + 1) = i
  <2> SUFFICES ASSUME NEW i \in I
               PROVE  Rank(I, i) + 1 \in 1..n /\ Nth(I, Rank(I, i) + 1) = i
    OBVIOUS
  <2>1. Rank(I, i) \in 0..(n - 1)
    BY RankFits
  <2>2. PICK k \in 1..n : k = Rank(I, i) + 1 /\ k - 1 = Rank(I, i)
    BY <1>1, <2>1
  <2>3. Nth(I, k) \in I /\ Rank(I, Nth(I, k)) = Rank(I, i)
    BY <1>5, <2>2
  <2> QED
    BY <1>2, <2>2, <2>3
<1>7. \A k, l \in 1..n : k < l => Nth(I, k) < Nth(I, l)
  <2> SUFFICES ASSUME NEW k \in 1..n, NEW l \in 1..n, k < l, ~ (Nth(I, k) < Nth(I, l))
               PROVE  FALSE
    OBVIOUS
  <2>1. /\ Nth(I, k) \in I /\ Rank(I, Nth(I, k)) = k - 1
        /\ Nth(I, l) \in I /\ Rank(I, Nth(I, l)) = l - 1
    BY <1>5
  <2>2. CASE Nth(I, k) = Nth(I, l)
    BY <1>1, <2>1, <2>2
  <2>3. CASE Nth(I, l) < Nth(I, k)
    <3>1. Rank(I, Nth(I, l)) < Rank(I, Nth(I, k))
      BY <2>1, <2>3, RankGrows
    <3> QED
      BY <1>1, <2>1, <3>1
  <2>4. Nth(I, k) \in Int /\ Nth(I, l) \in Int
    BY <2>1
  <2> QED
    BY <2>2, <2>3, <2>4
<1> QED
  BY <1>1, <1>5, <1>6, <1>7

(* Filtered keeps what is at the positions given, and nothing else.             *)
LEMMA FilteredKeeps ==
  ASSUME NEW s, NEW I \in SUBSET DOMAIN s, DOMAIN s \in SUBSET Int, IsFiniteSet(DOMAIN s)
  PROVE  /\ DOMAIN Filtered(s, I) = 1..Cardinality(I) /\ Cardinality(I) \in Nat
         /\ \A k \in DOMAIN Filtered(s, I) : Nth(I, k) \in I /\ Filtered(s, I)[k] = s[Nth(I, k)]
         /\ \A i \in I : \E k \in DOMAIN Filtered(s, I) : Nth(I, k) = i /\ Filtered(s, I)[k] = s[i]
<1>1. IsFiniteSet(I) /\ I \in SUBSET Int
  BY FS_Subset
<1> QED
  BY <1>1, NthIs DEF Filtered

LEMMA FilteredOfSequence ==
  ASSUME NEW S, NEW s \in Seq(S), NEW I \in SUBSET DOMAIN s
  PROVE  /\ Filtered(s, I) \in Seq({s[i] : i \in I}) /\ Filtered(s, I) \in Seq(S)
         /\ Len(Filtered(s, I)) = Cardinality(I) /\ Cardinality(I) \in Nat
         /\ \A k \in 1..Cardinality(I) : Nth(I, k) \in I /\ Filtered(s, I)[k] = s[Nth(I, k)]
         /\ \A i \in I : \E k \in 1..Cardinality(I) : Nth(I, k) = i
         /\ \A k, l \in 1..Cardinality(I) : k < l => Nth(I, k) < Nth(I, l)
         /\ (Filtered(s, I) = <<>> <=> I = {})
<1>1. DOMAIN s = 1..Len(s) /\ Len(s) \in Nat
  OBVIOUS
<1>2. IsFiniteSet(DOMAIN s) /\ IsFiniteSet(I) /\ I \in SUBSET Int
  <2>1. IsFiniteSet(1..Len(s))
    BY <1>1, FS_Interval
  <2> QED
    BY <1>1, <2>1, FS_Subset
<1>3. /\ Cardinality(I) \in Nat
      /\ \A k \in 1..Cardinality(I) : Nth(I, k) \in I
      /\ \A i \in I : \E k \in 1..Cardinality(I) : Nth(I, k) = i
      /\ \A k, l \in 1..Cardinality(I) : k < l => Nth(I, k) < Nth(I, l)
  BY <1>2, NthIs
<1>4. \A k \in 1..Cardinality(I) : Filtered(s, I)[k] = s[Nth(I, k)]
  BY DEF Filtered
<1>5. Filtered(s, I) \in Seq({s[i] : i \in I}) /\ Filtered(s, I) \in Seq(S) /\ Len(Filtered(s, I)) = Cardinality(I)
  BY <1>1, <1>3 DEF Filtered
<1>6. Cardinality(I) = 0 <=> I = {}
  BY <1>2, FS_EmptySet
<1>7. Filtered(s, I) = <<>> <=> Len(Filtered(s, I)) = 0
  BY <1>5
<1> QED
  BY <1>3, <1>4, <1>5, <1>6, <1>7
=============================================================================

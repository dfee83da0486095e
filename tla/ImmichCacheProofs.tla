-------------------------- MODULE ImmichCacheProofs --------------------------
(* Lemmas about the paged search: where an asset stands in the order, and   *)
(* what the pages read so far have shown.                                   *)
EXTENDS ImmichCache, FiniteSetTheorems, WellFoundedInduction, TLAPS

\* Any two assets are ordered.
Ordered(S) ==
  \A a, b \in S : /\ a.taken \in Int /\ Seniority[a.id] \in Int
                  /\ Seniority[a.id] = Seniority[b.id] => a = b

Earlier(a, S) == {b \in S : Before(b, a)}

LEMMA RankType ==
  ASSUME NEW S, IsFiniteSet(S), NEW a
  PROVE  /\ IsFiniteSet(Earlier(a, S)) /\ Cardinality(Earlier(a, S)) \in Nat
         /\ Rank(a, S) = Cardinality(Earlier(a, S)) + 1
         /\ Rank(a, S) \in Nat \ {0}
<1>1. Earlier(a, S) \in SUBSET S
  BY DEF Earlier
<1>2. IsFiniteSet(Earlier(a, S))
  BY <1>1, FS_Subset
<1>3. Cardinality(Earlier(a, S)) \in Nat
  BY <1>2, FS_CardinalityType
<1>4. Rank(a, S) = Cardinality(Earlier(a, S)) + 1
  BY DEF Rank, Earlier
<1> QED
  BY <1>2, <1>3, <1>4

\* Nothing moves to an earlier page while assets arrive.
LEMMA RankGrows ==
  ASSUME NEW T, IsFiniteSet(T), NEW S \in SUBSET T, NEW a
  PROVE  Rank(a, S) <= Rank(a, T)
<1>1. IsFiniteSet(S)
  BY FS_Subset
<1>2. Earlier(a, S) \in SUBSET Earlier(a, T)
  BY DEF Earlier
<1>3. Cardinality(Earlier(a, S)) <= Cardinality(Earlier(a, T))
  BY <1>2, RankType, FS_Subset
<1> QED
  BY <1>1, <1>3, RankType

LEMMA RankAtMost ==
  ASSUME NEW S, IsFiniteSet(S), Ordered(S), NEW a \in S
  PROVE  Rank(a, S) <= Cardinality(S)
<1>1. ~Before(a, a)
  BY DEF Ordered, Before
<1>2. Earlier(a, S) \in SUBSET (S \ {a})
  BY <1>1 DEF Earlier
<1>3. IsFiniteSet(S \ {a}) /\ Cardinality(S \ {a}) = Cardinality(S) - 1
  BY FS_RemoveElement
<1>4. Cardinality(Earlier(a, S)) <= Cardinality(S) - 1
  BY <1>2, <1>3, FS_Subset
<1>5. Cardinality(S) \in Nat
  BY FS_CardinalityType
<1> QED
  BY <1>4, <1>5, RankType

\* Who comes before has the lower rank.
LEMMA RankOrders ==
  ASSUME NEW S, IsFiniteSet(S), Ordered(S), NEW a \in S, NEW b \in S, Before(a, b)
  PROVE  Rank(a, S) < Rank(b, S)
<1>1. ~Before(a, a)
  BY DEF Ordered, Before
<1>2. \A c \in S : Before(c, a) => Before(c, b)
  BY DEF Ordered, Before
<1>3. Earlier(a, S) \in SUBSET (Earlier(b, S) \ {a}) /\ a \in Earlier(b, S)
  BY <1>1, <1>2 DEF Earlier
<1>4. /\ IsFiniteSet(Earlier(b, S) \ {a})
      /\ Cardinality(Earlier(b, S) \ {a}) = Cardinality(Earlier(b, S)) - 1
  BY <1>3, RankType, FS_RemoveElement
<1>5. Cardinality(Earlier(a, S)) <= Cardinality(Earlier(b, S)) - 1
  BY <1>3, <1>4, FS_Subset
<1> QED
  BY <1>5, RankType

LEMMA RankDiffers ==
  ASSUME NEW S, IsFiniteSet(S), Ordered(S), NEW a \in S, NEW b \in S, a # b
  PROVE  Rank(a, S) # Rank(b, S)
<1>1. Before(a, b) \/ Before(b, a)
  BY DEF Ordered, Before
<1> QED
  BY <1>1, RankOrders, RankType

\* A nonempty set of assets has one of least rank.
LEMMA LeastRank ==
  ASSUME NEW S, IsFiniteSet(S), NEW C \in SUBSET S, C # {}
  PROVE  \E a \in C : \A b \in C : Rank(a, S) <= Rank(b, S)
<1> DEFINE R == {Rank(a, S) : a \in C}
<1>1. R \subseteq Nat /\ R # {}
  BY RankType
<1>2. \E x \in R : \A y \in R : ~(<<y, x>> \in OpToRel(<, Nat))
  <2> HIDE DEF R
  <2> QED
    BY <1>1, NatLessThanWellFounded, WFMin
<1>3. \E x \in R : \A y \in R : x <= y
  <2>1. \A x, y \in Nat : ~(<<y, x>> \in OpToRel(<, Nat)) => x <= y
    BY DEF OpToRel
  <2> HIDE DEF R
  <2> QED
    BY <1>1, <1>2, <2>1
<1> QED
  BY <1>3

\* max_taken_at is the time of some asset, so whatever bounds all of them bounds it.
LEMMA MaxIsTaken ==
  ASSUME NEW S, IsFiniteSet(S), Ordered(S), S # {}
  PROVE  \E a \in S : MaxTakenAt(S) = a.taken
<1>1. PICK a \in S : \A b \in S : Rank(a, S) <= Rank(b, S)
  BY LeastRank
<1>2. \A b \in S : ~Before(b, a)
  BY <1>1, RankOrders, RankType
<1>3. \A b \in S : a.taken >= b.taken
  BY <1>2 DEF Ordered, Before
<1> DEFINE T == {b.taken : b \in S}
<1>4. a.taken \in T /\ \A y \in T : a.taken >= y
  BY <1>3
<1>5. Max(T) \in T
  <2> HIDE DEF T
  <2> QED
    BY <1>4 DEF Max
<1> QED
  BY <1>5 DEF MaxTakenAt

-----------------------------------------------------------------------------
(* The pages.  Start(n) assets come before page n.                         *)

Start(n) == (n - 1) * PageSize

LEMMA StartType ==
  ASSUME NEW n \in Nat \ {0}
  PROVE  /\ Start(n) \in Nat /\ Start(1) = 0 /\ PageSize \in Nat \ {0}
         /\ n * PageSize = Start(n) + PageSize /\ Start(n + 1) = Start(n) + PageSize
<1>1. PageSize \in Nat \ {0}
  BY CacheAssumption
<1>2. \A k, p \in Nat : k * p \in Nat
  OBVIOUS
<1>3. Start(n) \in Nat /\ Start(1) = 0
  BY <1>1, <1>2 DEF Start
<1>4. n * PageSize = Start(n) + PageSize /\ Start(n + 1) = Start(n) + PageSize
  BY <1>1 DEF Start
<1> QED
  BY <1>1, <1>3, <1>4

\* Whoever is no later than page n is on it or before it.
LEMMA OnPageOrBefore ==
  ASSUME NEW S, IsFiniteSet(S), NEW n \in Nat \ {0}, NEW a \in S,
         Rank(a, S) <= Start(n) + PageSize
  PROVE  Rank(a, S) <= Start(n) \/ a \in Page(S, n)
<1>1. Page(S, n) = {b \in S : Rank(b, S) \in Start(n) + 1 .. Start(n) + PageSize}
  BY StartType DEF Page, Start
<1> QED
  BY <1>1, RankType, StartType

\* Nothing comes after an empty page.
LEMMA NothingAfterEmptyPage ==
  ASSUME NEW S, IsFiniteSet(S), Ordered(S), NEW n \in Nat \ {0}, Page(S, n) = {}
  PROVE  \A a \in S : Rank(a, S) <= Start(n)
<1> DEFINE C == {a \in S : Rank(a, S) > Start(n)}
<1>0. Start(n) \in Nat /\ PageSize \in Nat \ {0} /\ \A a \in S : Rank(a, S) \in Nat \ {0}
  BY RankType, StartType
<1> SUFFICES ASSUME C # {} PROVE FALSE
  BY <1>0
<1>1. PICK a \in C : \A b \in C : Rank(a, S) <= Rank(b, S)
  BY LeastRank
<1>2. Rank(a, S) > Start(n) + PageSize
  BY <1>0, OnPageOrBefore
<1>3. \A b \in Earlier(a, S) : Rank(b, S) \in 1 .. Start(n)
  <2> TAKE b \in Earlier(a, S)
  <2>1. b \in S /\ Rank(b, S) < Rank(a, S)
    BY RankOrders DEF Earlier
  <2>2. b \notin C
    BY <1>0, <1>1, <2>1
  <2> QED
    BY <1>0, <2>1, <2>2
<1> DEFINE f == [b \in Earlier(a, S) |-> Rank(b, S)]
<1>4. f \in Injection(Earlier(a, S), 1 .. Start(n))
  <2>1. \A b, c \in Earlier(a, S) : b # c => f[b] # f[c]
    BY RankDiffers DEF Earlier
  <2> QED
    BY <1>3, <2>1 DEF Injection, IsInjective
<1>5. IsFiniteSet(1 .. Start(n)) /\ Cardinality(1 .. Start(n)) = Start(n)
  BY <1>0, FS_Interval
<1>6. Cardinality(Earlier(a, S)) <= Start(n)
  <2> HIDE DEF f
  <2> QED
    BY <1>4, <1>5, FS_Injection
<1> QED
  BY <1>0, <1>2, <1>6, RankType

\* When the loading stops at page n, all assets are on it or before it.
LEMMA LastPageIsLast ==
  ASSUME NEW S, IsFiniteSet(S), Ordered(S), NEW n \in Nat \ {0},
         NEW next \in {TRUE, MoreAfter(S, n)}, LastPage(Page(S, n), next), NEW a \in S
  PROVE  Rank(a, S) <= Start(n) \/ a \in Page(S, n)
<1>1. CASE Page(S, n) = {}
  BY <1>1, NothingAfterEmptyPage
<1>2. CASE ~MoreAfter(S, n)
  <2>1. Cardinality(S) \in Nat /\ Cardinality(S) <= Start(n) + PageSize
    BY <1>2, FS_CardinalityType, StartType DEF MoreAfter
  <2>2. Rank(a, S) <= Start(n) + PageSize
    BY <2>1, RankAtMost, RankType, StartType
  <2> QED
    BY <2>2, OnPageOrBefore
<1> QED
  BY <1>1, <1>2 DEF LastPage
=============================================================================

----------------------------- MODULE RankLemmas ----------------------------
(***************************************************************************)
(* Ranks in a finite set of numbers: what the pages of a listing and the   *)
(* elements of a sequence at some of its positions rest on.  That every    *)
(* rank is taken follows from the pigeonhole principle.                    *)
(***************************************************************************)
EXTENDS FiniteSetTheorems, TLAPS

\* The rank of r in a set whose greatest element comes first.
Above(set, r) == {x \in set : x > r}

RankIn(set, r) == Cardinality(Above(set, r))

-----------------------------------------------------------------------------
LEMMA OneMore ==
  ASSUME NEW set, IsFiniteSet(set), NEW x
  PROVE  /\ IsFiniteSet(set \cup {x})
         /\ Cardinality(set \cup {x}) \in Nat
         /\ Cardinality(set \cup {x}) <= Cardinality(set) + 1
<1>1. Cardinality(set) \in Nat
  BY FS_CardinalityType
<1> QED
  BY <1>1, FS_AddElement

LEMMA AboveFinite ==
  ASSUME NEW set \in SUBSET Nat, IsFiniteSet(set), NEW r
  PROVE  IsFiniteSet(Above(set, r)) /\ RankIn(set, r) \in Nat /\ Cardinality(set) \in Nat
<1>1. Above(set, r) \in SUBSET set
  BY DEF Above
<1>2. IsFiniteSet(Above(set, r))
  BY <1>1, FS_Subset
<1> QED
  BY <1>2, FS_CardinalityType DEF RankIn

LEMMA RankBelowTotal ==
  ASSUME NEW set \in SUBSET Nat, IsFiniteSet(set), NEW r \in set
  PROVE  RankIn(set, r) < Cardinality(set)
<1>1. Above(set, r) \in SUBSET set /\ r \notin Above(set, r)
  BY DEF Above
<1>2. Cardinality(Above(set, r)) <= Cardinality(set) /\ Cardinality(Above(set, r)) # Cardinality(set)
  BY <1>1, FS_Subset
<1> QED
  BY <1>2, AboveFinite DEF RankIn

\* A rank only grows with the set.
LEMMA RankGrows ==
  ASSUME NEW set \in SUBSET Nat, IsFiniteSet(set), NEW more \in SUBSET Nat, IsFiniteSet(more),
         set \subseteq more, NEW r
  PROVE  RankIn(set, r) <= RankIn(more, r)
<1>1. Above(set, r) \in SUBSET Above(more, r)
  BY DEF Above
<1> QED
  BY <1>1, AboveFinite, FS_Subset DEF RankIn

\* One element less moves the others up by one at most.
LEMMA RankDrops ==
  ASSUME NEW set \in SUBSET Nat, IsFiniteSet(set), NEW r, NEW x
  PROVE  RankIn(set, x) <= RankIn(set \ {r}, x) + 1
<1> DEFINE all == Above(set, x)
<1>1. Above(set \ {r}, x) = all \ {r}
  BY DEF Above
<1>2. IsFiniteSet(all) /\ Cardinality(all) \in Nat
  BY AboveFinite DEF RankIn
<1> HIDE DEF all
<1>3. Cardinality(all \ {r}) = IF r \in all THEN Cardinality(all) - 1 ELSE Cardinality(all)
  BY <1>2, FS_RemoveElement
<1>4. Cardinality(all) <= Cardinality(all \ {r}) + 1
  BY <1>2, <1>3
<1> QED
  BY <1>1, <1>4 DEF RankIn, all

LEMMA RankIsInjective ==
  ASSUME NEW set \in SUBSET Nat, IsFiniteSet(set), NEW q \in set, NEW r \in set, q # r
  PROVE  RankIn(set, q) # RankIn(set, r)
<1>1. ASSUME NEW a \in set, NEW b \in set, a < b
      PROVE  RankIn(set, a) # RankIn(set, b)
  <2>1. Above(set, b) \in SUBSET Above(set, a)
    <3> SUFFICES ASSUME NEW x \in set, x > b
                 PROVE  x > a
      BY DEF Above
    <3>1. x \in Nat /\ a \in Nat /\ b \in Nat
      OBVIOUS
    <3> QED
      BY <1>1, <3>1
  <2>2. b \in Above(set, a) /\ b \notin Above(set, b)
    BY <1>1 DEF Above
  <2> QED
    BY <2>1, <2>2, AboveFinite, FS_Subset DEF RankIn
<1>2. q < r \/ r < q
  OBVIOUS
<1> QED
  BY <1>1, <1>2

\* Every number below the total is the rank of an element.
LEMMA RankIsOnto ==
  ASSUME NEW set \in SUBSET Nat, IsFiniteSet(set), NEW k \in Nat, k < Cardinality(set)
  PROVE  \E r \in set : RankIn(set, r) = k
<1> DEFINE n == Cardinality(set)
           others == (0..(n - 1)) \ {k}
           f == [r \in set |-> RankIn(set, r)]
<1>1. n \in Nat /\ n > 0
  BY AboveFinite
<1>2. SUFFICES ASSUME \A r \in set : RankIn(set, r) # k
               PROVE  FALSE
  OBVIOUS
<1>3. IsFiniteSet(others) /\ Cardinality(others) < n
  <2> DEFINE all == 0..(n - 1)
  <2>1. k \in all
    BY <1>1
  <2> HIDE DEF n
  <2>2. n - 1 \in Int /\ ~ (0 > n - 1) /\ n - 1 - 0 + 1 = n
    BY <1>1
  <2>3. IsFiniteSet(all) /\ Cardinality(all) = n
    BY <2>2, FS_Interval
  <2> HIDE DEF all
  <2>4. IsFiniteSet(all \ {k}) /\ Cardinality(all \ {k}) = n - 1
    BY <2>1, <2>3, FS_RemoveElement
  <2> QED
    BY <1>1, <2>4 DEF all
<1>4. f \in [set -> others]
  <2> SUFFICES ASSUME NEW r \in set PROVE RankIn(set, r) \in others
    OBVIOUS
  <2>1. RankIn(set, r) \in Nat /\ RankIn(set, r) < n /\ RankIn(set, r) # k
    BY <1>2, AboveFinite, RankBelowTotal
  <2> QED
    BY <1>1, <2>1
<1> HIDE DEF others, f, n
<1>5. PICK x \in set, y \in set : x # y /\ f[x] = f[y]
  BY <1>3, <1>4, FS_PigeonHole DEF n
<1> QED
  BY <1>5, RankIsInjective DEF f

\* A page, the elements whose ranks are in a window, is no larger than that.
LEMMA PageIsBounded ==
  ASSUME NEW set \in SUBSET Nat, IsFiniteSet(set), NEW from \in Nat, NEW size \in Nat,
         NEW page, page = {r \in set : from <= RankIn(set, r) /\ RankIn(set, r) < from + size}
  PROVE  IsFiniteSet(page) /\ Cardinality(page) \in Nat /\ Cardinality(page) <= size
<1> DEFINE places == from..(from + size - 1)
           f == [r \in page |-> RankIn(set, r)]
<1>1. page \in SUBSET set
  OBVIOUS
<1>2. IsFiniteSet(page) /\ Cardinality(page) \in Nat
  BY <1>1, FS_Subset, FS_CardinalityType
<1>3. IsFiniteSet(places) /\ Cardinality(places) = size
  BY FS_Interval
<1>4. f \in [page -> places]
  BY <1>1, AboveFinite
<1> HIDE DEF places
<1>5. \A x, y \in page : x # y => f[x] # f[y]
  BY <1>1, RankIsInjective
<1> HIDE DEF f
<1>6. ~ (Cardinality(places) < Cardinality(page))
  <2> SUFFICES ASSUME Cardinality(places) < Cardinality(page)
               PROVE  FALSE
    OBVIOUS
  <2>1. PICK x \in page, y \in page : x # y /\ f[x] = f[y]
    BY <1>2, <1>3, <1>4, FS_PigeonHole
  <2> QED
    BY <1>5, <2>1
<1> QED
  BY <1>2, <1>3, <1>6

\* A page has no gaps: it has all ranks between its first and any of its own.
LEMMA PageIsDense ==
  ASSUME NEW set \in SUBSET Nat, IsFiniteSet(set), NEW from \in Nat, NEW size \in Nat,
         NEW page, page = {r \in set : from <= RankIn(set, r) /\ RankIn(set, r) < from + size},
         NEW r \in page
  PROVE  RankIn(set, r) < from + Cardinality(page)
<1> DEFINE last == RankIn(set, r)
           places == from..last
           at == [k \in places |-> CHOOSE x \in set : RankIn(set, x) = k]
<1>1. /\ last \in Nat
      /\ from <= last
      /\ last < from + size
      /\ last < Cardinality(set)
      /\ Cardinality(set) \in Nat
  BY AboveFinite, RankBelowTotal
<1> HIDE DEF last
<1>2. IsFiniteSet(places) /\ Cardinality(places) = last - from + 1
  BY <1>1, FS_Interval
<1>3. ASSUME NEW k \in places
      PROVE  at[k] \in page /\ RankIn(set, at[k]) = k
  <2>1. k \in Nat /\ k < Cardinality(set) /\ from <= k /\ k < from + size
    BY <1>1, <1>3
  <2>2. \E x \in set : RankIn(set, x) = k
    BY <2>1, RankIsOnto
  <2> QED
    BY <1>3, <2>1, <2>2
<1>4. IsFiniteSet(page) /\ Cardinality(page) \in Nat
  BY PageIsBounded
<1>5. at \in [places -> page]
  BY <1>3
<1> HIDE DEF places, at
<1>6. ~ (Cardinality(page) < Cardinality(places))
  BY <1>2, <1>3, <1>4, <1>5, FS_PigeonHole
<1>7. last < from + Cardinality(page)
  BY <1>1, <1>2, <1>4, <1>6
<1> QED
  BY <1>7 DEF last

=============================================================================
